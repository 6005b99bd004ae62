----------------------------- MODULE Handshake -----------------------------
(***************************************************************************)
(* Setup and relay of TCP sessions: the SOCKS4, SOCKS5, HTTP CONNECT and   *)
(* direct handlers as state machines over replies that arrive in pieces,   *)
(* the loop that drives them (handle_proxy_session), the timeout around    *)
(* the setup, and the two pumps that copy the data afterwards              *)
(* (handle_tcp_session).  HTTP sessions share one digest state.            *)
(*                                                                         *)
(* A stream is a sequence of pieces.  A reply has a "first" and an "end"   *)
(* piece, a challenge also a "body" for every unit of its length; the      *)
(* application's data are the pieces 1, 2, ...; a read takes any nonempty  *)
(* prefix of what has arrived.  A DNS-over-TCP frame is two pieces.        *)
(***************************************************************************)
EXTENDS Naturals, FiniteSets, Sequences

CONSTANTS
    TcpFlows,  \* TCP sessions
    Worlds     \* the proxies, configurations and bounds considered

ASSUME HandshakeAssumption ==
    Worlds \subseteq [proxy   : {"socks4", "socks5", "http", "none"},
                      active  : SUBSET TcpFlows,  \* the sessions that start
                      known   : BOOLEAN,       \* credentials are configured
                      auth    : {"open", "password", "basic", "digest"},
                      filter  : BOOLEAN,       \* filter_dns_ipv6
                      forms   : SUBSET [form : {"length", "close", "none", "chunked"}, length : Nat],
                                               \* how the proxy ends its challenges
                      ends    : BOOLEAN,       \* the server may end at any time
                      data    : Nat,           \* bound: pieces the server has to say
                      expires : Nat]           \* bound: times the nonces expire

VARIABLES
    world,     \* the configuration, and external: the kind of proxy
    at,        \* where each session's task is
    handler,   \* each session's ProxyHandler
    digest,    \* the digest state all HTTP handlers share; nonce 0: none
    relay,     \* each session's relay
    wire,      \* external: what the server sent and the session has not read
    server,    \* external: the server's end of each connection
    realm      \* external: nonces issued and valid, answers seen

shakeVars == <<world, at, handler, digest, relay, wire, server, realm>>

Pieces(r) ==
    <<[of |-> r, part |-> "first"], [of |-> r, part |-> "end"]>>
        \o (IF r.name = "407" THEN [i \in 1 .. r.length |-> [of |-> r, part |-> "body"]] ELSE <<>>)

Data(n) == [of |-> [name |-> "data", number |-> n], part |-> "data"]

(* The new handlers: a SOCKS handler has queued its hello, an HTTP one     *)
(* queues its request next, a direct one is established.                   *)
NewHandler ==
    [state  |-> CASE world.proxy = "http" -> "ExpectResponseHeaders"
                  [] world.proxy = "none" -> "Established"
                  [] OTHER -> "ServerHello",
     inbuf  |-> <<>>, client |-> <<>>, skip |-> 0, before |-> FALSE, scheme |-> "Basic",
     out    |-> CASE world.proxy = "socks4" -> <<[name |-> "hello4"]>>
                  [] world.proxy = "socks5" -> <<[name |-> "methods"]>>
                  [] OTHER -> <<>>]

Closed(s) == server[s].link # "open"

ShakeInit ==
    /\ world \in Worlds
    /\ at = [s \in TcpFlows |-> IF s \in world.active THEN "new" ELSE "idle"]
    /\ handler = [s \in TcpFlows |-> NewHandler]
    /\ digest = [nonce |-> 0, count |-> 0]
    /\ relay = [s \in TcpFlows |-> [pending |-> <<>>, given |-> <<>>, down |-> "emit", up |-> "copy"]]
    /\ wire = [s \in TcpFlows |-> <<>>]
    /\ server = [s \in TcpFlows |-> [asked |-> <<>>, link |-> "open", granted |-> world.proxy = "none", said |-> 0]]
    /\ realm = [issued |-> 0, valid |-> {}, seen |-> {}, expired |-> 0]

Goto(s, l) == at' = [at EXCEPT ![s] = l]

Become(s, h) == handler' = [handler EXCEPT ![s] = h] /\ UNCHANGED digest

(* The handler ends with its session.                                      *)
Fail(s) == Goto(s, "failed") /\ Become(s, NewHandler)

(* The replies' bytes in a buffer: complete with its "end".                *)
Complete(buf) == \E i \in DOMAIN buf : buf[i].part = "end"

Rest(buf) == SubSeq(buf, 3, Len(buf))

-----------------------------------------------------------------------------
(* SocksProxyImpl::new fails for a SOCKS4 session to an IPv6 target.       *)
NewSocks(s) ==
    /\ at[s] = "new" /\ world.proxy # "http"
    /\ \/ Goto(s, "connect")
       \/ world.proxy = "socks4" /\ Goto(s, "failed")
    /\ UNCHANGED <<handler, digest, relay, wire, server>>

(* create_tcp_stream succeeds or fails; a direct handler is established,   *)
(* the others launch by writing what their handler has queued.             *)
CreateTcpStream(s) ==
    /\ at[s] = "connect"
    /\ \/ Goto(s, IF handler[s].state = "Established" THEN "prefetch" ELSE "write")
       \/ Goto(s, "failed")
    /\ UNCHANGED <<handler, digest, relay, wire, server>>

(* Writing what the handler has queued, after the connection or after a    *)
(* read; the loop ends once the handler is established.  A write to a      *)
(* connection that the server has closed may fail.                         *)
Write(s) ==
    LET h == handler[s] IN
    /\ at[s] = "write"
    /\ \/ /\ h.out = <<>> \/ server[s].link # "reset"
          /\ Goto(s, IF h.state = "Established" THEN "prefetch" ELSE "read")
          /\ Become(s, [h EXCEPT !.out = <<>>])
          /\ server' = [server EXCEPT ![s].asked = @ \o h.out]
       \/ h.out # <<>> /\ Closed(s) /\ Fail(s) /\ UNCHANGED server
    /\ UNCHANGED <<relay, wire>>

(* A read gives what has arrived, or says that the server has closed.      *)
Read(s) ==
    /\ at[s] = "read"
    /\ \/ \E n \in 1 .. Len(wire[s]) :
             /\ Goto(s, "change")
             /\ Become(s, [handler[s] EXCEPT !.inbuf = @ \o SubSeq(wire[s], 1, n)])
             /\ wire' = [wire EXCEPT ![s] = SubSeq(@, n + 1, Len(@))]
       \/ wire[s] = <<>> /\ Closed(s) /\ Fail(s) /\ UNCHANGED wire
    /\ UNCHANGED <<relay, server>>

-----------------------------------------------------------------------------
(* state_change: every arm is a step of its own, since an arm may wait for *)
(* the shared digest state; "change" goes on with the next arm and "write" *)
(* is the return from push_data.                                           *)

(* An arm that parses a reply: it waits for all of it, goes on with the    *)
(* state that follows an accepted reply, or fails.                         *)
Receive(s, follows) ==
    LET h == handler[s]
        r == h.inbuf[1].of.name
    IN
    \/ ~ Complete(h.inbuf) /\ Goto(s, "write") /\ UNCHANGED <<handler, digest>>
    \/ /\ Complete(h.inbuf) /\ r \in DOMAIN follows
       /\ Goto(s, "change")
       /\ Become(s, [h EXCEPT !.inbuf = Rest(@), !.state = follows[r]])
    \/ Complete(h.inbuf) /\ r \notin DOMAIN follows /\ Fail(s)

ReceiveServerHelloSocks4(s) ==
    /\ handler[s].state = "ServerHello" /\ world.proxy = "socks4"
    /\ Receive(s, [granted |-> "Established"])

(* SOCKS5: no authentication, or a password if there is one.               *)
Methods == {"NoAuth"} \cup {m \in {"UserPass"} : world.known}

ReceiveServerHelloSocks5(s) ==
    /\ handler[s].state = "ServerHello" /\ world.proxy = "socks5"
    /\ Receive(s, [m \in Methods |-> IF m = "UserPass" THEN "SendAuthData" ELSE "SendRequest"])

SendAuthData(s) ==
    /\ handler[s].state = "SendAuthData"
    /\ Goto(s, "write")
    /\ Become(s, [handler[s] EXCEPT !.out = Append(@, [name |-> "password"]),
                                    !.state = "ReceiveAuthResponse"])

ReceiveAuthData(s) ==
    /\ handler[s].state = "ReceiveAuthResponse"
    /\ Receive(s, [granted |-> "SendRequest"])

SendRequestSocks5(s) ==
    /\ handler[s].state = "SendRequest"
    /\ Goto(s, "write")
    /\ Become(s, [handler[s] EXCEPT !.out = Append(@, [name |-> "connect"]),
                                    !.state = "ReceiveResponse"])

ReceiveConnectionStatus(s) ==
    /\ handler[s].state = "ReceiveResponse"
    /\ Receive(s, [granted |-> "Established"])

(* Mutant: what followed the reply in the last read is dropped.            *)
RelayTrafficForgetting(s) ==
    LET h == handler[s] IN
    /\ h.state = "Established"
    /\ Goto(s, "write")
    /\ Become(s, [h EXCEPT !.inbuf = <<>>])

(* Established: what followed the reply is for the client.                 *)
RelayTraffic(s) ==
    LET h == handler[s] IN
    /\ h.state = "Established"
    /\ Goto(s, "write")
    /\ Become(s, [h EXCEPT !.client = @ \o h.inbuf, !.inbuf = <<>>])

-----------------------------------------------------------------------------
(* Mutant: a second challenge is final even if the first nonce was stale.  *)
BadCredentialsStaleToo(h, r) == h.before

(* A second challenge means bad credentials, unless the nonce was stale.   *)
BadCredentials(h, r) == h.before /\ ~ r.stale

(* The headers of an HTTP response, once their end has arrived.  What does *)
(* not start with a status line (the rest of a body that was not skipped)  *)
(* cannot be parsed.                                                       *)
ExpectResponseHeaders(s) ==
    LET h == handler[s]
        r == h.inbuf[1].of
    IN
    /\ h.state = "ExpectResponseHeaders"
    /\ \/ ~ Complete(h.inbuf) /\ Goto(s, "write") /\ UNCHANGED <<handler, digest>>
       \/ Complete(h.inbuf) /\ h.inbuf[1].part # "first" /\ Fail(s)
       \/ /\ Complete(h.inbuf) /\ h.inbuf[1].part = "first"
          /\ \/ /\ r.name = "200"
                /\ Goto(s, "change")
                /\ Become(s, [h EXCEPT !.inbuf = Rest(@), !.state = "Established"])
             \/ r.name \notin {"200", "407"} /\ Fail(s)
             \/ r.name = "407" /\ r.scheme # "Digest" /\ Fail(s)
             \/ /\ r.name = "407" /\ r.scheme = "Digest" /\ BadCredentials(h, r)
                /\ Goto(s, "refused") /\ Become(s, NewHandler)
             \/ /\ r.name = "407" /\ r.scheme = "Digest" /\ ~ BadCredentials(h, r)
                /\ Goto(s, "challenged") /\ UNCHANGED <<handler, digest>>

(* The challenge replaces the shared digest state.  A response that ends   *)
(* with its connection, or whose length is not known, empties the buffers  *)
(* and is answered at once; otherwise its body is skipped first.           *)
Challenged(s) ==
    LET h == handler[s]
        r == h.inbuf[1].of
        b == [h EXCEPT !.before = TRUE]
    IN
    /\ at[s] = "challenged"
    /\ digest' = [nonce |-> r.nonce, count |-> 0]
    /\ \/ /\ r.form \in {"close", "none"}
          /\ Goto(s, "scheme")
          /\ handler' = [handler EXCEPT ![s] = [b EXCEPT !.inbuf = <<>>, !.out = <<>>]]
       \/ /\ r.form = "chunked"
          /\ Goto(s, "failed") /\ handler' = [handler EXCEPT ![s] = NewHandler]
       \/ /\ r.form = "length"
          /\ Goto(s, "change")
          /\ handler' = [handler EXCEPT ![s] = [b EXCEPT !.state = "ExpectResponse", !.skip = r.length + 2]]
    /\ UNCHANGED <<relay, wire, server>>

(* Skipping the rest of the challenge, then asking again.                  *)
ExpectResponse(s) ==
    LET h == handler[s]
        n == IF h.skip < Len(h.inbuf) THEN h.skip ELSE Len(h.inbuf)
    IN
    /\ h.state = "ExpectResponse"
    /\ Goto(s, IF h.skip = n THEN "scheme" ELSE "write")
    /\ Become(s, [h EXCEPT !.inbuf = SubSeq(@, n + 1, Len(@)), !.skip = @ - n])

(* The connection was to be reset: the next response is expected.          *)
Reset(s) ==
    /\ handler[s].state = "Reset"
    /\ Goto(s, "change")
    /\ Become(s, [handler[s] EXCEPT !.state = "ExpectResponseHeaders"])

(* send_tunnel_request looks at the shared state once to choose the scheme *)
(* and, for Digest, once more to answer, counting the uses of the nonce.   *)
ChooseScheme(s) ==
    /\ at[s] = "scheme" \/ (at[s] = "new" /\ world.proxy = "http")
    /\ Goto(s, IF at[s] = "new" THEN "firstAnswer" ELSE "answer")
    /\ Become(s, [handler[s] EXCEPT !.scheme = IF digest.nonce = 0 THEN "Basic" ELSE "Digest"])
    /\ UNCHANGED <<relay, wire, server>>

Authorization(h) ==
    CASE ~ world.known -> [by |-> "none", nonce |-> 0, count |-> 0]
      [] world.known /\ h.scheme = "Basic" -> [by |-> "Basic", nonce |-> 0, count |-> 0]
      [] world.known /\ h.scheme = "Digest" ->
            [by |-> "Digest", nonce |-> digest.nonce, count |-> digest.count + 1]

SendTunnelRequest(s) ==
    LET h == handler[s]
        a == Authorization(h)
    IN
    /\ at[s] \in {"firstAnswer", "answer"}
    /\ digest' = [digest EXCEPT !.count = IF a.by = "Digest" THEN a.count ELSE @]
    /\ handler' = [handler EXCEPT ![s] =
          [h EXCEPT !.out = Append(@, [name |-> "CONNECT", auth |-> a]),
                    !.state = CASE at[s] = "firstAnswer" -> @
                                [] at[s] = "answer" /\ @ = "ExpectResponse" -> "ExpectResponseHeaders"
                                [] OTHER -> "Reset"]]
    /\ Goto(s, CASE at[s] = "firstAnswer" -> "connect"
                 [] at[s] = "answer" /\ h.state = "ExpectResponse" -> "change"
                 [] OTHER -> "write")
    /\ UNCHANGED <<relay, wire, server>>

StateChange(s) ==
    /\ at[s] = "change"
    /\ \/ ReceiveServerHelloSocks4(s) \/ ReceiveServerHelloSocks5(s) \/ SendAuthData(s)
       \/ ReceiveAuthData(s) \/ SendRequestSocks5(s) \/ ReceiveConnectionStatus(s)
       \/ RelayTraffic(s)
       \/ ExpectResponseHeaders(s) \/ ExpectResponse(s) \/ Reset(s)
    /\ UNCHANGED <<relay, wire, server>>

-----------------------------------------------------------------------------
(* What the handler holds for the client is taken before the switch to the *)
(* raw connection.                                                         *)
Prefetch(s) ==
    /\ at[s] = "prefetch"
    /\ Goto(s, "relay")
    /\ relay' = [relay EXCEPT ![s].pending = handler[s].client]
    /\ Become(s, [handler[s] EXCEPT !.client = <<>>])
    /\ UNCHANGED <<wire, server>>

(* Mutant: the timeout covers the connection only.                         *)
InSetupConnecting(s) == at[s] = "connect"

InSetup(s) == at[s] \in {"connect", "write", "read", "change", "challenged", "scheme", "answer", "prefetch"}

(* The configured TCP timeout ends a setup wherever it is.                 *)
SetupTimesOut(s) ==
    /\ InSetup(s)
    /\ Fail(s)
    /\ UNCHANGED <<relay, wire, server>>

(* What may go to the client: everything, or only whole DNS frames.        *)
Whole(pending) == IF world.filter THEN 2 * (Len(pending) \div 2) ELSE Len(pending)

DownEmits(s) ==
    LET n == Whole(relay[s].pending) IN
    /\ at[s] = "relay" /\ relay[s].down = "emit"
    /\ relay' = [relay EXCEPT ![s].down = "read",
                              ![s].given = @ \o SubSeq(relay[s].pending, 1, n),
                              ![s].pending = SubSeq(@, n + 1, Len(@))]
    /\ UNCHANGED <<at, wire>>

(* The end of the server's data ends the client's; half a frame or a reset *)
(* connection is an error, which also cancels the other pump.              *)
DownReads(s) ==
    /\ at[s] = "relay" /\ relay[s].down = "read"
    /\ \/ \E n \in 1 .. Len(wire[s]) :
             /\ relay' = [relay EXCEPT ![s].down = "emit",
                                       ![s].pending = @ \o SubSeq(wire[s], 1, n)]
             /\ wire' = [wire EXCEPT ![s] = SubSeq(@, n + 1, Len(@))]
             /\ UNCHANGED at
       \/ /\ wire[s] = <<>> /\ server[s].link = "eof" /\ relay[s].pending = <<>>
          /\ relay' = [relay EXCEPT ![s].down = "eof"]
          /\ UNCHANGED <<at, wire>>
       \/ /\ wire[s] = <<>>
          /\ server[s].link = "reset" \/ (server[s].link = "eof" /\ relay[s].pending # <<>>)
          /\ Goto(s, "failed")
          /\ UNCHANGED <<relay, wire>>

(* The other direction copies until the client has nothing more to say and *)
(* then half-closes; what it copies is not followed.                       *)
UpEnds(s) ==
    /\ at[s] = "relay" /\ relay[s].up = "copy"
    /\ relay' = [relay EXCEPT ![s].up = "eof"]
    /\ UNCHANGED <<at, wire>>

(* An error of the client's side cancels both directions.                  *)
ClientAborts(s) ==
    /\ at[s] = "relay"
    /\ Goto(s, "failed")
    /\ UNCHANGED <<relay, wire>>

(* Both pumps have ended.                                                  *)
Joined(s) ==
    /\ at[s] = "relay" /\ relay[s].down = "eof" /\ relay[s].up = "eof"
    /\ Goto(s, "done")
    /\ UNCHANGED <<relay, wire>>

Pump(s) ==
    /\ DownEmits(s) \/ DownReads(s) \/ Joined(s) \/ UpEnds(s) \/ ClientAborts(s)
    /\ UNCHANGED <<handler, digest, server>>

-----------------------------------------------------------------------------
(* External: a proxy that may answer a request in any way its protocol     *)
(* allows.  A digest proxy accepts an answer to a nonce that has not       *)
(* expired, once, and calls one to an expired nonce stale.                 *)
Challenges(scheme, isStale) ==
    {[name |-> "407", scheme |-> scheme, nonce |-> realm.issued + 1, stale |-> isStale,
      form |-> f.form, length |-> f.length] : f \in world.forms}

Proven(a) ==
    CASE world.auth = "digest" -> a.by = "Digest" /\ a.nonce \in realm.valid /\ a \notin realm.seen
      [] world.auth = "basic" -> a.by = "Basic"
      [] OTHER -> TRUE

Replies(q) ==
    CASE q.name = "methods" -> {[name |-> m] : m \in {"NoAuth", "UserPass", "other"}}
      [] q.name \in {"hello4", "password", "connect"} -> {[name |-> "granted"], [name |-> "rejected"]}
      [] q.name = "CONNECT" /\ Proven(q.auth) -> {[name |-> "200"], [name |-> "502"]}
      [] OTHER -> IF world.auth = "digest"
                  THEN Challenges("Digest", q.auth.by = "Digest" /\ q.auth.nonce \notin realm.valid)
                  ELSE Challenges("Basic", FALSE)

Linked(s) == at[s] \in {"write", "read", "change", "challenged", "scheme", "answer", "prefetch", "relay"}

ServerAnswers(s) ==
    LET q == server[s].asked[1] IN
    /\ Linked(s) /\ ~ Closed(s) /\ server[s].asked # <<>>
    /\ \E r \in Replies(q) :
          /\ wire' = [wire EXCEPT ![s] = @ \o Pieces(r)]
          /\ \E l \in IF r.name = "407" /\ r.form \in {"close", "none"} THEN {"open", "eof"} ELSE {"open"} :
                server' = [server EXCEPT
                    ![s].asked = Tail(@), ![s].link = l,
                    ![s].granted = r.name = "200" \/ (r.name = "granted" /\ q.name # "password")]
          /\ realm' = IF q.name # "CONNECT" THEN realm
                      ELSE IF r.name = "407" /\ r.scheme = "Digest"
                      THEN [realm EXCEPT !.issued = @ + 1, !.valid = @ \cup {r.nonce}]
                      ELSE [realm EXCEPT !.seen = @ \cup {q.auth}]

ServerSpeaks(s) ==
    /\ Linked(s) /\ ~ Closed(s) /\ server[s].granted /\ server[s].said < world.data
    /\ server' = [server EXCEPT ![s].said = @ + 1]
    /\ wire' = [wire EXCEPT ![s] = Append(@, Data(server[s].said + 1))]
    /\ UNCHANGED realm

(* The server's side ends; a reset also loses what was under way.          *)
ServerEnds(s) ==
    /\ world.ends /\ Linked(s) /\ ~ Closed(s)
    /\ \E l \in {"eof", "reset"} :
          /\ server' = [server EXCEPT ![s].link = l]
          /\ wire' = IF l = "reset" THEN [wire EXCEPT ![s] = <<>>] ELSE wire
    /\ UNCHANGED realm

NoncesExpire ==
    /\ realm.expired < world.expires
    /\ realm' = [realm EXCEPT !.valid = {}, !.expired = @ + 1]
    /\ UNCHANGED <<at, handler, digest, relay, wire, server>>

-----------------------------------------------------------------------------
TaskStep(s) ==
    /\ \/ NewSocks(s) \/ CreateTcpStream(s) \/ Write(s) \/ Read(s) \/ StateChange(s) \/ Challenged(s)
       \/ ChooseScheme(s) \/ SendTunnelRequest(s) \/ Prefetch(s) \/ Pump(s)
    /\ UNCHANGED <<world, realm>>

Timeout(s) == SetupTimesOut(s) /\ UNCHANGED <<world, realm>>

ShakeNext ==
    \/ \E s \in TcpFlows :
          \/ TaskStep(s) \/ Timeout(s)
          \/ (ServerAnswers(s) \/ ServerSpeaks(s) \/ ServerEnds(s)) /\ UNCHANGED <<world, at, handler, digest, relay>>
    \/ NoncesExpire /\ UNCHANGED world

(* Session tasks are scheduled, and the timeout of a setup passes.         *)
ShakeFairness == \A s \in TcpFlows : WF_shakeVars(TaskStep(s)) /\ WF_shakeVars(Timeout(s))

ShakeSpec == ShakeInit /\ [][ShakeNext]_shakeVars /\ ShakeFairness

-----------------------------------------------------------------------------
(* "greeting must be delivered exactly once": however the replies and the  *)
(* data are cut into reads, the client is given the server's data, once,   *)
(* in order, in whole frames when DNS is filtered, and all of it when the  *)
(* session ends without an error.                                          *)
Delivered ==
    \A s \in TcpFlows :
        LET given == relay[s].given IN
        /\ given = [i \in 1 .. Len(given) |-> Data(i)]
        /\ world.filter => Len(given) % 2 = 0
        /\ at[s] = "done" => Len(given) = server[s].said

(* Sessions that share the digest state never use a nonce's count twice    *)
(* and never mistake a stale nonce for a wrong password: with the right    *)
(* credentials no session ends with "Bad credentials".                     *)
NeverRefused == world.known => \A s \in TcpFlows : at[s] # "refused"

(* A setup ends, also with a proxy that says nothing: "a silent proxy      *)
(* still releases its session slot".                                       *)
SetupEnds == \A s \in TcpFlows : at[s] = "new" ~> at[s] \in {"relay", "done", "failed", "refused"}
=============================================================================
