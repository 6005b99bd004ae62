--------------------------- MODULE HandshakeProofs ---------------------------
(***************************************************************************)
(* The setup and the relay of TCP sessions for any number of sessions,     *)
(* challenges, pieces and ways to cut them into reads: the client is given *)
(* the server's data once and in order, and sessions that share the digest *)
(* state are never refused with the right credentials.                     *)
(***************************************************************************)
EXTENDS SetupProofs

(* Joining three sequences, in either order.                               *)
Associates(a, b, c) == (a \o b) \o c = a \o (b \o c)

(* Sequences over one set can be joined in either order.                   *)
LEMMA JoinAssociates ==
    ASSUME NEW S, NEW a \in Seq(S), NEW b \in Seq(S), NEW c \in Seq(S)
    PROVE  Associates(a, b, c)
BY JoinedTwice DEF Associates

(* The number after the last one is not among those before it.             *)
LEMMA NextNumber ==
    ASSUME NEW i \in Nat, NEW n, n = i + 1
    PROVE  n \in 1 .. n /\ \A m \in Nat : m <= i => m # n
OBVIOUS

(* A step of one session.                                                  *)
Moves(s, l, h, w, v, k) ==
    /\ at' = [at EXCEPT ![s] = l] /\ handler' = [handler EXCEPT ![s] = h]
    /\ wire' = [wire EXCEPT ![s] = w] /\ server' = [server EXCEPT ![s] = v]
    /\ relay' = [relay EXCEPT ![s] = k] /\ world' = world

(* A step after which a session has made no new answer and has no new      *)
(* challenge.                                                              *)
Follows(l, h, u, v, l2, h2, u2, v2) ==
    /\ Sent(h2, v2) \subseteq Sent(h, v)
    /\ Open(l2, h2, u2) => Open(l, h, u) /\ u2[1] = u[1]
    /\ l2 \in Live /\ h2.before => l \in Live /\ h.before
    /\ world.known /\ l2 = "answer" /\ h2.before => h2.scheme = "Digest"
    /\ Again(l2, h2) => Again(l, h) /\ h2.before = h.before

\* A function with one value replaced.
LEMMA Replaced ==
    ASSUME NEW A, NEW B, NEW f \in [A -> B], NEW s \in A, NEW x \in B
    PROVE  /\ [f EXCEPT ![s] = x] \in [A -> B] /\ [f EXCEPT ![s] = x][s] = x
           /\ \A t \in A \ {s} : [f EXCEPT ![s] = x][t] = f[t]
           /\ f = [f EXCEPT ![s] = f[s]]
BY ZenonT(30)

\* The types of one session.
LEMMA SessionTypes ==
    ASSUME StreamInv, NEW s \in TcpFlows
    PROVE  /\ world \in Worlds /\ at[s] \in Places /\ handler[s] \in HandlerSet /\ wire[s] \in Seq(Unit)
           /\ server[s] \in ServerSet /\ relay[s] \in RelaySet
           /\ SessionOK(world, at[s], handler[s], wire[s], server[s], relay[s])
           /\ Held(s) \in Seq(Unit)
<1>1. handler[s] \in HandlerSet /\ wire[s] \in Seq(Unit)
  BY ZenonT(30) DEF StreamInv, ShakeTypes
<1>2. handler[s].inbuf \in Seq(Unit)
  BY <1>1, ZenonT(30) DEF HandlerSet
<1>3. Held(s) \in Seq(Unit)
  BY <1>1, <1>2, Joined2, ZenonT(30) DEF Held
<1>4. QED
  BY <1>1, <1>3, ZenonT(30) DEF StreamInv, ShakeTypes

\* What a step does to the other sessions and to its own.
LEMMA MoveEffect ==
    ASSUME ShakeTypes, NEW s \in TcpFlows, NEW l \in Places, NEW h \in HandlerSet, NEW w \in Seq(Unit),
           NEW v \in ServerSet, NEW k \in RelaySet, Moves(s, l, h, w, v, k)
    PROVE  /\ at'[s] = l /\ handler'[s] = h /\ wire'[s] = w /\ server'[s] = v /\ relay'[s] = k
           /\ \A t \in TcpFlows \ {s} : /\ at'[t] = at[t] /\ handler'[t] = handler[t] /\ wire'[t] = wire[t]
                                        /\ server'[t] = server[t] /\ relay'[t] = relay[t]
           /\ at' \in [TcpFlows -> Places] /\ handler' \in [TcpFlows -> HandlerSet]
           /\ wire' \in [TcpFlows -> Seq(Unit)] /\ server' \in [TcpFlows -> ServerSet]
           /\ relay' \in [TcpFlows -> RelaySet] /\ world' = world /\ world' \in Worlds
<1>1. /\ at \in [TcpFlows -> Places] /\ handler \in [TcpFlows -> HandlerSet]
      /\ wire \in [TcpFlows -> Seq(Unit)] /\ server \in [TcpFlows -> ServerSet]
      /\ relay \in [TcpFlows -> RelaySet] /\ world \in Worlds
  BY ZenonT(30) DEF ShakeTypes
<1>2. at' = [at EXCEPT ![s] = l] /\ handler' = [handler EXCEPT ![s] = h] /\ wire' = [wire EXCEPT ![s] = w]
  BY ZenonT(30) DEF Moves
<1>3. server' = [server EXCEPT ![s] = v] /\ relay' = [relay EXCEPT ![s] = k] /\ world' = world
  BY ZenonT(30) DEF Moves
<1>4. at'[s] = l /\ at' \in [TcpFlows -> Places] /\ \A t \in TcpFlows \ {s} : at'[t] = at[t]
  BY <1>1, <1>2, ZenonT(30)
<1>5. handler'[s] = h /\ handler' \in [TcpFlows -> HandlerSet] /\ \A t \in TcpFlows \ {s} : handler'[t] = handler[t]
  BY <1>1, <1>2, ZenonT(30)
<1>6. wire'[s] = w /\ wire' \in [TcpFlows -> Seq(Unit)] /\ \A t \in TcpFlows \ {s} : wire'[t] = wire[t]
  BY <1>1, <1>2, ZenonT(30)
<1>7. server'[s] = v /\ server' \in [TcpFlows -> ServerSet] /\ \A t \in TcpFlows \ {s} : server'[t] = server[t]
  BY <1>1, <1>3, ZenonT(30)
<1>8. relay'[s] = k /\ relay' \in [TcpFlows -> RelaySet] /\ \A t \in TcpFlows \ {s} : relay'[t] = relay[t]
  BY <1>1, <1>3, ZenonT(30)
<1>9. QED
  BY <1>1, <1>3, <1>4, <1>5, <1>6, <1>7, <1>8, ZenonT(30)

\* A step that leaves its session as it should be keeps the streams.
LEMMA StreamMove ==
    ASSUME StreamInv, NEW s \in TcpFlows, NEW l \in Places, NEW h \in HandlerSet, NEW w \in Seq(Unit),
           NEW v \in ServerSet, NEW k \in RelaySet, Moves(s, l, h, w, v, k),
           digest' \in [nonce : Nat, count : Nat],
           realm' \in [issued : Nat, valid : SUBSET Nat, seen : SUBSET Answer, expired : Nat],
           SessionOK(world, l, h, w, v, k)
    PROVE  StreamInv'
<1>1. ShakeTypes
  BY ZenonT(30) DEF StreamInv
<1>2. /\ at'[s] = l /\ handler'[s] = h /\ wire'[s] = w /\ server'[s] = v /\ relay'[s] = k
      /\ \A t \in TcpFlows \ {s} : /\ at'[t] = at[t] /\ handler'[t] = handler[t] /\ wire'[t] = wire[t]
                                   /\ server'[t] = server[t] /\ relay'[t] = relay[t]
      /\ at' \in [TcpFlows -> Places] /\ handler' \in [TcpFlows -> HandlerSet]
      /\ wire' \in [TcpFlows -> Seq(Unit)] /\ server' \in [TcpFlows -> ServerSet]
      /\ relay' \in [TcpFlows -> RelaySet] /\ world' = world /\ world' \in Worlds
  BY <1>1, MoveEffect, ZenonT(30)
<1>3. ShakeTypes'
  BY <1>2, ZenonT(30) DEF ShakeTypes
<1>4. ASSUME NEW t \in TcpFlows PROVE SessionOK(world', at'[t], handler'[t], wire'[t], server'[t], relay'[t])
  <2>1. CASE t = s
    BY <1>2, <2>1, ZenonT(30)
  <2>2. CASE t # s
    <3>1. SessionOK(world, at[t], handler[t], wire[t], server[t], relay[t])
      BY ZenonT(30) DEF StreamInv
    <3>2. QED
      BY <1>2, <2>2, <3>1, ZenonT(30)
  <2>3. QED
    BY <2>1, <2>2, ZenonT(30)
<1>5. QED
  BY <1>3, <1>4, ZenonT(30) DEF StreamInv

\* A step of one session changes what it holds only.
LEMMA HeldMove ==
    ASSUME ShakeTypes, NEW s \in TcpFlows, NEW l \in Places, NEW h \in HandlerSet, NEW w \in Seq(Unit),
           NEW v \in ServerSet, NEW k \in RelaySet, Moves(s, l, h, w, v, k)
    PROVE  /\ Held(s)' = h.inbuf \o w /\ SentBy(s)' = Sent(h, v)
           /\ \A t \in TcpFlows \ {s} : Held(t)' = Held(t) /\ SentBy(t)' = SentBy(t)
           /\ \A n : Posed(s, n)' <=> Open(l, h, h.inbuf \o w) /\ (h.inbuf \o w)[1].of.nonce = n
           /\ \A t \in TcpFlows \ {s} : \A n : Posed(t, n)' <=> Posed(t, n)
<1>1. /\ at'[s] = l /\ handler'[s] = h /\ wire'[s] = w /\ server'[s] = v
      /\ \A t \in TcpFlows \ {s} : at'[t] = at[t] /\ handler'[t] = handler[t] /\ wire'[t] = wire[t] /\ server'[t] = server[t]
  BY MoveEffect
<1>2. Held(s)' = h.inbuf \o w /\ SentBy(s)' = Sent(h, v)
  BY <1>1, ZenonT(30) DEF Held, SentBy
<1>3. ASSUME NEW t \in TcpFlows \ {s} PROVE Held(t)' = Held(t) /\ SentBy(t)' = SentBy(t)
  BY <1>1, ZenonT(30) DEF Held, SentBy
<1>4. ASSUME NEW n PROVE Posed(s, n)' <=> Open(l, h, h.inbuf \o w) /\ (h.inbuf \o w)[1].of.nonce = n
  BY <1>1, <1>2, ZenonT(30) DEF Posed
<1>5. ASSUME NEW t \in TcpFlows \ {s}, NEW n PROVE Posed(t, n)' <=> Posed(t, n)
  BY <1>1, <1>3, ZenonT(30) DEF Posed
<1>6. QED
  BY <1>2, <1>3, <1>4, <1>5, ZenonT(30)

\* A session goes on as it was after a step that adds nothing.
LEMMA FollowsPersists ==
    ASSUME NEW d, NEW l, NEW h, NEW u, NEW v, NEW l2, NEW h2, NEW u2, NEW v2, world.known,
           Persists(d, l, h, u, v), Follows(l, h, u, v, l2, h2, u2, v2)
    PROVE  Persists(d, l2, h2, u2, v2)
BY ZenonT(30) DEF Persists, Follows

\* A step that makes no answer and no challenge keeps the nonces.
LEMMA DigestMove ==
    ASSUME ShakeTypes, DigestInv, NEW s \in TcpFlows, NEW l \in Places, NEW h \in HandlerSet, NEW w \in Seq(Unit),
           NEW v \in ServerSet, NEW k \in RelaySet, Moves(s, l, h, w, v, k), digest' = digest, realm' = realm,
           Follows(at[s], handler[s], Held(s), server[s], l, h, h.inbuf \o w, v),
           world.known => l # "refused"
    PROVE  DigestInv'
<1>1. /\ Held(s)' = h.inbuf \o w /\ SentBy(s)' = Sent(h, v)
      /\ \A t \in TcpFlows \ {s} : Held(t)' = Held(t) /\ SentBy(t)' = SentBy(t)
      /\ \A n : Posed(s, n)' <=> Open(l, h, h.inbuf \o w) /\ (h.inbuf \o w)[1].of.nonce = n
      /\ \A t \in TcpFlows \ {s} : \A n : Posed(t, n)' <=> Posed(t, n)
  BY HeldMove, ZenonT(30)
<1>2. \A t \in TcpFlows : SentBy(t)' \subseteq SentBy(t)
  BY <1>1, ZenonT(30) DEF Follows, SentBy
<1>3. \A t \in TcpFlows : \A n : Posed(t, n)' => Posed(t, n)
  <2>1. \A n : Posed(s, n)' => Posed(s, n)
    BY <1>1, ZenonT(30) DEF Follows, Posed
  <2>2. QED
    BY <1>1, <2>1, ZenonT(30)
<1>4. ASSUME NEW t \in TcpFlows PROVE AnswersOnce(t)'
  <2>1. AnswersOnce(t)
    BY ZenonT(30) DEF DigestInv
  <2>2. ASSUME NEW a \in SentBy(t)'
        PROVE  /\ Made(digest', realm', a)
               /\ a.by = "Digest" => a \notin realm'.seen /\ \A t2 \in TcpFlows \ {t} : a \notin SentBy(t2)'
    <3>1. a \in SentBy(t)
      BY <1>2, <2>2, ZenonT(30)
    <3>2. /\ Made(digest, realm, a)
          /\ a.by = "Digest" => a \notin realm.seen /\ \A t2 \in TcpFlows \ {t} : a \notin SentBy(t2)
      BY <2>1, <3>1, ZenonT(30) DEF AnswersOnce
    <3>3. QED
      BY <1>2, <3>2, ZenonT(30)
  <2>3. QED
    BY <2>2, ZenonT(30) DEF AnswersOnce
<1>5. ASSUME NEW t \in TcpFlows PROVE ChallengeOnce(t)'
  <2>1. ChallengeOnce(t)
    BY ZenonT(30) DEF DigestInv
  <2>2. ASSUME NEW n \in Nat, Posed(t, n)'
        PROVE  /\ n \in 1 .. realm'.issued /\ n # digest'.nonce
               /\ \A a \in realm'.seen : a.nonce # n
               /\ \A t2 \in TcpFlows : \A a \in SentBy(t2)' : a.nonce # n
               /\ \A t2 \in TcpFlows \ {t} : ~ Posed(t2, n)'
    <3>1. Posed(t, n)
      BY <1>3, <2>2, ZenonT(30)
    <3>2. /\ n \in 1 .. realm.issued /\ n # digest.nonce
          /\ \A a \in realm.seen : a.nonce # n
          /\ \A t2 \in TcpFlows : \A a \in SentBy(t2) : a.nonce # n
          /\ \A t2 \in TcpFlows \ {t} : ~ Posed(t2, n)
      BY <2>1, <3>1, ZenonT(30) DEF ChallengeOnce
    <3>3. QED
      BY <1>2, <1>3, <3>2, ZenonT(30)
  <2>3. QED
    BY <2>2, ZenonT(30) DEF ChallengeOnce
<1>6. ASSUME world'.known, NEW t \in TcpFlows
      PROVE  at'[t] # "refused" /\ Persists(digest', at'[t], handler'[t], Held(t)', server'[t])
  <2>1. /\ at'[s] = l /\ handler'[s] = h /\ server'[s] = v /\ world' = world
        /\ \A t2 \in TcpFlows \ {s} : at'[t2] = at[t2] /\ handler'[t2] = handler[t2] /\ server'[t2] = server[t2]
    BY MoveEffect
  <2>2. at[t] # "refused" /\ Persists(digest, at[t], handler[t], Held(t), server[t])
    BY <1>6, <2>1, ZenonT(30) DEF DigestInv
  <2>3. CASE t = s
    <3>0. Persists(digest, at[s], handler[s], Held(s), server[s])
      BY <2>2, <2>3, ZenonT(30)
    <3>1. Persists(digest, l, h, h.inbuf \o w, v)
      BY <1>6, <2>1, <3>0, FollowsPersists
    <3>2. QED
      BY <1>1, <1>6, <2>1, <2>3, <3>1, ZenonT(30)
  <2>4. CASE t # s
    BY <1>1, <2>1, <2>2, <2>4, ZenonT(30)
  <2>5. QED
    BY <2>3, <2>4, ZenonT(30)
<1>7. digest'.nonce <= realm'.issued /\ \A a \in realm'.seen : Made(digest', realm', a)
  BY ZenonT(30) DEF DigestInv
<1>8. QED
  BY <1>4, <1>5, <1>6, <1>7, ZenonT(30) DEF DigestInv

\* Both.
LEMMA Move ==
    ASSUME ShakeInv, NEW s \in TcpFlows, NEW l \in Places, NEW h \in HandlerSet, NEW w \in Seq(Unit),
           NEW v \in ServerSet, NEW k \in RelaySet, Moves(s, l, h, w, v, k), digest' = digest, realm' = realm,
           SessionOK(world, l, h, w, v, k),
           Follows(at[s], handler[s], Held(s), server[s], l, h, h.inbuf \o w, v),
           world.known => l # "refused"
    PROVE  ShakeInv'
<1>1. ShakeTypes /\ StreamInv /\ DigestInv
  BY ZenonT(30) DEF ShakeInv, StreamInv
<1>2. /\ digest' \in [nonce : Nat, count : Nat]
      /\ realm' \in [issued : Nat, valid : SUBSET Nat, seen : SUBSET Answer, expired : Nat]
  BY <1>1, ZenonT(30) DEF ShakeTypes
<1>3. StreamInv'
  BY <1>1, <1>2, StreamMove, ZenonT(30)
<1>4. DigestInv'
  BY <1>1, DigestMove, ZenonT(30)
<1>5. QED
  BY <1>3, <1>4, ZenonT(30) DEF ShakeInv

\* What a step leaves alone.
LEMMA Same ==
    ASSUME ShakeTypes, NEW s \in TcpFlows
    PROVE  /\ at = [at EXCEPT ![s] = at[s]] /\ handler = [handler EXCEPT ![s] = handler[s]]
           /\ wire = [wire EXCEPT ![s] = wire[s]] /\ server = [server EXCEPT ![s] = server[s]]
           /\ relay = [relay EXCEPT ![s] = relay[s]]
BY ZenonT(30) DEF ShakeTypes

\* A new handler has the types, and no answer.
LEMMA NewHandlerFacts ==
    ASSUME world \in Worlds
    PROVE  /\ NewHandler \in HandlerSet /\ AnswersOf(NewHandler.out) = {}
           /\ NewHandler.inbuf = <<>> /\ NewHandler.client = <<>> /\ NewHandler.before = FALSE
           /\ Starts(world.proxy, NewHandler)
<1>1. world.proxy \in {"socks4", "socks5", "http", "none"}
  BY HandshakeAssumption, ZenonT(30)
<1> DEFINE o == NewHandler.out
           z == NewHandler.state
           n == IF world.proxy = "socks4" THEN "hello4" ELSE "methods"
<1>2. /\ NewHandler.inbuf = <<>> /\ NewHandler.client = <<>> /\ NewHandler.before = FALSE
      /\ NewHandler = [state |-> z, inbuf |-> <<>>, client |-> <<>>, skip |-> 0, before |-> FALSE,
                       scheme |-> "Basic", out |-> o]
  BY ZenonT(30) DEF NewHandler
<1>3. /\ world.proxy = "http" => z = "ExpectResponseHeaders"
      /\ world.proxy = "none" => z = "Established"
      /\ world.proxy \in {"socks4", "socks5"} => z = "ServerHello"
  BY ZenonT(30) DEF NewHandler
<1>4. IF world.proxy \in {"http", "none"} THEN o = <<>> ELSE o = <<[name |-> n]>>
  BY <1>1, ZenonT(30) DEF NewHandler
<1>5. [name |-> n] \in Query
  BY ZenonT(30) DEF Query
<1> HIDE DEF o, z
<1>6. o \in Seq(Query) /\ AnswersOf(o) = {}
  <2>1. CASE o = <<>>
    BY <2>1 DEF AnswersOf
  <2>2. CASE o = <<[name |-> n]>>
    <3>1. o \in Seq(Query) /\ Len(o) = 1 /\ o[1].name = n /\ n # "CONNECT"
      BY <1>5, <2>2
    <3>2. QED
      BY <3>1 DEF AnswersOf
  <2>3. QED
    BY <1>4, <2>1, <2>2, ZenonT(30)
<1>7. z \in {"ServerHello", "ExpectResponseHeaders", "Established"}
  BY <1>1, <1>3, ZenonT(30)
<1>8. [state |-> z, inbuf |-> <<>>, client |-> <<>>, skip |-> 0, before |-> FALSE, scheme |-> "Basic", out |-> o]
         \in HandlerSet
  BY <1>6, <1>7, EmptySeq, ZenonT(30) DEF HandlerSet
<1>9. /\ world.proxy \in {"http", "none"} => o = <<>>
      /\ world.proxy \in {"socks4", "socks5"} => Len(o) = 1 /\ o[1].name = n
  BY <1>4
<1>10. world.proxy \in {"socks4", "socks5"} => n = Request(world.proxy, z)
  BY <1>3, ZenonT(30) DEF Request
<1>11. Starts(world.proxy, NewHandler)
  BY <1>3, <1>9, <1>10, ZenonT(30) DEF Starts, o, z
<1>12. QED
  BY <1>2, <1>6, <1>8, <1>11, ZenonT(30) DEF o

\* The end of a session in its setup.
LEMMA EndStep ==
    ASSUME ShakeInv, NEW s \in TcpFlows, NEW l \in {"failed", "refused"}, world.known => l # "refused",
           at' = [at EXCEPT ![s] = l],
           NEW h, h \in {NewHandler, handler[s]}, handler' = [handler EXCEPT ![s] = h],
           UNCHANGED <<world, digest, relay, wire, server, realm>>
    PROVE  ShakeInv'
<1>1. StreamInv /\ ShakeTypes
  BY ZenonT(30) DEF ShakeInv, StreamInv
<1>2. /\ world \in Worlds /\ handler[s] \in HandlerSet /\ wire[s] \in Seq(Unit)
      /\ server[s] \in ServerSet /\ relay[s] \in RelaySet
      /\ SessionOK(world, at[s], handler[s], wire[s], server[s], relay[s])
  BY <1>1, SessionTypes, ZenonT(30)
<1>3. Moves(s, l, h, wire[s], server[s], relay[s])
  BY <1>1, Same, ZenonT(30) DEF Moves
<1>4. h \in HandlerSet /\ AnswersOf(h.out) \subseteq AnswersOf(handler[s].out)
  BY <1>2, NewHandlerFacts, ZenonT(30)
<1>5. SessionOK(world, l, h, wire[s], server[s], relay[s])
  BY <1>2, EndsOK, ZenonT(30)
<1>6. Follows(at[s], handler[s], Held(s), server[s], l, h, h.inbuf \o wire[s], server[s])
  BY <1>4, ZenonT(30) DEF Follows, Sent, Open, Live, Again
<1>7. l \in Places
  BY ZenonT(30) DEF Places
<1>8. QED
  BY <1>2, <1>3, <1>4, <1>5, <1>6, <1>7, Move, ZenonT(30)

\* NewSocks.
LEMMA NewSocksStep ==
    ASSUME ShakeInv, NEW s \in TcpFlows, NewSocks(s), UNCHANGED <<world, realm>>
    PROVE  ShakeInv'
<1>1. StreamInv /\ ShakeTypes
  BY ZenonT(30) DEF ShakeInv, StreamInv
<1>2. /\ world \in Worlds /\ handler[s] \in HandlerSet /\ wire[s] \in Seq(Unit)
      /\ server[s] \in ServerSet /\ relay[s] \in RelaySet
      /\ SessionOK(world, at[s], handler[s], wire[s], server[s], relay[s])
  BY <1>1, SessionTypes, ZenonT(30)
<1>3. CASE at' = [at EXCEPT ![s] = "failed"]
  BY <1>1, <1>3, Same, EndStep, ZenonT(30) DEF NewSocks
<1>4. CASE at' = [at EXCEPT ![s] = "connect"]
  <2>1. Moves(s, "connect", handler[s], wire[s], server[s], relay[s])
    BY <1>1, <1>4, Same, ZenonT(30) DEF Moves, NewSocks
  <2>2. at[s] = "new" /\ world.proxy # "http"
    BY ZenonT(30) DEF NewSocks
  <2>3. SessionOK(world, "connect", handler[s], wire[s], server[s], relay[s])
    BY <1>2, <2>2, NewSocksOK, ZenonT(30)
  <2>4. ~ handler[s].before /\ handler[s].inbuf \o wire[s] = <<>>
    BY <1>2, <2>2, JoinedEmpty, ZenonT(30) DEF SessionOK, Untouched
  <2>7. handler[s].state # "ExpectResponse"
    <3>1. world.proxy \in {"socks4", "socks5", "none"}
      BY <1>2, <2>2, HandshakeAssumption, ZenonT(30)
    <3>2. Starts(world.proxy, handler[s])
      BY <1>2, <2>2, ZenonT(30) DEF SessionOK
    <3>3. QED
      BY <3>1, <3>2, ZenonT(30) DEF Starts
  <2>5. Follows(at[s], handler[s], Held(s), server[s], "connect", handler[s], handler[s].inbuf \o wire[s], server[s])
    BY <2>4, <2>7, ZenonT(30) DEF Follows, Open, Again
  <2>6. QED
    BY <1>2, <2>1, <2>3, <2>5, Move, ZenonT(30) DEF NewSocks, Places, Live
<1>5. QED
  BY <1>3, <1>4, ZenonT(30) DEF NewSocks, Goto

\* The connection is made, or is not.
LEMMA CreateTcpStreamStep ==
    ASSUME ShakeInv, NEW s \in TcpFlows, CreateTcpStream(s), UNCHANGED <<world, realm>>
    PROVE  ShakeInv'
<1>1. StreamInv /\ ShakeTypes
  BY ZenonT(30) DEF ShakeInv, StreamInv
<1>2. /\ world \in Worlds /\ handler[s] \in HandlerSet /\ wire[s] \in Seq(Unit)
      /\ server[s] \in ServerSet /\ relay[s] \in RelaySet
      /\ SessionOK(world, at[s], handler[s], wire[s], server[s], relay[s])
  BY <1>1, SessionTypes, ZenonT(30)
<1> DEFINE l == IF handler[s].state = "Established" THEN "prefetch" ELSE "write"
<1>3. CASE at' = [at EXCEPT ![s] = "failed"]
  BY <1>1, <1>3, Same, EndStep, ZenonT(30) DEF CreateTcpStream
<1>4. CASE at' = [at EXCEPT ![s] = l]
  <2>1. Moves(s, l, handler[s], wire[s], server[s], relay[s])
    BY <1>1, <1>4, Same, ZenonT(30) DEF Moves, CreateTcpStream
  <2>2. at[s] = "connect" /\ l \in {"prefetch", "write"}
    BY ZenonT(30) DEF CreateTcpStream
  <2>3. SessionOK(world, l, handler[s], wire[s], server[s], relay[s])
    BY <1>2, <2>2, ConnectOK, ZenonT(30)
  <2> HIDE DEF l
  <2>4. Follows(at[s], handler[s], Held(s), server[s], l, handler[s], handler[s].inbuf \o wire[s], server[s])
    BY <2>2, ZenonT(30) DEF Follows, Open, Live, Held, Again
  <2>5. QED
    BY <1>2, <2>1, <2>2, <2>3, <2>4, Move, ZenonT(30) DEF CreateTcpStream, Places, Live
<1>5. QED
  BY <1>3, <1>4, ZenonT(30) DEF CreateTcpStream, Goto

\* The answers in two sequences of requests, and in one with a new request.
LEMMA AnswersJoined ==
    ASSUME NEW a \in Seq(Query), NEW b \in Seq(Query)
    PROVE  AnswersOf(a \o b) \subseteq AnswersOf(a) \cup AnswersOf(b) /\ AnswersOf(<<>>) = {}
<1>1. Len(a) \in Nat /\ Len(b) \in Nat /\ Len(a \o b) = Len(a) + Len(b)
  BY Joined2
<1>2. ASSUME NEW i \in 1 .. Len(a \o b), (a \o b)[i].name = "CONNECT"
      PROVE  (a \o b)[i].auth \in AnswersOf(a) \cup AnswersOf(b)
  <2>1. CASE i \in 1 .. Len(a)
    <3>1. (a \o b)[i] = a[i]
      BY <2>1, Joined2, ZenonT(30)
    <3>2. QED
      BY <1>2, <2>1, <3>1, ZenonT(30) DEF AnswersOf
  <2>2. CASE i \notin 1 .. Len(a)
    <3>1. i - Len(a) \in 1 .. Len(b) /\ i = Len(a) + (i - Len(a))
      BY <1>1, <2>2
    <3>2. (a \o b)[i] = b[i - Len(a)]
      BY <3>1, Joined2
    <3>3. QED
      BY <1>2, <3>1, <3>2, ZenonT(30) DEF AnswersOf
  <2>3. QED
    BY <2>1, <2>2, ZenonT(30)
<1>3. AnswersOf(<<>>) = {}
  BY DEF AnswersOf
<1>4. QED
  BY <1>2, <1>3, ZenonT(30) DEF AnswersOf

\* Write.
LEMMA WriteStep ==
    ASSUME ShakeInv, NEW s \in TcpFlows, Write(s), UNCHANGED <<world, realm>>
    PROVE  ShakeInv'
<1> DEFINE h == handler[s]
           v == server[s]
           w == wire[s]
           k == relay[s]
           g == [h EXCEPT !.out = <<>>]
           v2 == [v EXCEPT !.asked = v.asked \o h.out]
           l == IF h.state = "Established" THEN "prefetch" ELSE "read"
<1>1. StreamInv /\ ShakeTypes
  BY ZenonT(30) DEF ShakeInv, StreamInv
<1>2. /\ world \in Worlds /\ h \in HandlerSet /\ w \in Seq(Unit) /\ v \in ServerSet /\ k \in RelaySet
      /\ SessionOK(world, at[s], h, w, v, k)
  BY <1>1, SessionTypes, ZenonT(30)
<1>3. CASE Fail(s) /\ UNCHANGED server
  BY <1>3, EndStep, ZenonT(30) DEF Write, Fail, Goto, Become
<1>4. CASE /\ at' = [at EXCEPT ![s] = l] /\ handler' = [handler EXCEPT ![s] = g] /\ digest' = digest
           /\ server' = [server EXCEPT ![s].asked = v.asked \o h.out]
  <2>1. server' = [server EXCEPT ![s] = v2]
    BY <1>1, <1>4, ZenonT(30) DEF ShakeTypes, ServerSet
  <2>2. Moves(s, l, g, w, v2, k)
    BY <1>1, <1>4, <2>1, Same, ZenonT(30) DEF Moves, Write
  <2>3. /\ g \in HandlerSet /\ g.state = h.state /\ g.inbuf = h.inbuf /\ g.client = h.client /\ g.skip = h.skip
        /\ g.out = <<>> /\ g.before = h.before
    BY <1>2, EmptySeq, ZenonT(30) DEF HandlerSet
  <2>4. v.asked \in Seq(Query) /\ h.out \in Seq(Query)
    BY <1>2, ZenonT(30) DEF HandlerSet, ServerSet
  <2>5. v.asked \o h.out \in Seq(Query)
    BY <2>4, Joined2, ZenonT(30)
  <2>6. /\ v2 \in ServerSet /\ v2.asked = v.asked \o h.out /\ v2.link = v.link /\ v2.granted = v.granted
        /\ v2.said = v.said
    BY <1>2, <2>5, ZenonT(30) DEF ServerSet
  <2>7. at[s] = "write" /\ l \in {"prefetch", "read"}
    BY ZenonT(30) DEF Write
  <2> HIDE DEF g, v2
  <2>8. SessionOK(world, l, g, w, v2, k)
    BY <1>2, <2>3, <2>6, <2>7, WriteOK, ZenonT(30)
  <2>9. Sent(g, v2) \subseteq Sent(h, v)
    <3>1. AnswersOf(v.asked \o h.out) \subseteq AnswersOf(v.asked) \cup AnswersOf(h.out) /\ AnswersOf(<<>>) = {}
      BY <2>4, AnswersJoined, ZenonT(30)
    <3>2. QED
      BY <2>3, <2>6, <3>1, ZenonT(30) DEF Sent
  <2> HIDE DEF l
  <2>10. Follows(at[s], h, Held(s), v, l, g, g.inbuf \o w, v2)
    BY <2>3, <2>7, <2>9, ZenonT(30) DEF Follows, Open, Live, Held, Again
  <2>11. QED
    BY <1>2, <1>4, <2>2, <2>3, <2>6, <2>7, <2>8, <2>10, Move, ZenonT(30) DEF Places, Live
<1>5. QED
  BY <1>3, <1>4, ZenonT(30) DEF Write, Goto, Become

\* Read.
LEMMA ReadStep ==
    ASSUME ShakeInv, NEW s \in TcpFlows, Read(s), UNCHANGED <<world, realm>>
    PROVE  ShakeInv'
<1> DEFINE h == handler[s]
           v == server[s]
           w == wire[s]
           k == relay[s]
<1>1. StreamInv /\ ShakeTypes
  BY ZenonT(30) DEF ShakeInv, StreamInv
<1>2. /\ world \in Worlds /\ h \in HandlerSet /\ w \in Seq(Unit) /\ v \in ServerSet /\ k \in RelaySet
      /\ SessionOK(world, at[s], h, w, v, k)
  BY <1>1, SessionTypes, ZenonT(30)
<1>3. CASE Fail(s) /\ UNCHANGED wire
  BY <1>3, EndStep, ZenonT(30) DEF Read, Fail, Goto, Become
<1>4. ASSUME NEW n \in 1 .. Len(w), at' = [at EXCEPT ![s] = "change"], digest' = digest,
             handler' = [handler EXCEPT ![s] = [h EXCEPT !.inbuf = h.inbuf \o SubSeq(w, 1, n)]],
             wire' = [wire EXCEPT ![s] = SubSeq(w, n + 1, Len(w))]
      PROVE  ShakeInv'
  <2> DEFINE g == [h EXCEPT !.inbuf = h.inbuf \o SubSeq(w, 1, n)]
             x == SubSeq(w, n + 1, Len(w))
  <2>1. Moves(s, "change", g, x, v, k)
    BY <1>1, <1>4, Same, ZenonT(30) DEF Moves, Read
  <2>2. h.inbuf \in Seq(Unit) /\ n \in Nat /\ n <= Len(w) /\ w \in Seq(Unit)
    BY <1>2 DEF HandlerSet
  <2>3. SubSeq(w, 1, n) \in Seq(Unit) /\ x \in Seq(Unit)
    BY <2>2, FirstPart, LaterPart, ZenonT(30)
  <2>4. h.inbuf \o SubSeq(w, 1, n) \in Seq(Unit)
    BY <2>2, <2>3, Joined2, ZenonT(30)
  <2>5. /\ g \in HandlerSet /\ g.state = h.state /\ g.inbuf = h.inbuf \o SubSeq(w, 1, n) /\ g.client = h.client
        /\ g.skip = h.skip /\ g.out = h.out /\ g.before = h.before
    BY <1>2, <2>4, ZenonT(30) DEF HandlerSet
  <2>6. (h.inbuf \o SubSeq(w, 1, n)) \o x = h.inbuf \o w
    BY <2>2, ReadKeeps, ZenonT(30)
  <2>7. at[s] = "read"
    BY ZenonT(30) DEF Read
  <2> HIDE DEF g, x
  <2>8. g.inbuf \o x = h.inbuf \o w
    BY <2>5, <2>6, ZenonT(30)
  <2>9. SessionOK(world, "change", g, x, v, k)
    BY <1>2, <2>3, <2>5, <2>7, <2>8, ReadOK, ZenonT(30)
  <2>10. Follows(at[s], h, Held(s), v, "change", g, g.inbuf \o x, v)
    BY <2>5, <2>7, <2>8, ZenonT(30) DEF Follows, Open, Live, Held, Sent, Again
  <2>11. QED
    BY <1>2, <1>4, <2>1, <2>3, <2>5, <2>9, <2>10, Move, ZenonT(30) DEF Places, Live
<1>5. QED
  BY <1>3, <1>4, ZenonT(30) DEF Read, Goto, Become

\* An arm of state_change that adds no answer.
LEMMA ArmStep ==
    ASSUME ShakeInv, NEW s \in TcpFlows, at[s] = "change", NEW l \in {"write", "change", "challenged", "scheme"},
           NEW g \in HandlerSet, at' = [at EXCEPT ![s] = l], handler' = [handler EXCEPT ![s] = g],
           UNCHANGED <<world, digest, relay, wire, server, realm>>,
           SessionOK(world, l, g, wire[s], server[s], relay[s]),
           AnswersOf(g.out) \subseteq AnswersOf(handler[s].out), g.before = handler[s].before,
           Open(l, g, g.inbuf \o wire[s]) => Open(at[s], handler[s], Held(s)) /\ (g.inbuf \o wire[s])[1] = Held(s)[1],
           l = "scheme" \/ g.state = "ExpectResponse" => handler[s].state = "ExpectResponse"
    PROVE  ShakeInv'
<1>1. StreamInv /\ ShakeTypes
  BY ZenonT(30) DEF ShakeInv, StreamInv
<1>2. wire[s] \in Seq(Unit) /\ server[s] \in ServerSet /\ relay[s] \in RelaySet
  BY <1>1, SessionTypes, ZenonT(30)
<1>3. Moves(s, l, g, wire[s], server[s], relay[s])
  BY <1>1, Same, ZenonT(30) DEF Moves
<1>4. Follows(at[s], handler[s], Held(s), server[s], l, g, g.inbuf \o wire[s], server[s])
  BY ZenonT(30) DEF Follows, Sent, Live, Again
<1>5. QED
  BY <1>2, <1>3, <1>4, Move, ZenonT(30) DEF Places, Live

\* What follows a reply that has been read.
LEMMA RestTypes ==
    ASSUME NEW h \in HandlerSet, Len(h.inbuf) >= 2
    PROVE  Rest(h.inbuf) \in Seq(Unit)
<1>1. h.inbuf \in Seq(Unit)
  BY ZenonT(30) DEF HandlerSet
<1>2. <<>> \in Seq(Unit)
  BY EmptySeq, ZenonT(30)
<1>3. QED
  BY <1>1, <1>2, RestHeld, ZenonT(30)

\* A reply that is not complete yet.
LEMMA IncompleteStep ==
    ASSUME ShakeInv, NEW s \in TcpFlows, at[s] = "change", handler[s].state \in Waiting,
           at' = [at EXCEPT ![s] = "write"], UNCHANGED <<world, handler, digest, relay, wire, server, realm>>
    PROVE  ShakeInv'
<1>1. StreamInv /\ ShakeTypes
  BY ZenonT(30) DEF ShakeInv, StreamInv
<1>2. /\ world \in Worlds /\ handler[s] \in HandlerSet /\ wire[s] \in Seq(Unit)
      /\ server[s] \in ServerSet /\ relay[s] \in RelaySet
      /\ SessionOK(world, at[s], handler[s], wire[s], server[s], relay[s])
  BY <1>1, SessionTypes, ZenonT(30)
<1>3. SessionOK(world, "write", handler[s], wire[s], server[s], relay[s])
  BY <1>2, IncompleteOK, ZenonT(30)
<1>4. handler' = [handler EXCEPT ![s] = handler[s]]
  BY <1>1, Same, ZenonT(30)
<1>5. Open("write", handler[s], handler[s].inbuf \o wire[s]) => Open(at[s], handler[s], Held(s))
  BY ZenonT(30) DEF Open, Live, Held
<1>6. Held(s) = handler[s].inbuf \o wire[s] /\ handler[s].state # "ExpectResponse"
  BY ZenonT(30) DEF Held, Waiting
<1>7. QED
  BY <1>2, <1>3, <1>4, <1>5, <1>6, ArmStep, ZenonT(30)

\* A reply that makes the connection.
LEMMA EstablishedStep ==
    ASSUME ShakeInv, NEW s \in TcpFlows, at[s] = "change", NEW h, h = handler[s],
           h.state \in Waiting, h.state # "ReceiveAuthResponse", Complete(h.inbuf),
           h.state \in {"ExpectResponseHeaders", "Reset"} => h.inbuf[1].part = "first",
           h.inbuf[1].of.name \in {"200", "granted"}, at' = [at EXCEPT ![s] = "change"],
           handler' = [handler EXCEPT ![s] = [h EXCEPT !.inbuf = Rest(h.inbuf), !.state = "Established"]],
           UNCHANGED <<world, digest, relay, wire, server, realm>>
    PROVE  ShakeInv'
<1> DEFINE g == [h EXCEPT !.inbuf = Rest(h.inbuf), !.state = "Established"]
<1>1. StreamInv /\ ShakeTypes
  BY ZenonT(30) DEF ShakeInv, StreamInv
<1>2. /\ world \in Worlds /\ h \in HandlerSet /\ wire[s] \in Seq(Unit)
      /\ server[s] \in ServerSet /\ relay[s] \in RelaySet
      /\ SessionOK(world, "change", h, wire[s], server[s], relay[s])
  BY <1>1, SessionTypes, ZenonT(30)
<1>3. Len(h.inbuf) >= 2
  BY <1>2, CompleteReply, ZenonT(30)
<1>8. Rest(h.inbuf) \in Seq(Unit)
  BY <1>2, <1>3, RestTypes, ZenonT(30)
<1>4. /\ g \in HandlerSet /\ g.inbuf = Rest(h.inbuf) /\ g.state = "Established" /\ g.client = h.client
      /\ g.out = h.out /\ g.before = h.before
  BY <1>2, <1>8, ZenonT(30) DEF HandlerSet
<1> HIDE DEF g
<1>5. SessionOK(world, "change", g, wire[s], server[s], relay[s])
  BY <1>2, <1>4, EstablishedOK, ZenonT(30)
<1>6. ~ Open("change", g, g.inbuf \o wire[s])
  BY <1>4, ZenonT(30) DEF Open
<1>7. QED
  BY <1>4, <1>5, <1>6, ArmStep, ZenonT(30) DEF g

\* A reply of SOCKS5 after which the handler goes on.
LEMMA AcceptedStep ==
    ASSUME ShakeInv, NEW s \in TcpFlows, at[s] = "change", NEW h, h = handler[s], Complete(h.inbuf),
           \/ h.state = "ServerHello" /\ world.proxy = "socks5"
           \/ h.state = "ReceiveAuthResponse",
           NEW z \in {"SendAuthData", "SendRequest"}, at' = [at EXCEPT ![s] = "change"],
           handler' = [handler EXCEPT ![s] = [h EXCEPT !.inbuf = Rest(h.inbuf), !.state = z]],
           UNCHANGED <<world, digest, relay, wire, server, realm>>
    PROVE  ShakeInv'
<1> DEFINE g == [h EXCEPT !.inbuf = Rest(h.inbuf), !.state = z]
<1>1. StreamInv /\ ShakeTypes
  BY ZenonT(30) DEF ShakeInv, StreamInv
<1>2. /\ world \in Worlds /\ h \in HandlerSet /\ wire[s] \in Seq(Unit)
      /\ server[s] \in ServerSet /\ relay[s] \in RelaySet
      /\ SessionOK(world, "change", h, wire[s], server[s], relay[s])
  BY <1>1, SessionTypes, ZenonT(30)
<1>3. h.state \in Waiting /\ h.state \notin {"ExpectResponseHeaders", "Reset"}
  BY ZenonT(30) DEF Waiting
<1>4. Len(h.inbuf) >= 2
  BY <1>2, <1>3, CompleteReply, ZenonT(30)
<1>11. Rest(h.inbuf) \in Seq(Unit)
  BY <1>2, <1>4, RestTypes, ZenonT(30)
<1>5. /\ g \in HandlerSet /\ g.inbuf = Rest(h.inbuf) /\ g.state = z /\ g.client = h.client
      /\ g.out = h.out /\ g.before = h.before
  BY <1>2, <1>11, ZenonT(30) DEF HandlerSet
<1> HIDE DEF g
<1>6. SessionOK(world, "change", g, wire[s], server[s], relay[s])
  BY <1>2, <1>5, AcceptedOK, ZenonT(30)
<1>7. g.inbuf \o wire[s] = <<>>
  BY <1>5, <1>6, ZenonT(30) DEF SessionOK, SetupOK, Live
<1>8. ~ Open("change", g, g.inbuf \o wire[s])
  BY <1>7, ZenonT(30) DEF Open
<1>9. g.state # "ExpectResponse"
  BY <1>5, ZenonT(30)
<1>10. QED
  BY <1>5, <1>6, <1>8, <1>9, ArmStep, ZenonT(30) DEF g

\* The arms that wait for an agreement: they go on reading, go on with the
\* next state, or fail.
LEMMA ReceiveCases ==
    ASSUME NEW s \in TcpFlows, NEW z, NEW h, h = handler[s], Receive(s, [granted |-> z])
    PROVE  \/ at' = [at EXCEPT ![s] = "write"] /\ UNCHANGED <<handler, digest>>
           \/ /\ Complete(h.inbuf) /\ h.inbuf[1].of.name = "granted" /\ at' = [at EXCEPT ![s] = "change"]
              /\ handler' = [handler EXCEPT ![s] = [h EXCEPT !.inbuf = Rest(h.inbuf), !.state = z]]
              /\ UNCHANGED digest
           \/ Fail(s)
<1> DEFINE f == [granted |-> z]
<1>1. DOMAIN f = {"granted"} /\ f["granted"] = z
  BY ZenonT(30)
<1>2. Receive(s, f)
  BY ZenonT(30)
<1> HIDE DEF f
<1>3. QED
  BY <1>1, <1>2, ZenonT(30) DEF Receive, Goto, Become

\* The end of a session, by an error of its handler.
LEMMA FailStep ==
    ASSUME ShakeInv, NEW s \in TcpFlows, Fail(s), UNCHANGED <<world, relay, wire, server, realm>>
    PROVE  ShakeInv'
BY EndStep, ZenonT(30) DEF Fail, Goto, Become

\* The arms of SOCKS4.
LEMMA Socks4Step ==
    ASSUME ShakeInv, NEW s \in TcpFlows, at[s] = "change", ReceiveServerHelloSocks4(s),
           UNCHANGED <<world, relay, wire, server, realm>>
    PROVE  ShakeInv'
<1> DEFINE h == handler[s]
<1>1. h.state = "ServerHello" /\ Receive(s, [granted |-> "Established"]) /\ h.state \in Waiting
  BY ZenonT(30) DEF ReceiveServerHelloSocks4, Waiting
<1>2. CASE at' = [at EXCEPT ![s] = "write"] /\ UNCHANGED <<handler, digest>>
  BY <1>1, <1>2, IncompleteStep, ZenonT(30)
<1>3. CASE /\ Complete(h.inbuf) /\ h.inbuf[1].of.name = "granted" /\ at' = [at EXCEPT ![s] = "change"]
           /\ handler' = [handler EXCEPT ![s] = [h EXCEPT !.inbuf = Rest(h.inbuf), !.state = "Established"]]
           /\ UNCHANGED digest
  BY <1>1, <1>3, EstablishedStep, ZenonT(30)
<1>4. CASE Fail(s)
  BY <1>4, FailStep, ZenonT(30)
<1>5. QED
  BY <1>1, <1>2, <1>3, <1>4, ReceiveCases, ZenonT(30)

\* The arms of SOCKS5 that take a reply.
LEMMA Socks5Step ==
    ASSUME ShakeInv, NEW s \in TcpFlows, at[s] = "change",
           ReceiveServerHelloSocks5(s) \/ ReceiveAuthData(s) \/ ReceiveConnectionStatus(s),
           UNCHANGED <<world, relay, wire, server, realm>>
    PROVE  ShakeInv'
<1> DEFINE h == handler[s]
<1>1. CASE ReceiveServerHelloSocks5(s)
  <2> DEFINE f == [m \in Methods |-> IF m = "UserPass" THEN "SendAuthData" ELSE "SendRequest"]
  <2>1. h.state = "ServerHello" /\ world.proxy = "socks5" /\ Receive(s, f) /\ h.state \in Waiting
    BY <1>1, ZenonT(30) DEF ReceiveServerHelloSocks5, Waiting
  <2>2. \A r \in DOMAIN f : f[r] \in {"SendAuthData", "SendRequest"}
    BY ZenonT(30)
  <2> HIDE DEF f
  <2>3. CASE at' = [at EXCEPT ![s] = "write"] /\ UNCHANGED <<handler, digest>>
    BY <2>1, <2>3, IncompleteStep, ZenonT(30)
  <2>4. CASE Fail(s)
    BY <2>4, FailStep, ZenonT(30)
  <2>5. ASSUME NEW z \in {"SendAuthData", "SendRequest"}, Complete(h.inbuf), at' = [at EXCEPT ![s] = "change"],
               handler' = [handler EXCEPT ![s] = [h EXCEPT !.inbuf = Rest(h.inbuf), !.state = z]], UNCHANGED digest
        PROVE  ShakeInv'
    BY <2>1, <2>5, AcceptedStep, ZenonT(30)
  <2>6. QED
    BY <2>1, <2>2, <2>3, <2>4, <2>5, ZenonT(30) DEF Receive, Goto, Become
<1>2. CASE ReceiveAuthData(s)
  <2>1. h.state = "ReceiveAuthResponse" /\ Receive(s, [granted |-> "SendRequest"]) /\ h.state \in Waiting
    BY <1>2, ZenonT(30) DEF ReceiveAuthData, Waiting
  <2>2. CASE at' = [at EXCEPT ![s] = "write"] /\ UNCHANGED <<handler, digest>>
    BY <2>1, <2>2, IncompleteStep, ZenonT(30)
  <2>3. CASE /\ Complete(h.inbuf) /\ h.inbuf[1].of.name = "granted" /\ at' = [at EXCEPT ![s] = "change"]
             /\ handler' = [handler EXCEPT ![s] = [h EXCEPT !.inbuf = Rest(h.inbuf), !.state = "SendRequest"]]
             /\ UNCHANGED digest
    BY <2>1, <2>3, AcceptedStep, ZenonT(30)
  <2>4. CASE Fail(s)
    BY <2>4, FailStep, ZenonT(30)
  <2>5. QED
    BY <2>1, <2>2, <2>3, <2>4, ReceiveCases, ZenonT(30)
<1>3. CASE ReceiveConnectionStatus(s)
  <2>1. h.state = "ReceiveResponse" /\ Receive(s, [granted |-> "Established"]) /\ h.state \in Waiting
    BY <1>3, ZenonT(30) DEF ReceiveConnectionStatus, Waiting
  <2>2. CASE at' = [at EXCEPT ![s] = "write"] /\ UNCHANGED <<handler, digest>>
    BY <2>1, <2>2, IncompleteStep, ZenonT(30)
  <2>3. CASE /\ Complete(h.inbuf) /\ h.inbuf[1].of.name = "granted" /\ at' = [at EXCEPT ![s] = "change"]
             /\ handler' = [handler EXCEPT ![s] = [h EXCEPT !.inbuf = Rest(h.inbuf), !.state = "Established"]]
             /\ UNCHANGED digest
    BY <2>1, <2>3, EstablishedStep, ZenonT(30)
  <2>4. CASE Fail(s)
    BY <2>4, FailStep, ZenonT(30)
  <2>5. QED
    BY <2>1, <2>2, <2>3, <2>4, ReceiveCases, ZenonT(30)
<1>4. QED
  BY <1>1, <1>2, <1>3, ZenonT(30)

\* A request after the first one.
LEMMA AppendOne ==
    ASSUME NEW x \in Query, NEW o, o = <<>>
    PROVE  /\ Append(o, x) \in Seq(Query) /\ Len(Append(o, x)) = 1 /\ Append(o, x)[1] = x
           /\ x.name # "CONNECT" => AnswersOf(Append(o, x)) = {}
           /\ x.name = "CONNECT" => AnswersOf(Append(o, x)) = {x.auth}
<1> DEFINE p == Append(o, x)
<1>1. p \in Seq(Query) /\ Len(p) = 1 /\ p[1] = x
  OBVIOUS
<1> HIDE DEF p
<1>2. x.name # "CONNECT" => AnswersOf(p) = {}
  BY <1>1 DEF AnswersOf
<1>3. x.name = "CONNECT" => AnswersOf(p) = {x.auth}
  BY <1>1 DEF AnswersOf
<1>4. QED
  BY <1>1, <1>2, <1>3, ZenonT(30) DEF p

\* The arms of SOCKS5 that send.
LEMMA SendStep ==
    ASSUME ShakeInv, NEW s \in TcpFlows, at[s] = "change", SendAuthData(s) \/ SendRequestSocks5(s),
           UNCHANGED <<world, relay, wire, server, realm>>
    PROVE  ShakeInv'
<1> DEFINE h == handler[s]
           x == [name |-> IF h.state = "SendAuthData" THEN "password" ELSE "connect"]
           z == IF h.state = "SendAuthData" THEN "ReceiveAuthResponse" ELSE "ReceiveResponse"
           g == [h EXCEPT !.out = Append(h.out, x), !.state = z]
<1>1. StreamInv /\ ShakeTypes
  BY ZenonT(30) DEF ShakeInv, StreamInv
<1>2. /\ world \in Worlds /\ h \in HandlerSet /\ wire[s] \in Seq(Unit)
      /\ server[s] \in ServerSet /\ relay[s] \in RelaySet
      /\ SessionOK(world, "change", h, wire[s], server[s], relay[s])
  BY <1>1, SessionTypes, ZenonT(30)
<1>3. h.state \in {"SendAuthData", "SendRequest"}
  BY ZenonT(30) DEF SendAuthData, SendRequestSocks5
<1>4. h.out = <<>> /\ h.inbuf \o wire[s] = <<>>
  BY <1>2, <1>3, ZenonT(30) DEF SessionOK, SetupOK, Silent, Live
<1>5. handler' = [handler EXCEPT ![s] = g] /\ at' = [at EXCEPT ![s] = "write"] /\ digest' = digest
  BY <1>3, ZenonT(30) DEF SendAuthData, SendRequestSocks5, Goto, Become
<1>6. x \in Query /\ x.name # "CONNECT"
  BY ZenonT(30) DEF Query
<1>7. Append(h.out, x) \in Seq(Query) /\ AnswersOf(Append(h.out, x)) = {}
  <2>1. /\ Append(<<>>, x) \in Seq(Query)
        /\ x.name # "CONNECT" => AnswersOf(Append(<<>>, x)) = {}
    BY <1>6, AppendOne, ZenonT(30)
  <2>2. QED
    BY <1>4, <1>6, <2>1, ZenonT(30)
<1>8. /\ g \in HandlerSet /\ g.inbuf = h.inbuf /\ g.client = h.client /\ g.state = z /\ g.out = Append(h.out, x)
      /\ g.before = h.before
  BY <1>2, <1>7, ZenonT(30) DEF HandlerSet
<1> HIDE DEF g
<1>9. SessionOK(world, "write", g, wire[s], server[s], relay[s])
  BY <1>2, <1>3, <1>8, SendOK, ZenonT(30)
<1>10. ~ Open("write", g, g.inbuf \o wire[s]) /\ g.state # "ExpectResponse" /\ AnswersOf(g.out) = {}
  BY <1>4, <1>7, <1>8, ZenonT(30) DEF Open
<1> HIDE DEF h
<1>11. QED
  BY <1>5, <1>8, <1>9, <1>10, ArmStep, ZenonT(30) DEF h

\* The arm of an established handler.
LEMMA RelayTrafficStep ==
    ASSUME ShakeInv, NEW s \in TcpFlows, at[s] = "change", RelayTraffic(s),
           UNCHANGED <<world, relay, wire, server, realm>>
    PROVE  ShakeInv'
<1> DEFINE h == handler[s]
           g == [h EXCEPT !.client = h.client \o h.inbuf, !.inbuf = <<>>]
<1>1. StreamInv /\ ShakeTypes
  BY ZenonT(30) DEF ShakeInv, StreamInv
<1>2. /\ world \in Worlds /\ h \in HandlerSet /\ wire[s] \in Seq(Unit)
      /\ server[s] \in ServerSet /\ relay[s] \in RelaySet
      /\ SessionOK(world, "change", h, wire[s], server[s], relay[s])
  BY <1>1, SessionTypes, ZenonT(30)
<1>3. h.client \in Seq(Unit) /\ h.inbuf \in Seq(Unit) /\ <<>> \in Seq(Unit)
  BY <1>2, EmptySeq, ZenonT(30) DEF HandlerSet
<1>4. h.client \o h.inbuf \in Seq(Unit)
  BY <1>3, Joined2, ZenonT(30)
<1>5. /\ g \in HandlerSet /\ g.inbuf = <<>> /\ g.client = h.client \o h.inbuf /\ g.state = h.state
      /\ g.out = h.out /\ g.before = h.before
  BY <1>2, <1>3, <1>4, ZenonT(30) DEF HandlerSet
<1>6. /\ handler' = [handler EXCEPT ![s] = g] /\ at' = [at EXCEPT ![s] = "write"] /\ digest' = digest
      /\ h.state = "Established"
  BY ZenonT(30) DEF RelayTraffic, Goto, Become
<1> HIDE DEF g
<1>7. SessionOK(world, "write", g, wire[s], server[s], relay[s])
  BY <1>2, <1>5, <1>6, RelayTrafficOK, ZenonT(30)
<1>8. ~ Open("write", g, g.inbuf \o wire[s]) /\ g.state # "ExpectResponse"
  BY <1>5, <1>6, ZenonT(30) DEF Open
<1>9. QED
  BY <1>5, <1>6, <1>7, <1>8, ArmStep, ZenonT(30)

\* The arm that goes on with the next response.
LEMMA ResetStep ==
    ASSUME ShakeInv, NEW s \in TcpFlows, at[s] = "change", Reset(s),
           UNCHANGED <<world, relay, wire, server, realm>>
    PROVE  ShakeInv'
<1> DEFINE h == handler[s]
           g == [h EXCEPT !.state = "ExpectResponseHeaders"]
<1>1. StreamInv /\ ShakeTypes
  BY ZenonT(30) DEF ShakeInv, StreamInv
<1>2. /\ world \in Worlds /\ h \in HandlerSet /\ wire[s] \in Seq(Unit)
      /\ server[s] \in ServerSet /\ relay[s] \in RelaySet
      /\ SessionOK(world, "change", h, wire[s], server[s], relay[s])
  BY <1>1, SessionTypes, ZenonT(30)
<1>3. /\ g \in HandlerSet /\ g.inbuf = h.inbuf /\ g.client = h.client /\ g.state = "ExpectResponseHeaders"
      /\ g.out = h.out /\ g.before = h.before
  BY <1>2, ZenonT(30) DEF HandlerSet
<1>4. /\ handler' = [handler EXCEPT ![s] = g] /\ at' = [at EXCEPT ![s] = "change"] /\ digest' = digest
      /\ h.state = "Reset"
  BY ZenonT(30) DEF Reset, Goto, Become
<1> HIDE DEF g
<1>5. SessionOK(world, "change", g, wire[s], server[s], relay[s])
  BY <1>2, <1>3, <1>4, ResetOK, ZenonT(30)
<1>6. g.inbuf \o wire[s] = Held(s)
  BY <1>3, ZenonT(30) DEF Held
<1>7. Open("change", g, g.inbuf \o wire[s]) => Open(at[s], h, Held(s))
  BY <1>3, <1>4, <1>6, ZenonT(30) DEF Open
<1>8. QED
  BY <1>3, <1>4, <1>5, <1>6, <1>7, ArmStep, ZenonT(30)

\* The arm that skips the body of a challenge.
LEMMA ExpectResponseStep ==
    ASSUME ShakeInv, NEW s \in TcpFlows, at[s] = "change", ExpectResponse(s),
           UNCHANGED <<world, relay, wire, server, realm>>
    PROVE  ShakeInv'
<1> DEFINE h == handler[s]
           b == h.inbuf
           n == IF h.skip < Len(b) THEN h.skip ELSE Len(b)
           g == [h EXCEPT !.inbuf = SubSeq(b, n + 1, Len(b)), !.skip = h.skip - n]
           l == IF h.skip = n THEN "scheme" ELSE "write"
<1>1. StreamInv /\ ShakeTypes
  BY ZenonT(30) DEF ShakeInv, StreamInv
<1>2. /\ world \in Worlds /\ h \in HandlerSet /\ wire[s] \in Seq(Unit)
      /\ server[s] \in ServerSet /\ relay[s] \in RelaySet
      /\ SessionOK(world, "change", h, wire[s], server[s], relay[s])
  BY <1>1, SessionTypes, ZenonT(30)
<1>3. b \in Seq(Unit) /\ h.skip \in Nat /\ Len(b) \in Nat
  BY <1>2, EmptySeq, ZenonT(30) DEF HandlerSet
<1>4. handler' = [handler EXCEPT ![s] = g] /\ at' = [at EXCEPT ![s] = l] /\ digest' = digest /\ h.state = "ExpectResponse"
  BY ZenonT(30) DEF ExpectResponse, Goto, Become
<1>5. n \in Nat /\ n <= Len(b) /\ h.skip - n \in Nat
  BY <1>3
<1>6. SubSeq(b, n + 1, Len(b)) \in Seq(Unit)
  BY <1>3, <1>5, LaterPart, ZenonT(30)
<1>7. /\ g \in HandlerSet /\ g.inbuf = SubSeq(b, n + 1, Len(b)) /\ g.client = h.client /\ g.state = h.state
      /\ g.out = h.out /\ g.before = h.before /\ g.skip = h.skip - n
  BY <1>2, <1>5, <1>6, ZenonT(30) DEF HandlerSet
<1> HIDE DEF g
<1>8. SessionOK(world, l, g, wire[s], server[s], relay[s])
  BY <1>2, <1>4, <1>5, <1>7, SkippedOK, ZenonT(30)
<1>9. l \in {"write", "scheme"}
  BY ZenonT(30)
<1> HIDE DEF l
<1>10. ~ Open(l, g, g.inbuf \o wire[s])
  BY <1>4, <1>7, ZenonT(30) DEF Open
<1>11. QED
  BY <1>4, <1>7, <1>8, <1>9, <1>10, ArmStep, ZenonT(30)

\* The arm that takes the headers of a response.
LEMMA ResponseHeadersStep ==
    ASSUME ShakeInv, NEW s \in TcpFlows, at[s] = "change", ExpectResponseHeaders(s),
           UNCHANGED <<world, relay, wire, server, realm>>
    PROVE  ShakeInv'
<1> DEFINE h == handler[s]
           r == h.inbuf[1].of
<1>1. StreamInv /\ ShakeTypes /\ DigestInv
  BY ZenonT(30) DEF ShakeInv, StreamInv
<1>2. /\ world \in Worlds /\ h \in HandlerSet /\ wire[s] \in Seq(Unit)
      /\ server[s] \in ServerSet /\ relay[s] \in RelaySet
      /\ SessionOK(world, "change", h, wire[s], server[s], relay[s])
  BY <1>1, SessionTypes, ZenonT(30)
<1>3. h.state = "ExpectResponseHeaders" /\ h.state \in Waiting
  BY ZenonT(30) DEF ExpectResponseHeaders, Waiting
<1>4. CASE at' = [at EXCEPT ![s] = "write"] /\ UNCHANGED <<handler, digest>>
  BY <1>3, <1>4, IncompleteStep, ZenonT(30)
<1>5. CASE Fail(s)
  BY <1>5, FailStep, ZenonT(30)
<1>6. CASE /\ Complete(h.inbuf) /\ h.inbuf[1].part = "first" /\ r.name = "200" /\ at' = [at EXCEPT ![s] = "change"]
           /\ handler' = [handler EXCEPT ![s] = [h EXCEPT !.inbuf = Rest(h.inbuf), !.state = "Established"]]
           /\ UNCHANGED digest
  BY <1>3, <1>6, EstablishedStep, ZenonT(30)
<1>7. ASSUME Complete(h.inbuf), h.inbuf[1].part = "first", r.name = "407", r.scheme = "Digest"
      PROVE  Open("change", h, Held(s)) /\ Held(s)[1] = h.inbuf[1]
  <2>1. (h.inbuf \o wire[s])[1] = h.inbuf[1] /\ h.inbuf \o wire[s] # <<>>
    BY <1>2, <1>3, <1>7, CompleteReply, ZenonT(30)
  <2>2. QED
    BY <1>3, <1>7, <2>1, ZenonT(30) DEF Open, Held, Live
<1>8. CASE /\ Complete(h.inbuf) /\ h.inbuf[1].part = "first" /\ r.name = "407" /\ r.scheme = "Digest"
           /\ BadCredentials(h, r) /\ at' = [at EXCEPT ![s] = "refused"]
           /\ handler' = [handler EXCEPT ![s] = NewHandler] /\ UNCHANGED digest
  <2>1. ASSUME world.known PROVE FALSE
    <3>1. Persists(digest, "change", h, Held(s), server[s])
      BY <1>1, <2>1, ZenonT(30) DEF DigestInv
    <3>2. Open("change", h, Held(s)) /\ Held(s)[1] = h.inbuf[1]
      BY <1>7, <1>8, ZenonT(30)
    <3>3. QED
      BY <1>8, <3>1, <3>2, ZenonT(30) DEF Persists, BadCredentials, Live
  <2>2. QED
    BY <1>8, <2>1, EndStep, ZenonT(30)
<1>9. CASE /\ Complete(h.inbuf) /\ h.inbuf[1].part = "first" /\ r.name = "407" /\ r.scheme = "Digest"
           /\ at' = [at EXCEPT ![s] = "challenged"] /\ UNCHANGED <<handler, digest>>
  <2>1. SessionOK(world, "challenged", h, wire[s], server[s], relay[s])
    BY <1>2, <1>3, <1>9, ChallengeReceivedOK, ZenonT(30)
  <2>2. handler' = [handler EXCEPT ![s] = h]
    BY <1>1, <1>9, Same, ZenonT(30)
  <2>3. Open(at[s], h, Held(s)) /\ Held(s) = h.inbuf \o wire[s]
    BY <1>7, <1>9, ZenonT(30) DEF Held
  <2>4. QED
    BY <1>2, <1>3, <1>9, <2>1, <2>2, <2>3, ArmStep, ZenonT(30)
<1>10. QED
  BY <1>4, <1>5, <1>6, <1>8, <1>9, ZenonT(30) DEF ExpectResponseHeaders, Goto, Become

\* state_change.
LEMMA StateChangeStep ==
    ASSUME ShakeInv, NEW s \in TcpFlows, StateChange(s), UNCHANGED <<world, realm>>
    PROVE  ShakeInv'
<1>1. at[s] = "change" /\ UNCHANGED <<world, relay, wire, server, realm>>
  BY ZenonT(30) DEF StateChange
<1>2. CASE ReceiveServerHelloSocks4(s)
  BY <1>1, <1>2, Socks4Step, ZenonT(30)
<1>3. CASE ReceiveServerHelloSocks5(s) \/ ReceiveAuthData(s) \/ ReceiveConnectionStatus(s)
  BY <1>1, <1>3, Socks5Step, ZenonT(30)
<1>4. CASE SendAuthData(s) \/ SendRequestSocks5(s)
  BY <1>1, <1>4, SendStep, ZenonT(30)
<1>5. CASE RelayTraffic(s)
  BY <1>1, <1>5, RelayTrafficStep, ZenonT(30)
<1>6. CASE ExpectResponseHeaders(s)
  BY <1>1, <1>6, ResponseHeadersStep, ZenonT(30)
<1>7. CASE ExpectResponse(s)
  BY <1>1, <1>7, ExpectResponseStep, ZenonT(30)
<1>8. CASE Reset(s)
  BY <1>1, <1>8, ResetStep, ZenonT(30)
<1>9. QED
  BY <1>2, <1>3, <1>4, <1>5, <1>6, <1>7, <1>8, ZenonT(30) DEF StateChange

\* The timeout of the setup.
LEMMA SetupTimesOutStep ==
    ASSUME ShakeInv, NEW s \in TcpFlows, SetupTimesOut(s), UNCHANGED <<world, realm>>
    PROVE  ShakeInv'
BY FailStep, ZenonT(30) DEF SetupTimesOut

\* Choosing the scheme.
LEMMA ChooseSchemeStep ==
    ASSUME ShakeInv, NEW s \in TcpFlows, ChooseScheme(s), UNCHANGED <<world, realm>>
    PROVE  ShakeInv'
<1> DEFINE h == handler[s]
           g == [h EXCEPT !.scheme = IF digest.nonce = 0 THEN "Basic" ELSE "Digest"]
           l == IF at[s] = "new" THEN "firstAnswer" ELSE "answer"
<1>1. StreamInv /\ ShakeTypes /\ DigestInv
  BY ZenonT(30) DEF ShakeInv, StreamInv
<1>2. /\ world \in Worlds /\ h \in HandlerSet /\ wire[s] \in Seq(Unit)
      /\ server[s] \in ServerSet /\ relay[s] \in RelaySet
      /\ SessionOK(world, at[s], h, wire[s], server[s], relay[s])
  BY <1>1, SessionTypes, ZenonT(30)
<1>3. /\ g \in HandlerSet /\ g.inbuf = h.inbuf /\ g.client = h.client /\ g.state = h.state /\ g.skip = h.skip
      /\ g.out = h.out /\ g.before = h.before /\ (digest.nonce # 0 => g.scheme = "Digest")
  BY <1>2, ZenonT(30) DEF HandlerSet
<1>4. at[s] = "scheme" \/ (at[s] = "new" /\ world.proxy = "http")
  BY ZenonT(30) DEF ChooseScheme
<1>5. handler' = [handler EXCEPT ![s] = g] /\ at' = [at EXCEPT ![s] = l] /\ digest' = digest
  BY ZenonT(30) DEF ChooseScheme, Goto, Become
<1>6. Moves(s, l, g, wire[s], server[s], relay[s])
  BY <1>1, <1>5, Same, ZenonT(30) DEF Moves, ChooseScheme
<1> HIDE DEF g
<1>7. SessionOK(world, l, g, wire[s], server[s], relay[s])
  BY <1>2, <1>3, <1>4, SchemeOK, ZenonT(30)
<1>8. world.known /\ at[s] = "scheme" => g.before /\ digest.nonce # 0
  BY <1>1, <1>3, ZenonT(30) DEF DigestInv, Persists, Again, Live
<1>9. g.inbuf \o wire[s] = Held(s) /\ Sent(g, server[s]) = Sent(h, server[s])
  BY <1>3, ZenonT(30) DEF Held, Sent
<1>10. \/ at[s] = "scheme" /\ l = "answer"
       \/ at[s] = "new" /\ l = "firstAnswer"
  BY <1>4, ZenonT(30)
<1> HIDE DEF l
<1>11. Follows(at[s], h, Held(s), server[s], l, g, g.inbuf \o wire[s], server[s])
  BY <1>3, <1>8, <1>9, <1>10, ZenonT(30) DEF Follows, Open, Again, Live
<1>12. QED
  BY <1>2, <1>3, <1>5, <1>6, <1>7, <1>10, <1>11, Move, ZenonT(30) DEF Places, Live, ChooseScheme

\* What the handler holds goes to the relay.
LEMMA PrefetchStep ==
    ASSUME ShakeInv, NEW s \in TcpFlows, Prefetch(s), UNCHANGED <<world, realm>>
    PROVE  ShakeInv'
<1> DEFINE h == handler[s]
           g == [h EXCEPT !.client = <<>>]
           k == relay[s]
           k2 == [k EXCEPT !.pending = h.client]
<1>1. StreamInv /\ ShakeTypes
  BY ZenonT(30) DEF ShakeInv, StreamInv
<1>2. /\ world \in Worlds /\ h \in HandlerSet /\ wire[s] \in Seq(Unit)
      /\ server[s] \in ServerSet /\ k \in RelaySet
      /\ SessionOK(world, at[s], h, wire[s], server[s], k)
  BY <1>1, SessionTypes, ZenonT(30)
<1>3. g \in HandlerSet /\ g.out = h.out
  BY <1>2, EmptySeq, ZenonT(30) DEF HandlerSet
<1>4. /\ k2 \in RelaySet /\ k2.pending = h.client /\ k2.given = k.given /\ k2.down = k.down
  BY <1>2, ZenonT(30) DEF RelaySet, HandlerSet
<1>5. /\ handler' = [handler EXCEPT ![s] = g] /\ at' = [at EXCEPT ![s] = "relay"] /\ digest' = digest
      /\ relay' = [relay EXCEPT ![s].pending = h.client] /\ at[s] = "prefetch"
  BY ZenonT(30) DEF Prefetch, Goto, Become
<1>6. relay' = [relay EXCEPT ![s] = k2]
  BY <1>1, <1>5, ZenonT(30) DEF ShakeTypes, RelaySet
<1>7. Moves(s, "relay", g, wire[s], server[s], k2)
  BY <1>1, <1>5, <1>6, Same, ZenonT(30) DEF Moves, Prefetch
<1> HIDE DEF g, k2
<1>8. SessionOK(world, "relay", g, wire[s], server[s], k2)
  BY <1>2, <1>4, <1>5, PrefetchOK, ZenonT(30)
<1>9. Follows(at[s], h, Held(s), server[s], "relay", g, g.inbuf \o wire[s], server[s])
  BY <1>3, ZenonT(30) DEF Follows, Open, Again, Live, Sent
<1>10. QED
  BY <1>2, <1>3, <1>4, <1>5, <1>7, <1>8, <1>9, Move, ZenonT(30) DEF Places

\* A step of a session that relays.
LEMMA PumpMove ==
    ASSUME ShakeInv, NEW s \in TcpFlows, at[s] = "relay", NEW l \in {"relay", "done"}, NEW w \in Seq(Unit),
           NEW k \in RelaySet, at' = [at EXCEPT ![s] = l], wire' = [wire EXCEPT ![s] = w],
           relay' = [relay EXCEPT ![s] = k], UNCHANGED <<world, handler, digest, server, realm>>,
           SessionOK(world, l, handler[s], w, server[s], k)
    PROVE  ShakeInv'
<1>1. StreamInv /\ ShakeTypes
  BY ZenonT(30) DEF ShakeInv, StreamInv
<1>2. handler[s] \in HandlerSet /\ server[s] \in ServerSet
  BY <1>1, SessionTypes, ZenonT(30)
<1>3. Moves(s, l, handler[s], w, server[s], k)
  BY <1>1, Same, ZenonT(30) DEF Moves
<1>4. Follows(at[s], handler[s], Held(s), server[s], l, handler[s], handler[s].inbuf \o w, server[s])
  BY ZenonT(30) DEF Follows, Open, Again, Live
<1>5. QED
  BY <1>2, <1>3, <1>4, Move, ZenonT(30) DEF Places

\* Whole frames.
LEMMA WholeFacts ==
    ASSUME NEW n \in Nat
    PROVE  2 * (n \div 2) \in Nat /\ 2 * (n \div 2) <= n /\ (2 * (n \div 2)) % 2 = 0 /\ n <= n
OBVIOUS

\* What the pump towards the client emits.
LEMMA DownEmitsStep ==
    ASSUME ShakeInv, NEW s \in TcpFlows, DownEmits(s), UNCHANGED <<world, handler, digest, server, realm>>
    PROVE  ShakeInv'
<1> DEFINE k == relay[s]
           a == k.given
           p == k.pending
           n == Whole(p)
           x == a \o SubSeq(p, 1, n)
           y == SubSeq(p, n + 1, Len(p))
           k2 == [k EXCEPT !.down = "read", !.given = x, !.pending = y]
<1>1. StreamInv /\ ShakeTypes
  BY ZenonT(30) DEF ShakeInv, StreamInv
<1>2. /\ world \in Worlds /\ wire[s] \in Seq(Unit) /\ server[s] \in ServerSet /\ k \in RelaySet
      /\ SessionOK(world, at[s], handler[s], wire[s], server[s], k)
  BY <1>1, SessionTypes, ZenonT(30)
<1>3. at[s] = "relay" /\ at' = at /\ wire' = wire
  BY ZenonT(30) DEF DownEmits
<1>4. a \in Seq(Unit) /\ p \in Seq(Unit)
  BY <1>2, ZenonT(30) DEF RelaySet
<1>5. Len(a) \in Nat /\ Len(p) \in Nat
  BY <1>4, EmptySeq, ZenonT(30)
<1>6. n \in Nat /\ n <= Len(p) /\ (world.filter => n % 2 = 0)
  <2>1. n = IF world.filter THEN 2 * (Len(p) \div 2) ELSE Len(p)
    BY ZenonT(30) DEF Whole
  <2>2. /\ 2 * (Len(p) \div 2) \in Nat /\ 2 * (Len(p) \div 2) <= Len(p) /\ (2 * (Len(p) \div 2)) % 2 = 0
        /\ Len(p) <= Len(p)
    BY <1>5, WholeFacts, ZenonT(30)
  <2>3. QED
    BY <1>5, <2>1, <2>2, ZenonT(30)
<1>7. relay' = [relay EXCEPT ![s] = k2]
  <2>1. relay' = [relay EXCEPT ![s].down = "read", ![s].given = x, ![s].pending = y]
    BY ZenonT(30) DEF DownEmits
  <2> HIDE DEF x, y
  <2>2. QED
    BY <1>1, <2>1, ZenonT(30) DEF ShakeTypes, RelaySet
<1>8. DataFrom(0, a) /\ DataFrom(Len(a), p) /\ (world.filter => Len(a) % 2 = 0)
  BY <1>2, <1>3, ZenonT(30) DEF SessionOK, RelayOK
<1> HIDE DEF a, p, n
<1>9. x = a \o SubSeq(p, 1, n) /\ y = SubSeq(p, n + 1, Len(p))
  BY ZenonT(30)
<1> HIDE DEF x, y
<1>10. /\ x \in Seq(Unit) /\ y \in Seq(Unit) /\ DataFrom(0, x) /\ DataFrom(Len(x), y)
       /\ Len(x) = Len(a) + n /\ Len(x) + Len(y) = Len(a) + Len(p)
  <2> DEFINE z == 0
  <2>1. z \in Nat /\ z + Len(a) = Len(a) /\ z = 0
    BY <1>5
  <2> HIDE DEF z
  <2>2. n \in Nat /\ n <= Len(p) /\ MovesUp(a, p, n, x, y) /\ InOrder(z, a, p)
    BY <1>6, <1>8, <1>9, <2>1, ZenonT(30) DEF MovesUp, InOrder
  <2>3. /\ x \in Seq(Unit) /\ Len(x) = Len(a) + n /\ y \in Seq(Unit) /\ InOrder(z, x, y)
        /\ Len(x) + Len(y) = Len(a) + Len(p)
    <3>1. a \in Seq(Unit) /\ p \in Seq(Unit) /\ z \in Nat /\ n \in Nat
      BY <1>4, <2>1, <2>2, ZenonT(30)
    <3>2. n <= Len(p) /\ MovesUp(a, p, n, x, y) /\ InOrder(z, a, p)
      BY <2>2, ZenonT(30)
    <3>3. QED
      BY <3>1, <3>2, DataMoves
  <2>4. z + Len(x) = Len(x)
    BY <1>5, <2>1, <2>2, <2>3
  <2>5. QED
    BY <2>1, <2>3, <2>4, ZenonT(30) DEF InOrder
<1>11. world.filter => Len(x) % 2 = 0
  BY <1>5, <1>6, <1>8, <1>10, FramesAdd, ZenonT(30)
<1>13. k2 \in RelaySet /\ k2.down = "read" /\ k2.given = x /\ k2.pending = y
  BY <1>2, <1>10, ZenonT(30) DEF RelaySet
<1> HIDE DEF k2
<1>14. SessionOK(world, "relay", handler[s], wire[s], server[s], k2)
  <2>1. /\ Len(k2.given) + Len(k2.pending) = Len(k.given) + Len(k.pending) /\ DataFrom(0, k2.given)
        /\ DataFrom(Len(k2.given), k2.pending) /\ (world.filter => Len(k2.given) % 2 = 0)
    BY <1>10, <1>11, <1>13, ZenonT(30) DEF a, p
  <2>2. SessionOK(world, "relay", handler[s], wire[s], server[s], k)
    BY <1>2, <1>3, ZenonT(30)
  <2> HIDE DEF k
  <2>3. QED
    BY <1>2, <1>13, <2>1, <2>2, EmitsOK, ZenonT(30)
<1>15. at' = [at EXCEPT ![s] = "relay"] /\ wire' = [wire EXCEPT ![s] = wire[s]]
  BY <1>1, <1>3, Same, ZenonT(30)
<1>16. QED
  BY <1>2, <1>3, <1>7, <1>13, <1>14, <1>15, PumpMove, ZenonT(30)

\* The end of a relay by an error.
LEMMA RelayFails ==
    ASSUME ShakeInv, NEW s \in TcpFlows, at' = [at EXCEPT ![s] = "failed"],
           UNCHANGED <<world, handler, digest, relay, wire, server, realm>>
    PROVE  ShakeInv'
<1>1. ShakeTypes
  BY ZenonT(30) DEF ShakeInv, StreamInv
<1>2. handler' = [handler EXCEPT ![s] = handler[s]]
  BY <1>1, Same, ZenonT(30)
<1>3. QED
  BY <1>2, EndStep, ZenonT(30)

\* The end of one direction.
LEMMA PumpEndsStep ==
    ASSUME ShakeInv, NEW s \in TcpFlows, at[s] = "relay",
           UNCHANGED <<world, at, handler, digest, wire, server, realm>>,
           \/ relay' = [relay EXCEPT ![s].up = "eof"]
           \/ /\ relay' = [relay EXCEPT ![s].down = "eof"]
              /\ wire[s] = <<>> /\ relay[s].pending = <<>> /\ server[s].link = "eof"
    PROVE  ShakeInv'
<1> DEFINE k == relay[s]
           k2 == IF relay' = [relay EXCEPT ![s].up = "eof"] THEN [k EXCEPT !.up = "eof"] ELSE [k EXCEPT !.down = "eof"]
<1>1. StreamInv /\ ShakeTypes
  BY ZenonT(30) DEF ShakeInv, StreamInv
<1>2. /\ world \in Worlds /\ wire[s] \in Seq(Unit) /\ server[s] \in ServerSet /\ k \in RelaySet
      /\ SessionOK(world, "relay", handler[s], wire[s], server[s], k)
  BY <1>1, SessionTypes, ZenonT(30)
<1>3. relay' = [relay EXCEPT ![s] = k2]
  BY <1>1, ZenonT(30) DEF ShakeTypes, RelaySet
<1>4. /\ k2 \in RelaySet /\ k2.given = k.given /\ k2.pending = k.pending
      /\ \/ k2.down = k.down
         \/ k2.down = "eof" /\ wire[s] = <<>> /\ k.pending = <<>> /\ server[s].link = "eof"
  BY <1>2, ZenonT(30) DEF RelaySet
<1> HIDE DEF k2
<1>5. SessionOK(world, "relay", handler[s], wire[s], server[s], k2)
  BY <1>2, <1>4, PumpEndsOK, ZenonT(30)
<1>6. at' = [at EXCEPT ![s] = "relay"] /\ wire' = [wire EXCEPT ![s] = wire[s]]
  BY <1>1, Same, ZenonT(30)
<1>7. QED
  BY <1>2, <1>3, <1>4, <1>5, <1>6, PumpMove, ZenonT(30)

\* What the pump towards the client reads.
LEMMA DownReadsStep ==
    ASSUME ShakeInv, NEW s \in TcpFlows, DownReads(s), UNCHANGED <<world, handler, digest, server, realm>>
    PROVE  ShakeInv'
<1> DEFINE k == relay[s]
           a == k.pending
           w == wire[s]
<1>1. StreamInv /\ ShakeTypes
  BY ZenonT(30) DEF ShakeInv, StreamInv
<1>2. /\ world \in Worlds /\ w \in Seq(Unit) /\ server[s] \in ServerSet /\ k \in RelaySet
      /\ SessionOK(world, at[s], handler[s], w, server[s], k)
  BY <1>1, SessionTypes, ZenonT(30)
<1>3. at[s] = "relay"
  BY ZenonT(30) DEF DownReads
<1>4. CASE UNCHANGED <<relay, wire>> /\ Goto(s, "failed")
  BY <1>4, RelayFails, ZenonT(30) DEF Goto
<1>5. CASE /\ w = <<>> /\ server[s].link = "eof" /\ k.pending = <<>> /\ UNCHANGED <<at, wire>>
           /\ relay' = [relay EXCEPT ![s].down = "eof"]
  BY <1>3, <1>5, PumpEndsStep, ZenonT(30)
<1>6. ASSUME NEW n \in 1 .. Len(w), UNCHANGED at, wire' = [wire EXCEPT ![s] = SubSeq(w, n + 1, Len(w))],
             relay' = [relay EXCEPT ![s].down = "emit", ![s].pending = a \o SubSeq(w, 1, n)]
      PROVE  ShakeInv'
  <2> DEFINE x == a \o SubSeq(w, 1, n)
             y == SubSeq(w, n + 1, Len(w))
             m == Len(k.given)
             k2 == [k EXCEPT !.down = "emit", !.pending = x]
  <2>1. a \in Seq(Unit) /\ k.given \in Seq(Unit)
    BY <1>2, ZenonT(30) DEF RelaySet
  <2>2. m \in Nat /\ Len(a) \in Nat /\ Len(w) \in Nat
    BY <1>2, <2>1, EmptySeq, ZenonT(30)
  <2>3. InOrder(m, a, w)
    BY <1>2, <1>3, ZenonT(30) DEF SessionOK, RelayOK, InOrder
  <2>4. MovesUp(a, w, n, x, y)
    BY ZenonT(30) DEF MovesUp
  <2>5. relay' = [relay EXCEPT ![s] = k2] /\ wire' = [wire EXCEPT ![s] = y]
    <3>1. relay' = [relay EXCEPT ![s].down = "emit", ![s].pending = x]
      BY <1>6, ZenonT(30)
    <3> HIDE DEF x
    <3>2. QED
      BY <1>1, <1>6, <3>1, ZenonT(30) DEF ShakeTypes, RelaySet
  <2> HIDE DEF x, y, m, a
  <2>6. /\ x \in Seq(Unit) /\ Len(x) = Len(a) + n /\ y \in Seq(Unit) /\ InOrder(m, x, y)
        /\ Len(x) + Len(y) = Len(a) + Len(w)
    <3>1. a \in Seq(Unit) /\ w \in Seq(Unit) /\ m \in Nat /\ n \in Nat
      BY <1>2, <2>1, <2>2
    <3>2. n <= Len(w) /\ MovesUp(a, w, n, x, y) /\ InOrder(m, a, w)
      BY <2>2, <2>3, <2>4
    <3> HIDE DEF w
    <3>3. QED
      BY <3>1, <3>2, DataMoves
  <2>7. k2 \in RelaySet /\ k2.given = k.given /\ k2.down = "emit" /\ k2.pending = x
    BY <1>2, <2>6, ZenonT(30) DEF RelaySet
  <2> HIDE DEF k2
  <2>8. m + Len(x) + Len(y) = m + Len(a) + Len(w)
    <3>1. Len(x) \in Nat /\ Len(y) \in Nat
      BY <2>6, EmptySeq, ZenonT(30)
    <3>2. Len(x) + Len(y) = Len(a) + Len(w)
      BY <2>6, ZenonT(30)
    <3> HIDE DEF w
    <3>3. QED
      BY <2>2, <3>1, <3>2
  <2>9. /\ Len(k2.given) + Len(k2.pending) + Len(y) = Len(k.given) + Len(k.pending) + Len(w)
        /\ DataFrom(Len(k2.given), k2.pending) /\ DataFrom(Len(k2.given) + Len(k2.pending), y)
    BY <2>6, <2>7, <2>8, ZenonT(30) DEF InOrder, m, a
  <2>10. SessionOK(world, "relay", handler[s], w, server[s], k)
    BY <1>2, <1>3, ZenonT(30)
  <2>11. SessionOK(world, "relay", handler[s], y, server[s], k2)
    <3> HIDE DEF k, w
    <3>1. QED
      BY <1>2, <2>6, <2>7, <2>9, <2>10, PumpReadsOK, ZenonT(30)
  <2>12. at' = [at EXCEPT ![s] = "relay"]
    BY <1>1, <1>3, <1>6, Same, ZenonT(30)
  <2>13. QED
    BY <1>3, <2>5, <2>6, <2>7, <2>11, <2>12, PumpMove, ZenonT(30)
<1>7. QED
  BY <1>4, <1>5, <1>6, ZenonT(30) DEF DownReads

\* The pumps.
LEMMA PumpStep ==
    ASSUME ShakeInv, NEW s \in TcpFlows, Pump(s), UNCHANGED <<world, realm>>
    PROVE  ShakeInv'
<1>1. UNCHANGED <<world, handler, digest, server, realm>>
  BY ZenonT(30) DEF Pump
<1>2. CASE DownEmits(s)
  BY <1>1, <1>2, DownEmitsStep, ZenonT(30)
<1>3. CASE DownReads(s)
  BY <1>1, <1>3, DownReadsStep, ZenonT(30)
<1>4. CASE UpEnds(s)
  BY <1>1, <1>4, PumpEndsStep, ZenonT(30) DEF UpEnds
<1>5. CASE ClientAborts(s)
  BY <1>1, <1>5, RelayFails, ZenonT(30) DEF ClientAborts, Goto
<1>6. CASE Joined(s)
  <2>1. StreamInv /\ ShakeTypes
    BY ZenonT(30) DEF ShakeInv, StreamInv
  <2>2. /\ world \in Worlds /\ wire[s] \in Seq(Unit) /\ server[s] \in ServerSet /\ relay[s] \in RelaySet
        /\ SessionOK(world, at[s], handler[s], wire[s], server[s], relay[s])
    BY <2>1, SessionTypes, ZenonT(30)
  <2>3. at[s] = "relay" /\ relay[s].down = "eof" /\ at' = [at EXCEPT ![s] = "done"] /\ UNCHANGED <<relay, wire>>
    BY <1>6, ZenonT(30) DEF Joined, Goto
  <2>4. SessionOK(world, "done", handler[s], wire[s], server[s], relay[s])
    BY <2>2, <2>3, JoinedOK, ZenonT(30)
  <2>5. wire' = [wire EXCEPT ![s] = wire[s]] /\ relay' = [relay EXCEPT ![s] = relay[s]]
    BY <2>1, <2>3, Same, ZenonT(30)
  <2>6. QED
    BY <1>1, <2>2, <2>3, <2>4, <2>5, PumpMove, ZenonT(30)
<1>7. QED
  BY <1>2, <1>3, <1>4, <1>5, <1>6, ZenonT(30) DEF Pump

\* The types of answers.
LEMMA SentTypes ==
    ASSUME ShakeTypes, NEW s \in TcpFlows
    PROVE  SentBy(s) \subseteq Answer
<1>1. handler[s].out \in Seq(Query) /\ server[s].asked \in Seq(Query)
  BY ZenonT(30) DEF ShakeTypes, HandlerSet, ServerSet
<1>2. ASSUME NEW q \in Seq(Query) PROVE AnswersOf(q) \subseteq Answer
  <2>1. ASSUME NEW i \in 1 .. Len(q), q[i].name = "CONNECT" PROVE q[i].auth \in Answer
    <3>1. q[i] \in Query
      BY EmptySeq, ZenonT(30)
    <3>2. QED
      BY <2>1, <3>1, ZenonT(30) DEF Query
  <2>2. QED
    BY <2>1, ZenonT(30) DEF AnswersOf
<1>3. QED
  BY <1>1, <1>2, ZenonT(30) DEF SentBy, Sent

\* The counts of a nonce.
LEMMA CountsGrow ==
    ASSUME NEW d \in [nonce : Nat, count : Nat], NEW c \in Nat, NEW m, NEW a \in Answer, Made(d, m, a)
    PROVE  /\ Made([nonce |-> d.nonce, count |-> d.count + c], m, a)
           /\ a.nonce = d.nonce => a.count # d.count + 1
<1>1. d.count \in Nat /\ a.count \in Nat
  BY ZenonT(30) DEF Answer
<1>2. a.nonce = d.nonce => a.count <= d.count
  BY ZenonT(30) DEF Made
<1>3. a.nonce = d.nonce => a.count <= d.count + c /\ a.count # d.count + 1
  BY <1>1, <1>2
<1>4. QED
  BY <1>3, ZenonT(30) DEF Made

\* A step that makes one answer keeps the nonces.
LEMMA AnswerMove ==
    ASSUME ShakeTypes, DigestInv, NEW s \in TcpFlows, NEW l \in Places, NEW h \in HandlerSet, NEW w \in Seq(Unit),
           NEW v \in ServerSet, NEW k \in RelaySet, Moves(s, l, h, w, v, k), realm' = realm,
           digest'.nonce = digest.nonce, \A b \in Answer : Made(digest, realm, b) => Made(digest', realm, b),
           NEW a, Sent(h, v) \subseteq SentBy(s) \cup {a}, Made(digest', realm, a),
           \A t \in TcpFlows : \A n \in Nat : Posed(t, n) => a.nonce # n,
           a.by = "Digest" => a \notin realm.seen /\ \A t \in TcpFlows : a \notin SentBy(t),
           ~ Open(l, h, h.inbuf \o w),
           world.known => l # "refused" /\ Persists(digest, l, h, h.inbuf \o w, v)
    PROVE  DigestInv'
<1>1. /\ Held(s)' = h.inbuf \o w /\ SentBy(s)' = Sent(h, v)
      /\ \A t \in TcpFlows \ {s} : Held(t)' = Held(t) /\ SentBy(t)' = SentBy(t)
      /\ \A n : Posed(s, n)' <=> Open(l, h, h.inbuf \o w) /\ (h.inbuf \o w)[1].of.nonce = n
      /\ \A t \in TcpFlows \ {s} : \A n : Posed(t, n)' <=> Posed(t, n)
  BY HeldMove, ZenonT(30)
<1>2. /\ at'[s] = l /\ handler'[s] = h /\ server'[s] = v /\ world' = world
      /\ \A t \in TcpFlows \ {s} : at'[t] = at[t] /\ handler'[t] = handler[t] /\ server'[t] = server[t]
  BY MoveEffect
<1>3. \A t \in TcpFlows : \A n : Posed(t, n)' => Posed(t, n)
  BY <1>1, ZenonT(30)
<1>4. ASSUME NEW t \in TcpFlows PROVE AnswersOnce(t)'
  <2>1. \A t2 \in TcpFlows : AnswersOnce(t2)
    BY ZenonT(30) DEF DigestInv
  <2>2. ASSUME NEW b \in SentBy(t)'
        PROVE  /\ Made(digest', realm', b)
               /\ b.by = "Digest" => b \notin realm'.seen /\ \A t2 \in TcpFlows \ {t} : b \notin SentBy(t2)'
    <3>1. CASE b = a
      <4>1. b.by = "Digest" => t = s
        BY <1>1, <2>2, <3>1, ZenonT(30)
      <4>2. QED
        BY <1>1, <3>1, <4>1, ZenonT(30)
    <3>2. CASE b # a
      <4>1. \A t2 \in TcpFlows : b \in SentBy(t2)' => b \in SentBy(t2)
        BY <1>1, <3>2, ZenonT(30)
      <4>2. b \in SentBy(t) /\ b \in Answer
        BY <2>2, <4>1, SentTypes, ZenonT(30)
      <4>3. /\ Made(digest, realm, b)
            /\ b.by = "Digest" => b \notin realm.seen /\ \A t2 \in TcpFlows \ {t} : b \notin SentBy(t2)
        BY <2>1, <4>2, ZenonT(30) DEF AnswersOnce
      <4>4. QED
        BY <4>1, <4>2, <4>3, ZenonT(30)
    <3>3. QED
      BY <3>1, <3>2, ZenonT(30)
  <2>3. QED
    BY <2>2, ZenonT(30) DEF AnswersOnce
<1>5. ASSUME NEW t \in TcpFlows PROVE ChallengeOnce(t)'
  <2>1. ChallengeOnce(t)
    BY ZenonT(30) DEF DigestInv
  <2>2. ASSUME NEW n \in Nat, Posed(t, n)'
        PROVE  /\ n \in 1 .. realm'.issued /\ n # digest'.nonce
               /\ \A b \in realm'.seen : b.nonce # n
               /\ \A t2 \in TcpFlows : \A b \in SentBy(t2)' : b.nonce # n
               /\ \A t2 \in TcpFlows \ {t} : ~ Posed(t2, n)'
    <3>1. Posed(t, n)
      BY <1>3, <2>2, ZenonT(30)
    <3>2. /\ n \in 1 .. realm.issued /\ n # digest.nonce
          /\ \A b \in realm.seen : b.nonce # n
          /\ \A t2 \in TcpFlows : \A b \in SentBy(t2) : b.nonce # n
          /\ \A t2 \in TcpFlows \ {t} : ~ Posed(t2, n)
      BY <2>1, <3>1, ZenonT(30) DEF ChallengeOnce
    <3>3. a.nonce # n
      BY <3>1, ZenonT(30)
    <3>4. \A t2 \in TcpFlows : \A b \in SentBy(t2)' : b.nonce # n
      BY <1>1, <3>2, <3>3, ZenonT(30)
    <3>5. QED
      BY <1>3, <3>2, <3>4, ZenonT(30)
  <2>3. QED
    BY <2>2, ZenonT(30) DEF ChallengeOnce
<1>6. ASSUME world'.known, NEW t \in TcpFlows
      PROVE  at'[t] # "refused" /\ Persists(digest', at'[t], handler'[t], Held(t)', server'[t])
  <2>1. \A x, y, z, q : Persists(digest', x, y, z, q) <=> Persists(digest, x, y, z, q)
    BY ZenonT(30) DEF Persists
  <2>2. CASE t = s
    <3>1. at'[t] = l /\ handler'[t] = h /\ Held(t)' = h.inbuf \o w /\ server'[t] = v /\ world.known
      BY <1>1, <1>2, <1>6, <2>2, ZenonT(30)
    <3>2. l # "refused" /\ Persists(digest', l, h, h.inbuf \o w, v)
      BY <2>1, <3>1, ZenonT(30)
    <3>3. QED
      BY <3>1, <3>2, ZenonT(30)
  <2>3. CASE t # s
    <3>1. at[t] # "refused" /\ Persists(digest, at[t], handler[t], Held(t), server[t])
      BY <1>2, <1>6, ZenonT(30) DEF DigestInv
    <3>2. QED
      BY <1>1, <1>2, <2>1, <2>3, <3>1, ZenonT(30)
  <2>4. QED
    BY <2>2, <2>3, ZenonT(30)
<1>7. digest'.nonce <= realm'.issued /\ \A b \in realm'.seen : Made(digest', realm', b)
  <2>1. realm.seen \subseteq Answer
    BY ZenonT(30) DEF ShakeTypes
  <2>2. QED
    BY <2>1, ZenonT(30) DEF DigestInv
<1>8. QED
  BY <1>4, <1>5, <1>6, <1>7, ZenonT(30) DEF DigestInv

\* Where a session answers: nothing is queued or sent, and what it holds is
\* at most the rest of a challenge.
LEMMA AnswerPlace ==
    ASSUME NEW W \in Worlds, NEW h \in HandlerSet, NEW w \in Seq(Unit), NEW v \in ServerSet, NEW k,
           NEW l \in {"firstAnswer", "answer"}, SessionOK(W, l, h, w, v, k)
    PROVE  /\ h.out = <<>> /\ v.asked = <<>> /\ Bodies(h.inbuf \o w) /\ h.inbuf \o w \in Seq(Unit)
           /\ l = "firstAnswer" => h.state = "ExpectResponseHeaders" /\ h.before = FALSE
           /\ l = "answer" => h.state \in {"ExpectResponseHeaders", "ExpectResponse"}
<1> DEFINE u == h.inbuf \o w
<1>1. h.inbuf \in Seq(Unit) /\ h.skip \in Nat
  BY ZenonT(30) DEF HandlerSet
<1>2. u \in Seq(Unit)
  BY <1>1, Joined2, ZenonT(30)
<1>3. Len(u) \in Nat /\ (u = <<>> => Len(u) = 0)
  BY <1>2, EmptySeq, ZenonT(30)
<1>4. CASE l = "firstAnswer"
  <2>1. Untouched(W.proxy, h, w, v) /\ Starts(W.proxy, h) /\ W.proxy = "http"
    BY <1>4, ZenonT(30) DEF SessionOK
  <2>2. u = <<>>
    BY <2>1, JoinedEmpty, ZenonT(30) DEF Untouched
  <2>3. Bodies(u)
    BY <1>3, <2>2 DEF Bodies
  <2>4. h.before = FALSE
    BY <2>1, ZenonT(30) DEF Untouched, HandlerSet
  <2>5. QED
    BY <1>2, <1>4, <2>1, <2>3, <2>4, ZenonT(30) DEF Untouched, Starts
<1>5. CASE l = "answer"
  <2>1. SetupOK(W.proxy, l, h, u, v)
    BY <1>5, ZenonT(30) DEF SessionOK, Live
  <2> HIDE DEF u
  <2>2. h.state \in {"ExpectResponseHeaders", "ExpectResponse"} /\ Silent(h, v)
    BY <1>5, <2>1, ZenonT(30) DEF SetupOK, Waiting, HandlerSet
  <2>3. CASE h.state = "ExpectResponseHeaders"
    BY <1>2, <1>5, <2>1, <2>2, <2>3, ZenonT(30) DEF SetupOK, Silent, Waiting, u
  <2>4. CASE h.state = "ExpectResponse"
    <3>1. Len(u) <= h.skip /\ h.skip = 0
      BY <1>5, <2>1, <2>4, ZenonT(30) DEF SetupOK
    <3>2. Bodies(u)
      BY <1>1, <1>3, <3>1 DEF Bodies
    <3>3. QED
      BY <1>2, <1>5, <2>2, <3>2, ZenonT(30) DEF Silent, u
  <2>5. QED
    BY <2>2, <2>3, <2>4, ZenonT(30)
<1>6. QED
  BY <1>4, <1>5, ZenonT(30)

\* The answer that is made.
LEMMA AuthorizationFacts ==
    ASSUME ShakeTypes, NEW h \in HandlerSet, NEW a, a = Authorization(h)
    PROVE  /\ a \in Answer
           /\ a.by # "Digest" => a.nonce = 0 /\ a.count = 0
           /\ a.by = "Digest" => a.nonce = digest.nonce /\ a.count = digest.count + 1
           /\ world.known /\ h.scheme = "Digest" => a.by = "Digest"
<1>1. h.scheme \in {"Basic", "Digest"} /\ world.known \in BOOLEAN /\ digest.nonce \in Nat /\ digest.count \in Nat
  BY HandshakeAssumption, ZenonT(30) DEF ShakeTypes, HandlerSet
<1>2. CASE ~ world.known
  BY <1>1, <1>2, ZenonT(30) DEF Authorization, Answer
<1>3. CASE world.known /\ h.scheme = "Basic"
  BY <1>1, <1>3, ZenonT(30) DEF Authorization, Answer
<1>4. CASE world.known /\ h.scheme = "Digest"
  BY <1>1, <1>4 DEF Authorization, Answer
<1>5. QED
  BY <1>1, <1>2, <1>3, <1>4, ZenonT(30)

\* send_tunnel_request.
LEMMA SendTunnelRequestStep ==
    ASSUME ShakeInv, NEW s \in TcpFlows, SendTunnelRequest(s), UNCHANGED <<world, realm>>
    PROVE  ShakeInv'
<1> DEFINE h == handler[s]
           a == Authorization(h)
           x == [name |-> "CONNECT", auth |-> a]
           z == CASE at[s] = "firstAnswer" -> h.state
                  [] at[s] = "answer" /\ h.state = "ExpectResponse" -> "ExpectResponseHeaders"
                  [] OTHER -> "Reset"
           m == CASE at[s] = "firstAnswer" -> "connect"
                  [] at[s] = "answer" /\ h.state = "ExpectResponse" -> "change"
                  [] OTHER -> "write"
           g == [h EXCEPT !.out = Append(h.out, x), !.state = z]
           v == server[s]
           d == [digest EXCEPT !.count = IF a.by = "Digest" THEN a.count ELSE digest.count]
<1>1. StreamInv /\ ShakeTypes /\ DigestInv
  BY ZenonT(30) DEF ShakeInv, StreamInv
<1>2. /\ world \in Worlds /\ h \in HandlerSet /\ wire[s] \in Seq(Unit)
      /\ v \in ServerSet /\ relay[s] \in RelaySet
      /\ SessionOK(world, at[s], h, wire[s], v, relay[s])
  BY <1>1, SessionTypes, ZenonT(30)
<1>3. at[s] \in {"firstAnswer", "answer"}
  BY ZenonT(30) DEF SendTunnelRequest
<1>4. /\ h.out = <<>> /\ v.asked = <<>> /\ Bodies(h.inbuf \o wire[s]) /\ h.inbuf \o wire[s] \in Seq(Unit)
      /\ at[s] = "firstAnswer" => h.state = "ExpectResponseHeaders" /\ h.before = FALSE
      /\ at[s] = "answer" => h.state \in {"ExpectResponseHeaders", "ExpectResponse"}
  <2> DEFINE l == at[s]
             w == wire[s]
             k == relay[s]
  <2>1. /\ world \in Worlds /\ h \in HandlerSet /\ w \in Seq(Unit) /\ v \in ServerSet
        /\ l \in {"firstAnswer", "answer"} /\ SessionOK(world, l, h, w, v, k)
    BY <1>2, <1>3, ZenonT(30)
  <2> HIDE DEF h, l, w, k, v
  <2>2. /\ h.out = <<>> /\ v.asked = <<>> /\ Bodies(h.inbuf \o w) /\ h.inbuf \o w \in Seq(Unit)
        /\ l = "firstAnswer" => h.state = "ExpectResponseHeaders" /\ h.before = FALSE
        /\ l = "answer" => h.state \in {"ExpectResponseHeaders", "ExpectResponse"}
    BY <2>1, AnswerPlace, ZenonT(30)
  <2>3. QED
    BY <2>2, ZenonT(30) DEF l, w
<1>5. /\ a \in Answer
      /\ a.by # "Digest" => a.nonce = 0 /\ a.count = 0
      /\ a.by = "Digest" => a.nonce = digest.nonce /\ a.count = digest.count + 1
      /\ world.known /\ h.scheme = "Digest" => a.by = "Digest"
  BY <1>1, <1>2, AuthorizationFacts, ZenonT(30)
<1>6. handler' = [handler EXCEPT ![s] = g] /\ at' = [at EXCEPT ![s] = m] /\ digest' = d
  BY ZenonT(30) DEF SendTunnelRequest, Goto
<1> HIDE DEF a
<1>7. Moves(s, m, g, wire[s], v, relay[s])
  BY <1>1, <1>6, Same, ZenonT(30) DEF Moves, SendTunnelRequest
<1>8. z \in {"ExpectResponseHeaders", "Reset"} /\ m \in {"connect", "write", "change"} /\ (m = "connect" => at[s] = "firstAnswer")
  BY <1>3, <1>4, ZenonT(30)
<1> HIDE DEF z, m
<1>9. x \in Query /\ x.name = "CONNECT" /\ x.auth = a
  BY <1>5, ZenonT(30) DEF Query
<1>10. /\ Append(h.out, x) \in Seq(Query) /\ Len(Append(h.out, x)) = 1 /\ Append(h.out, x)[1] = x
       /\ AnswersOf(Append(h.out, x)) = {a}
  <2>1. /\ Append(<<>>, x) \in Seq(Query) /\ Len(Append(<<>>, x)) = 1 /\ Append(<<>>, x)[1] = x
        /\ x.name = "CONNECT" => AnswersOf(Append(<<>>, x)) = {x.auth}
    BY <1>9, AppendOne, ZenonT(30)
  <2> HIDE DEF x
  <2>2. QED
    BY <1>4, <1>9, <2>1, ZenonT(30)
<1>11. /\ g \in HandlerSet /\ g.inbuf = h.inbuf /\ g.client = h.client /\ g.state = z /\ g.out = Append(h.out, x)
       /\ g.before = h.before
  BY <1>2, <1>8, <1>10, ZenonT(30) DEF HandlerSet
<1> HIDE DEF x, g
<1>12. SessionOK(world, m, g, wire[s], v, relay[s])
  <2>1. Len(g.out) = 1 /\ g.out[1].name = "CONNECT"
    BY <1>9, <1>10, <1>11, ZenonT(30)
  <2>2. QED
    BY <1>2, <1>3, <1>8, <1>11, <2>1, TunnelRequestOK, ZenonT(30)
<1>13. digest \in [nonce : Nat, count : Nat] /\ digest.nonce \in Nat /\ digest.count \in Nat
  BY <1>1, ZenonT(30) DEF ShakeTypes
<1>14. /\ d \in [nonce : Nat, count : Nat] /\ d.nonce = digest.nonce
       /\ \/ a.by = "Digest" /\ d = [nonce |-> digest.nonce, count |-> digest.count + 1]
          \/ a.by # "Digest" /\ d = digest
  BY <1>5, <1>13
<1> HIDE DEF d
<1>15. StreamInv'
  BY <1>1, <1>2, <1>6, <1>7, <1>8, <1>11, <1>12, <1>14, StreamMove, ZenonT(30) DEF Places, Live, ShakeTypes
<1>16. Sent(g, v) = {a}
  <2>1. AnswersOf(v.asked) = {}
    BY <1>4, AnswersJoined, EmptySeq, ZenonT(30)
  <2>2. QED
    BY <1>10, <1>11, <2>1, ZenonT(30) DEF Sent
<1>17. /\ \A b \in Answer : Made(digest, realm, b) => Made(d, realm, b)
       /\ \A b \in Answer : Made(digest, realm, b) /\ b.nonce = digest.nonce => b.count # digest.count + 1
  <2>1. 1 \in Nat
    BY ZenonT(30)
  <2>2. ASSUME NEW b \in Answer, Made(digest, realm, b)
        PROVE  /\ Made([nonce |-> digest.nonce, count |-> digest.count + 1], realm, b)
               /\ b.nonce = digest.nonce => b.count # digest.count + 1
    BY <1>13, <2>1, <2>2, CountsGrow, ZenonT(30)
  <2>3. QED
    BY <1>14, <2>2, ZenonT(30)
<1>18. Made(d, realm, a)
  <2>1. digest.nonce <= realm.issued /\ realm.issued \in Nat
    BY <1>1, ZenonT(30) DEF DigestInv, ShakeTypes
  <2>2. QED
    BY <1>5, <1>13, <1>14, <2>1 DEF Made
<1>19. \A t \in TcpFlows : \A n \in Nat : Posed(t, n) => a.nonce # n
  <2>1. ASSUME NEW t \in TcpFlows, NEW n \in Nat, Posed(t, n) PROVE n # 0 /\ n # digest.nonce
    <3>1. ChallengeOnce(t)
      BY <1>1, ZenonT(30) DEF DigestInv
    <3>2. n \in 1 .. realm.issued /\ n # digest.nonce
      BY <2>1, <3>1, ZenonT(30) DEF ChallengeOnce
    <3>3. QED
      BY <3>2
  <2>2. a.nonce = 0 \/ a.nonce = digest.nonce
    BY <1>5, ZenonT(30)
  <2>3. QED
    BY <2>1, <2>2, ZenonT(30)
<1>20. a.by = "Digest" => a \notin realm.seen /\ \A t \in TcpFlows : a \notin SentBy(t)
  <2>1. ASSUME a.by = "Digest" PROVE ~ Made(digest, realm, a)
    BY <1>5, <1>17, <2>1, ZenonT(30)
  <2>2. \A b \in realm.seen : Made(digest, realm, b)
    BY <1>1, ZenonT(30) DEF DigestInv
  <2>3. \A t \in TcpFlows : \A b \in SentBy(t) : Made(digest, realm, b)
    BY <1>1, ZenonT(30) DEF DigestInv, AnswersOnce
  <2>4. QED
    BY <2>1, <2>2, <2>3, ZenonT(30)
<1>21. ~ Open(m, g, g.inbuf \o wire[s])
  <2> DEFINE u == h.inbuf \o wire[s]
  <2>1. g.inbuf \o wire[s] = u /\ Bodies(u) /\ u \in Seq(Unit)
    BY <1>4, <1>11, ZenonT(30)
  <2> HIDE DEF u
  <2>2. u # <<>> => u[1].part = "body"
    <3>1. u # <<>> => 1 \in 1 .. Len(u)
      BY <2>1, EmptySeq
    <3>2. QED
      BY <2>1, <3>1, ZenonT(30) DEF Bodies
  <2>3. QED
    BY <2>1, <2>2, ZenonT(30) DEF Open
<1>22. ASSUME world.known PROVE m # "refused" /\ Persists(digest, m, g, g.inbuf \o wire[s], v)
  <2>1. Persists(digest, at[s], h, Held(s), v)
    BY <1>1, <1>22, ZenonT(30) DEF DigestInv
  <2>2. ~ Again(m, g)
    BY <1>8, <1>11, ZenonT(30) DEF Again
  <2>3. g.before => digest.nonce # 0 /\ a.by = "Digest"
    BY <1>3, <1>4, <1>5, <1>11, <1>22, <2>1, ZenonT(30) DEF Persists, Live
  <2>4. m \notin {"refused", "answer"}
    BY <1>8, ZenonT(30)
  <2>5. QED
    BY <1>16, <1>21, <2>2, <2>3, <2>4, ZenonT(30) DEF Persists
<1>23. DigestInv'
  <2>1. m \in Places /\ realm' = realm /\ digest' = d /\ d.nonce = digest.nonce /\ Sent(g, v) \subseteq SentBy(s) \cup {a}
    BY <1>6, <1>8, <1>14, <1>16 DEF Places, Live
  <2>2. QED
    BY <1>1, <1>2, <1>7, <1>11, <1>17, <1>18, <1>19, <1>20, <1>21, <1>22, <2>1, AnswerMove, ZenonT(30)
<1>24. QED
  BY <1>15, <1>23, ZenonT(30) DEF ShakeInv

\* A session that takes up its challenge keeps the nonces.
LEMMA TakenMove ==
    ASSUME ShakeTypes, DigestInv, NEW s \in TcpFlows, NEW l \in Places, NEW h \in HandlerSet, NEW w \in Seq(Unit),
           NEW v \in ServerSet, NEW k \in RelaySet, Moves(s, l, h, w, v, k), realm' = realm,
           NEW c \in Nat, Posed(s, c), digest' = [nonce |-> c, count |-> 0],
           Sent(h, v) \subseteq SentBy(s), ~ Open(l, h, h.inbuf \o w),
           world.known => l # "refused" /\ Persists(digest', l, h, h.inbuf \o w, v)
    PROVE  DigestInv'
<1>1. /\ Held(s)' = h.inbuf \o w /\ SentBy(s)' = Sent(h, v)
      /\ \A t \in TcpFlows \ {s} : Held(t)' = Held(t) /\ SentBy(t)' = SentBy(t)
      /\ \A n : Posed(s, n)' <=> Open(l, h, h.inbuf \o w) /\ (h.inbuf \o w)[1].of.nonce = n
      /\ \A t \in TcpFlows \ {s} : \A n : Posed(t, n)' <=> Posed(t, n)
  BY HeldMove, ZenonT(30)
<1>2. /\ at'[s] = l /\ handler'[s] = h /\ server'[s] = v /\ world' = world
      /\ \A t \in TcpFlows \ {s} : at'[t] = at[t] /\ handler'[t] = handler[t] /\ server'[t] = server[t]
  BY MoveEffect
<1>3. \A t \in TcpFlows : SentBy(t)' \subseteq SentBy(t)
  BY <1>1, ZenonT(30)
<1>4. \A t \in TcpFlows : \A n : Posed(t, n)' => Posed(t, n) /\ t # s
  BY <1>1, ZenonT(30)
<1>5. /\ c \in 1 .. realm.issued
      /\ \A a \in realm.seen : a.nonce # c
      /\ \A t \in TcpFlows : \A a \in SentBy(t) : a.nonce # c
      /\ \A t \in TcpFlows \ {s} : ~ Posed(t, c)
  <2>1. ChallengeOnce(s)
    BY ZenonT(30) DEF DigestInv
  <2>2. QED
    BY <2>1, ZenonT(30) DEF ChallengeOnce
<1>6. digest'.nonce = c
  BY ZenonT(30)
<1>7. \A a : Made(digest, realm, a) /\ a.nonce # c => Made(digest', realm, a)
  BY <1>6, ZenonT(30) DEF Made
<1>8. ASSUME NEW t \in TcpFlows PROVE AnswersOnce(t)'
  <2>1. AnswersOnce(t)
    BY ZenonT(30) DEF DigestInv
  <2>2. ASSUME NEW a \in SentBy(t)'
        PROVE  /\ Made(digest', realm', a)
               /\ a.by = "Digest" => a \notin realm'.seen /\ \A t2 \in TcpFlows \ {t} : a \notin SentBy(t2)'
    <3>1. a \in SentBy(t)
      BY <1>3, <2>2, ZenonT(30)
    <3>2. /\ Made(digest, realm, a)
          /\ a.by = "Digest" => a \notin realm.seen /\ \A t2 \in TcpFlows \ {t} : a \notin SentBy(t2)
      BY <2>1, <3>1, ZenonT(30) DEF AnswersOnce
    <3>3. a.nonce # c
      BY <1>5, <3>1, ZenonT(30)
    <3>4. QED
      BY <1>3, <1>7, <3>2, <3>3, ZenonT(30)
  <2>3. QED
    BY <2>2, ZenonT(30) DEF AnswersOnce
<1>9. ASSUME NEW t \in TcpFlows PROVE ChallengeOnce(t)'
  <2>1. ChallengeOnce(t)
    BY ZenonT(30) DEF DigestInv
  <2>2. ASSUME NEW n \in Nat, Posed(t, n)'
        PROVE  /\ n \in 1 .. realm'.issued /\ n # digest'.nonce
               /\ \A a \in realm'.seen : a.nonce # n
               /\ \A t2 \in TcpFlows : \A a \in SentBy(t2)' : a.nonce # n
               /\ \A t2 \in TcpFlows \ {t} : ~ Posed(t2, n)'
    <3>1. Posed(t, n) /\ t # s
      BY <1>4, <2>2, ZenonT(30)
    <3>2. /\ n \in 1 .. realm.issued
          /\ \A a \in realm.seen : a.nonce # n
          /\ \A t2 \in TcpFlows : \A a \in SentBy(t2) : a.nonce # n
          /\ \A t2 \in TcpFlows \ {t} : ~ Posed(t2, n)
      BY <2>1, <3>1, ZenonT(30) DEF ChallengeOnce
    <3>3. n # c
      BY <1>5, <3>1, ZenonT(30)
    <3>4. QED
      BY <1>3, <1>4, <1>6, <3>2, <3>3, ZenonT(30)
  <2>3. QED
    BY <2>2, ZenonT(30) DEF ChallengeOnce
<1>10. ASSUME world'.known, NEW t \in TcpFlows
       PROVE  at'[t] # "refused" /\ Persists(digest', at'[t], handler'[t], Held(t)', server'[t])
  <2>1. CASE t = s
    <3>1. at'[t] = l /\ handler'[t] = h /\ Held(t)' = h.inbuf \o w /\ server'[t] = v /\ world.known
      BY <1>1, <1>2, <1>10, <2>1, ZenonT(30)
    <3>2. QED
      BY <3>1, ZenonT(30)
  <2>2. CASE t # s
    <3>1. at[t] # "refused" /\ Persists(digest, at[t], handler[t], Held(t), server[t])
      BY <1>2, <1>10, ZenonT(30) DEF DigestInv
    <3>2. c # 0
      BY <1>5
    <3>3. Persists(digest', at[t], handler[t], Held(t), server[t])
      BY <1>6, <3>1, <3>2, ZenonT(30) DEF Persists
    <3>4. QED
      BY <1>1, <1>2, <2>2, <3>1, <3>3
  <2>3. QED
    BY <2>1, <2>2
<1>11. digest'.nonce <= realm'.issued /\ \A a \in realm'.seen : Made(digest', realm', a)
  <2>1. c <= realm.issued
    BY <1>5 DEF ShakeTypes
  <2>2. \A a \in realm.seen : Made(digest, realm, a)
    BY ZenonT(30) DEF DigestInv
  <2>3. QED
    BY <1>5, <1>6, <1>7, <2>1, <2>2, ZenonT(30)
<1>12. QED
  BY <1>8, <1>9, <1>10, <1>11, ZenonT(30) DEF DigestInv

\* Where a session takes up its challenge.
LEMMA ChallengedPlace ==
    ASSUME NEW W \in Worlds, NEW h \in HandlerSet, NEW w \in Seq(Unit), NEW v \in ServerSet, NEW k,
           SessionOK(W, "challenged", h, w, v, k)
    PROVE  /\ h.state = "ExpectResponseHeaders" /\ Open("challenged", h, h.inbuf \o w) /\ Silent(h, v)
           /\ (h.inbuf \o w)[1].of = h.inbuf[1].of /\ h.inbuf[1].of \in Challenge
<1> DEFINE b == h.inbuf
           u == b \o w
           r == u[1].of
<1>1. b \in Seq(Unit)
  BY ZenonT(30) DEF HandlerSet
<1>2. SetupOK(W.proxy, "challenged", h, u, v)
  BY ZenonT(30) DEF SessionOK, Live
<1> HIDE DEF u
<1>3. h.state \in Waiting
  BY <1>2, ZenonT(30) DEF SetupOK, Waiting, HandlerSet
<1>4. /\ h.state = "ExpectResponseHeaders" /\ Len(b) >= 2 /\ r.name = "407" /\ r.scheme = "Digest"
      /\ Answered("CONNECT", r, h, u, v)
  BY <1>2, <1>3, ZenonT(30) DEF SetupOK
<1> HIDE DEF b
<1>5. u \in Seq(Unit) /\ Len(u) = Len(b) + Len(w) /\ \A i \in 1 .. Len(b) : u[i] = b[i]
  BY <1>1, Joined2 DEF u
<1>6. Len(b) \in Nat /\ Len(w) \in Nat
  BY <1>1, EmptySeq, ZenonT(30)
<1>7. 1 \in 1 .. Len(b) /\ 1 \in 1 .. Len(u) /\ u # <<>>
  BY <1>4, <1>5, <1>6, EmptySeq
<1>8. u[1] = Place(r, 1) /\ u[1] = b[1] /\ u[1] \in Unit
  BY <1>4, <1>5, <1>7, EmptySeq, ZenonT(30) DEF Answered, Opens
<1>9. u[1].part = "first"
  BY <1>8 DEF Place
<1>10. r \in Challenge
  BY <1>4, <1>8, ZenonT(30) DEF Unit, Reply
<1>11. QED
  BY <1>4, <1>7, <1>8, <1>9, <1>10, ZenonT(30) DEF Open, Live, Answered, b, u

\* The effect of a challenge on the session that takes it up.
LEMMA ChallengedMove ==
    ASSUME ShakeInv, NEW s \in TcpFlows, at[s] = "challenged", NEW l \in {"scheme", "change", "failed"},
           NEW g \in HandlerSet, at' = [at EXCEPT ![s] = l], handler' = [handler EXCEPT ![s] = g],
           digest' = [nonce |-> handler[s].inbuf[1].of.nonce, count |-> 0],
           UNCHANGED <<world, relay, wire, server, realm>>,
           SessionOK(world, l, g, wire[s], server[s], relay[s]),
           AnswersOf(g.out) = {}, ~ Open(l, g, g.inbuf \o wire[s]), l # "failed" => g.before
    PROVE  ShakeInv'
<1> DEFINE h == handler[s]
           v == server[s]
           c == h.inbuf[1].of.nonce
<1>1. StreamInv /\ ShakeTypes /\ DigestInv
  BY ZenonT(30) DEF ShakeInv, StreamInv
<1>2. /\ world \in Worlds /\ h \in HandlerSet /\ wire[s] \in Seq(Unit) /\ v \in ServerSet /\ relay[s] \in RelaySet
      /\ SessionOK(world, "challenged", h, wire[s], v, relay[s])
  BY <1>1, SessionTypes
<1>3. /\ Open("challenged", h, h.inbuf \o wire[s]) /\ Silent(h, v)
      /\ (h.inbuf \o wire[s])[1].of = h.inbuf[1].of /\ h.inbuf[1].of \in Challenge
  BY <1>2, ChallengedPlace, ZenonT(30)
<1>4. c \in Nat
  BY <1>3, ZenonT(30) DEF Challenge
<1>5. Posed(s, c)
  BY <1>3, ZenonT(30) DEF Posed, Held
<1>6. c # 0
  <2>1. c \in 1 .. realm.issued
    BY <1>1, <1>4, <1>5, ZenonT(30) DEF DigestInv, ChallengeOnce
  <2>2. QED
    BY <2>1
<1>7. Moves(s, l, g, wire[s], v, relay[s])
  BY <1>1, Same, ZenonT(30) DEF Moves
<1>8. digest' = [nonce |-> c, count |-> 0] /\ l \in Places
  BY ZenonT(30) DEF Places, Live
<1> HIDE DEF c
<1>9. digest' \in [nonce : Nat, count : Nat] /\ digest'.nonce = c
  BY <1>4, <1>8
<1>10. StreamInv'
  BY <1>1, <1>2, <1>7, <1>8, <1>9, StreamMove, ZenonT(30) DEF ShakeTypes
<1>11. Sent(g, v) = {}
  <2>1. AnswersOf(v.asked) = {}
    BY <1>3, AnswersJoined, EmptySeq, ZenonT(30) DEF Silent
  <2>2. QED
    BY <2>1, ZenonT(30) DEF Sent
<1>12. l # "refused" /\ Persists(digest', l, g, g.inbuf \o wire[s], v)
  BY <1>6, <1>9, <1>11, ZenonT(30) DEF Persists, Again, Live
<1>13. DigestInv'
  <2>1. Sent(g, v) \subseteq SentBy(s) /\ realm' = realm
    BY <1>11, ZenonT(30)
  <2>2. QED
    BY <1>1, <1>2, <1>4, <1>5, <1>7, <1>8, <1>12, <2>1, TakenMove, ZenonT(30)
<1>14. QED
  BY <1>10, <1>13 DEF ShakeInv

\* The challenge replaces the shared digest state.
LEMMA ChallengedStep ==
    ASSUME ShakeInv, NEW s \in TcpFlows, Challenged(s), UNCHANGED <<world, realm>>
    PROVE  ShakeInv'
<1> DEFINE h == handler[s]
           v == server[s]
           w == wire[s]
           k == relay[s]
           r == h.inbuf[1].of
           b == [h EXCEPT !.before = TRUE]
<1>1. StreamInv /\ ShakeTypes /\ DigestInv
  BY ZenonT(30) DEF ShakeInv, StreamInv
<1>2. at[s] = "challenged" /\ digest' = [nonce |-> r.nonce, count |-> 0] /\ UNCHANGED <<world, relay, wire, server, realm>>
  BY ZenonT(30) DEF Challenged
<1>3. /\ world \in Worlds /\ h \in HandlerSet /\ w \in Seq(Unit) /\ v \in ServerSet /\ k \in RelaySet
      /\ SessionOK(world, "challenged", h, w, v, k)
  BY <1>1, <1>2, SessionTypes, ZenonT(30)
<1>4. h.state = "ExpectResponseHeaders" /\ Silent(h, v) /\ r \in Challenge
  BY <1>3, ChallengedPlace
<1>5. r.length \in Nat /\ h.out = <<>> /\ v.asked = <<>>
  BY <1>4, ZenonT(30) DEF Challenge, Silent
<1>6. AnswersOf(<<>>) = {} /\ AnswersOf(h.out) = {}
  BY <1>5, AnswersJoined, EmptySeq, ZenonT(30)
<1>7. CASE /\ at' = [at EXCEPT ![s] = "scheme"]
           /\ handler' = [handler EXCEPT ![s] = [b EXCEPT !.inbuf = <<>>, !.out = <<>>]]
  <2> DEFINE g == [b EXCEPT !.inbuf = <<>>, !.out = <<>>]
  <2>1. /\ g \in HandlerSet /\ g.state = h.state /\ g.inbuf = <<>> /\ g.out = <<>> /\ g.client = h.client
        /\ g.before = TRUE
    BY <1>3, EmptySeq, ZenonT(30) DEF HandlerSet
  <2>2. handler' = [handler EXCEPT ![s] = g]
    BY <1>7, ZenonT(30)
  <2> HIDE DEF g
  <2>3. SessionOK(world, "scheme", g, w, v, k)
    BY <1>3, <1>4, <2>1, EmptiedOK
  <2>4. ~ Open("scheme", g, g.inbuf \o w)
    <3>1. Bodies(g.inbuf \o w)
      BY <1>4, <2>1, <2>3, ZenonT(30) DEF SessionOK, SetupOK, Waiting, Live
    <3>2. g.inbuf \o w = w
      BY <1>3, <2>1, JoinedEmpty
    <3>3. w # <<>> => 1 \in 1 .. Len(w)
      BY <1>3, EmptySeq
    <3>4. w # <<>> => w[1].part = "body"
      BY <3>1, <3>2, <3>3, ZenonT(30) DEF Bodies
    <3>5. QED
      BY <3>2, <3>4, ZenonT(30) DEF Open
  <2>5. QED
    BY <1>2, <1>6, <1>7, <2>1, <2>2, <2>3, <2>4, ChallengedMove, ZenonT(30)
<1>8. CASE at' = [at EXCEPT ![s] = "failed"] /\ handler' = [handler EXCEPT ![s] = NewHandler]
  <2>1. SessionOK(world, "failed", NewHandler, w, v, k)
    BY <1>3, EndsOK
  <2>2. NewHandler \in HandlerSet /\ AnswersOf(NewHandler.out) = {}
    BY <1>3, NewHandlerFacts
  <2>3. ~ Open("failed", NewHandler, NewHandler.inbuf \o w)
    BY ZenonT(30) DEF Open, Live
  <2>4. QED
    BY <1>2, <1>8, <2>1, <2>2, <2>3, ChallengedMove, ZenonT(30)
<1>9. CASE /\ at' = [at EXCEPT ![s] = "change"]
           /\ handler' = [handler EXCEPT ![s] = [b EXCEPT !.state = "ExpectResponse", !.skip = r.length + 2]]
  <2> DEFINE g == [b EXCEPT !.state = "ExpectResponse", !.skip = r.length + 2]
  <2>1. /\ g \in HandlerSet /\ g.state = "ExpectResponse" /\ g.inbuf = h.inbuf /\ g.out = h.out /\ g.client = h.client
        /\ g.before = TRUE /\ g.skip = r.length + 2
    <3> DEFINE n == r.length + 2
    <3>1. n \in Nat
      BY <1>5
    <3> HIDE DEF n, r
    <3>2. /\ [b EXCEPT !.state = "ExpectResponse", !.skip = n] \in HandlerSet
          /\ [b EXCEPT !.state = "ExpectResponse", !.skip = n].inbuf = h.inbuf
      BY <1>3, <3>1, ZenonT(30) DEF HandlerSet
    <3>3. g = [b EXCEPT !.state = "ExpectResponse", !.skip = n]
      BY ZenonT(30) DEF n
    <3>4. QED
      BY <1>3, <3>2, <3>3 DEF HandlerSet, n
  <2>2. handler' = [handler EXCEPT ![s] = g]
    BY <1>9, ZenonT(30)
  <2> HIDE DEF g
  <2>3. SessionOK(world, "change", g, w, v, k)
    BY <1>3, <1>4, <1>5, <2>1, SkippingOK, ZenonT(30)
  <2>4. ~ Open("change", g, g.inbuf \o w)
    BY <2>1, ZenonT(30) DEF Open
  <2>5. g \in HandlerSet /\ AnswersOf(g.out) = {} /\ g.before
    BY <1>6, <2>1
  <2>6. QED
    BY <1>2, <1>9, <2>2, <2>3, <2>4, <2>5, ChallengedMove, ZenonT(30)
<1>10. QED
  BY <1>7, <1>8, <1>9 DEF Challenged, Goto

\* What comes after does not change the first piece.
LEMMA FirstKept ==
    ASSUME NEW S, NEW b \in Seq(S), NEW w \in Seq(S)
    PROVE  /\ b # <<>> => b \o w # <<>> /\ (b \o w)[1] = b[1]
           /\ b = <<>> => b \o w = w
<1>1. Len(b) \in Nat /\ Len(w) \in Nat /\ (b # <<>> => Len(b) # 0)
  BY EmptySeq, ZenonT(30)
<1>2. b \o w \in Seq(S) /\ Len(b \o w) = Len(b) + Len(w) /\ \A i \in 1 .. Len(b) : (b \o w)[i] = b[i]
  BY Joined2
<1>3. b # <<>> => Len(b \o w) # 0 /\ (b \o w)[1] = b[1]
  BY <1>1, <1>2
<1>4. Len(<<>>) = 0
  BY EmptySeq, ZenonT(30)
<1>5. b = <<>> => b \o w = w
  BY JoinedEmpty, ZenonT(30)
<1>6. QED
  BY <1>3, <1>4, <1>5, ZenonT(30)

\* A step of the server that says something.
LEMMA ServerSpeaksStep ==
    ASSUME ShakeInv, NEW s \in TcpFlows, ServerSpeaks(s), UNCHANGED <<world, at, handler, digest, relay>>
    PROVE  ShakeInv'
<1> DEFINE h == handler[s]
           v == server[s]
           w == wire[s]
           k == relay[s]
           l == at[s]
           d == Data(v.said + 1)
           v2 == [v EXCEPT !.said = v.said + 1]
           u == h.inbuf \o w
<1>1. StreamInv /\ ShakeTypes
  BY ZenonT(30) DEF ShakeInv, StreamInv
<1>2. /\ world \in Worlds /\ h \in HandlerSet /\ w \in Seq(Unit) /\ v \in ServerSet /\ k \in RelaySet
      /\ SessionOK(world, l, h, w, v, k)
  BY <1>1, SessionTypes
<1>3. l \in Live \cup {"relay"} /\ l # "connect" /\ v.link = "open" /\ v.granted /\ realm' = realm
  BY <1>2, ZenonT(30) DEF ServerSpeaks, Linked, Closed, Live, ServerSet
<1>4. v.said \in Nat
  BY <1>2, ZenonT(30) DEF ServerSet
<1>5. d \in Unit /\ d.part = "data"
  BY <1>4 DEF Data, Unit
<1>6. server' = [server EXCEPT ![s] = v2]
  BY <1>1, ZenonT(30) DEF ServerSpeaks, ShakeTypes, ServerSet
<1>7. wire' = [wire EXCEPT ![s] = w \o <<d>>]
  <2>1. Append(w, d) = w \o <<d>>
    BY <1>2, <1>5
  <2>2. QED
    BY <2>1, ZenonT(30) DEF ServerSpeaks
<1>8. Moves(s, l, h, w \o <<d>>, v2, k)
  BY <1>1, <1>6, <1>7, Same DEF Moves
<1>9. v2 \in ServerSet /\ v2.asked = v.asked /\ v2.link = v.link /\ v2.granted = v.granted /\ v2.said = v.said + 1
  BY <1>2, <1>4 DEF ServerSet
<1>10. d = Data(v.said + 1)
  BY ZenonT(30)
<1> HIDE DEF d, v2
<1>11. SessionOK(world, l, h, w \o <<d>>, v2, k)
  BY <1>2, <1>3, <1>5, <1>9, <1>10, SpeaksOK, ZenonT(30)
<1>12. h.inbuf \in Seq(Unit) /\ <<d>> \in Seq(Unit) /\ <<d>>[1] = d
  BY <1>2, <1>5 DEF HandlerSet
<1>13. w \o <<d>> \in Seq(Unit) /\ h.inbuf \o (w \o <<d>>) = u \o <<d>> /\ u \in Seq(Unit)
  <2> DEFINE b == h.inbuf
             e == <<d>>
  <2>1. b \in Seq(Unit) /\ w \in Seq(Unit) /\ e \in Seq(Unit)
    BY <1>2, <1>12
  <2> HIDE DEF b, e, w
  <2>2. b \o w \in Seq(Unit) /\ w \o e \in Seq(Unit)
    BY <2>1, Joined2
  <2>3. Associates(b, w, e)
    BY <2>1, JoinAssociates, ZenonT(30)
  <2>4. QED
    BY <2>2, <2>3, ZenonT(30) DEF b, e, Associates
<1> HIDE DEF u
<1>14. /\ u = <<>> => (u \o <<d>>)[1] = d
       /\ u # <<>> => (u \o <<d>>)[1] = u[1]
  <2> DEFINE e == <<d>>
  <2>1. u \in Seq(Unit) /\ e \in Seq(Unit)
    BY <1>12, <1>13
  <2> HIDE DEF e
  <2>2. /\ u # <<>> => (u \o e)[1] = u[1]
        /\ u = <<>> => u \o e = e
    BY <2>1, FirstKept
  <2>3. QED
    BY <1>12, <2>2, ZenonT(30) DEF e
<1>15. Open(l, h, u \o <<d>>) => Open(l, h, u) /\ (u \o <<d>>)[1] = u[1]
  BY <1>5, <1>14, ZenonT(30) DEF Open
<1>16. Sent(h, v2) = Sent(h, v) /\ Held(s) = u
  BY <1>9 DEF Sent, Held, u
<1>17. world.known /\ l = "answer" /\ h.before => h.scheme = "Digest"
  BY <1>1, ZenonT(30) DEF ShakeInv, DigestInv, Persists, Live
<1>18. Follows(l, h, Held(s), v, l, h, h.inbuf \o (w \o <<d>>), v2)
  BY <1>13, <1>15, <1>16, <1>17, ZenonT(30) DEF Follows
<1>19. world.known => l # "refused"
  BY <1>3, ZenonT(30) DEF Live
<1>20. l \in Places
  BY <1>3, ZenonT(30) DEF Places
<1>21. QED
  BY <1>2, <1>3, <1>8, <1>9, <1>11, <1>13, <1>18, <1>19, <1>20, Move, ZenonT(30)

\* The server's side ends.
LEMMA ServerEndsStep ==
    ASSUME ShakeInv, NEW s \in TcpFlows, ServerEnds(s), UNCHANGED <<world, at, handler, digest, relay>>
    PROVE  ShakeInv'
<1> DEFINE h == handler[s]
           v == server[s]
           w == wire[s]
           k == relay[s]
           l == at[s]
<1>1. StreamInv /\ ShakeTypes
  BY ZenonT(30) DEF ShakeInv, StreamInv
<1>2. /\ world \in Worlds /\ h \in HandlerSet /\ w \in Seq(Unit) /\ v \in ServerSet /\ k \in RelaySet
      /\ SessionOK(world, l, h, w, v, k)
  BY <1>1, SessionTypes, ZenonT(30)
<1>3. l \in Live \cup {"relay"} /\ l # "connect" /\ v.link = "open" /\ realm' = realm
  BY <1>2, ZenonT(30) DEF ServerEnds, Linked, Closed, Live, ServerSet
<1>4. PICK e \in {"eof", "reset"} :
          /\ server' = [server EXCEPT ![s].link = e]
          /\ wire' = IF e = "reset" THEN [wire EXCEPT ![s] = <<>>] ELSE wire
  BY ZenonT(30) DEF ServerEnds
<1> DEFINE v2 == [v EXCEPT !.link = e]
           x == IF e = "reset" THEN <<>> ELSE w
<1>5. server' = [server EXCEPT ![s] = v2]
  BY <1>1, <1>4 DEF ShakeTypes, ServerSet
<1>6. wire' = [wire EXCEPT ![s] = x]
  BY <1>1, <1>4, Same, ZenonT(30)
<1>7. Moves(s, l, h, x, v2, k)
  BY <1>1, <1>5, <1>6, Same DEF Moves
<1>8. v2 \in ServerSet /\ v2.asked = v.asked /\ v2.link = e /\ v2.granted = v.granted /\ v2.said = v.said
  BY <1>2 DEF ServerSet
<1>9. x \in Seq(Unit) /\ ((v2.link = "eof" /\ x = w) \/ (v2.link = "reset" /\ x = <<>>))
  <2>1. <<>> \in Seq(Unit)
    BY EmptySeq, ZenonT(30)
  <2>2. CASE e = "reset"
    <3>1. x = <<>>
      BY <2>2, ZenonT(30)
    <3>2. QED
      BY <1>8, <2>1, <2>2, <3>1
  <2>3. CASE e = "eof"
    <3>1. x = w
      BY <2>3
    <3>2. w \in Seq(Unit) /\ v2.link = e
      BY <1>2, <1>8, ZenonT(30)
    <3> HIDE DEF x, v2, w
    <3>3. QED
      BY <2>3, <3>1, <3>2
  <2>4. QED
    BY <2>2, <2>3
<1> HIDE DEF v2, x
<1>10. SessionOK(world, l, h, x, v2, k)
  BY <1>2, <1>3, <1>8, <1>9, ServerEndsOK, ZenonT(30)
<1>11. h.inbuf \in Seq(Unit)
  BY <1>2 DEF HandlerSet
<1>12. h.inbuf \o x # <<>> => h.inbuf \o w # <<>> /\ (h.inbuf \o x)[1] = (h.inbuf \o w)[1]
  <2> DEFINE b == h.inbuf
  <2>1. CASE x = w
    BY <2>1, ZenonT(30)
  <2>2. CASE x = <<>>
    <3>1. b \o x = b
      BY <1>11, <2>2, JoinedEmpty
    <3> HIDE DEF b
    <3>2. b \in Seq(Unit) /\ w \in Seq(Unit)
      BY <1>2, <1>11 DEF b
    <3> HIDE DEF w
    <3>3. b # <<>> => b \o w # <<>> /\ (b \o w)[1] = b[1]
      BY <3>2, FirstKept
    <3>4. QED
      BY <3>1, <3>3, ZenonT(30) DEF b
  <2>3. QED
    BY <1>9, <2>1, <2>2, ZenonT(30)
<1>13. Sent(h, v2) = Sent(h, v) /\ Held(s) = h.inbuf \o w
  BY <1>8, ZenonT(30) DEF Sent, Held
<1>14. world.known /\ l = "answer" /\ h.before => h.scheme = "Digest"
  BY <1>1 DEF ShakeInv, DigestInv, Persists, Live
<1>15. Follows(l, h, Held(s), v, l, h, h.inbuf \o x, v2)
  <2>1. Open(l, h, h.inbuf \o x) => Open(l, h, Held(s)) /\ (h.inbuf \o x)[1] = Held(s)[1]
    BY <1>12, <1>13, ZenonT(30) DEF Open
  <2>2. QED
    BY <1>13, <1>14, <2>1, ZenonT(30) DEF Follows
<1>16. l \in Places /\ l # "refused"
  BY <1>3, ZenonT(30) DEF Places, Live
<1>17. QED
  BY <1>2, <1>3, <1>7, <1>8, <1>9, <1>10, <1>15, <1>16, Move, ZenonT(30)

\* What the server may reply.
LEMMA RepliesFacts ==
    ASSUME ShakeTypes, NEW q \in Query, NEW r \in Replies(q)
    PROVE  /\ r \in Reply /\ r.name \in ReplyNames(q.name)
           /\ r.name = "407" =>
                 /\ q.name = "CONNECT" /\ ~ Proven(q.auth) /\ r.nonce = realm.issued + 1
                 /\ r.scheme = "Digest" =>
                       world.auth = "digest" /\ r.stale = (q.auth.by = "Digest" /\ q.auth.nonce \notin realm.valid)
<1>1. q.name \in {"hello4", "methods", "password", "connect", "CONNECT"}
  BY ZenonT(30) DEF Query
<1>2. CASE q.name = "methods"
  <2>1. PICK m \in {"NoAuth", "UserPass", "other"} : r = [name |-> m]
    BY <1>2, ZenonT(30) DEF Replies
  <2>2. r.name = m /\ r \in Reply
    BY <2>1, ZenonT(30) DEF Reply
  <2>3. r.name # "407" /\ r.name \in ReplyNames(q.name)
    BY <1>2, <2>1, <2>2 DEF ReplyNames
  <2>4. r \in Reply
    BY <2>2, ZenonT(30)
  <2>5. QED
    BY <2>3, <2>4
<1>3. CASE q.name \in {"hello4", "password", "connect"}
  <2>1. r \in {[name |-> "granted"], [name |-> "rejected"]}
    BY <1>3, ZenonT(30) DEF Replies
  <2>2. r \in Reply
    BY <2>1 DEF Reply
  <2>3. r.name # "407" /\ r.name \in ReplyNames(q.name)
    BY <1>3, <2>1 DEF ReplyNames
  <2>4. QED
    BY <2>2, <2>3, ZenonT(30)
<1>4. CASE q.name = "CONNECT" /\ Proven(q.auth)
  BY <1>4 DEF Replies, Reply, ReplyNames
<1>5. CASE q.name = "CONNECT" /\ ~ Proven(q.auth)
  <2>1. realm.issued + 1 \in Nat
    BY DEF ShakeTypes
  <2>2. world.forms \subseteq [form : {"length", "close", "none", "chunked"}, length : Nat]
    BY HandshakeAssumption, ZenonT(30) DEF ShakeTypes
  <2>3. ASSUME NEW x \in {"Basic", "Digest"}, NEW y \in BOOLEAN, r \in Challenges(x, y)
        PROVE  r \in Challenge /\ r.name = "407" /\ r.nonce = realm.issued + 1 /\ r.scheme = x /\ r.stale = y
    <3>1. PICK f \in world.forms :
             r = [name |-> "407", scheme |-> x, nonce |-> realm.issued + 1, stale |-> y, form |-> f.form, length |-> f.length]
      BY <2>3, ZenonT(30) DEF Challenges
    <3>2. f.form \in {"length", "close", "none", "chunked"} /\ f.length \in Nat
      BY <2>2, ZenonT(30)
    <3>3. QED
      BY <2>1, <3>1, <3>2 DEF Challenge
  <2>4. r \in IF world.auth = "digest"
              THEN Challenges("Digest", q.auth.by = "Digest" /\ q.auth.nonce \notin realm.valid)
              ELSE Challenges("Basic", FALSE)
    BY <1>5, ZenonT(30) DEF Replies
  <2>5. CASE world.auth = "digest"
    <3> DEFINE y == q.auth.by = "Digest" /\ q.auth.nonce \notin realm.valid
    <3>1. y \in BOOLEAN /\ r \in Challenges("Digest", y)
      BY <2>4, <2>5
    <3> HIDE DEF y
    <3>2. r \in Challenge /\ r.name = "407" /\ r.nonce = realm.issued + 1 /\ r.scheme = "Digest" /\ r.stale = y
      BY <2>3, <3>1
    <3>3. QED
      BY <1>5, <2>5, <3>2 DEF Reply, ReplyNames, y
  <2>6. CASE world.auth # "digest"
    <3>1. r \in Challenges("Basic", FALSE)
      BY <2>4, <2>6, ZenonT(30)
    <3>2. r \in Challenge /\ r.name = "407" /\ r.nonce = realm.issued + 1 /\ r.scheme = "Basic"
      BY <2>3, <3>1, ZenonT(30)
    <3>3. QED
      BY <1>5, <3>2 DEF Reply, ReplyNames
  <2>7. QED
    BY <2>5, <2>6
<1>6. QED
  BY <1>1, <1>2, <1>3, <1>4, <1>5

\* A reply of the server keeps the nonces.
LEMMA ServerMove ==
    ASSUME ShakeTypes, DigestInv, NEW s \in TcpFlows, NEW l \in Places, NEW h \in HandlerSet, NEW w \in Seq(Unit),
           NEW v \in ServerSet, NEW k \in RelaySet, Moves(s, l, h, w, v, k), digest' = digest,
           NEW j \in Nat, realm'.issued = j, realm.issued <= j, realm'.seen \subseteq realm.seen \cup SentBy(s),
           Sent(h, v) = {},
           Open(l, h, h.inbuf \o w) =>
               j = realm.issued + 1 /\ (h.inbuf \o w)[1].of.nonce = j /\ realm'.seen \subseteq realm.seen,
           world.known => l # "refused" /\ Persists(digest, l, h, h.inbuf \o w, v)
    PROVE  DigestInv'
<1>1. /\ Held(s)' = h.inbuf \o w /\ SentBy(s)' = Sent(h, v)
      /\ \A t \in TcpFlows \ {s} : Held(t)' = Held(t) /\ SentBy(t)' = SentBy(t)
      /\ \A n : Posed(s, n)' <=> Open(l, h, h.inbuf \o w) /\ (h.inbuf \o w)[1].of.nonce = n
      /\ \A t \in TcpFlows \ {s} : \A n : Posed(t, n)' <=> Posed(t, n)
  BY HeldMove, ZenonT(30)
<1>2. /\ at'[s] = l /\ handler'[s] = h /\ server'[s] = v /\ world' = world
      /\ \A t \in TcpFlows \ {s} : at'[t] = at[t] /\ handler'[t] = handler[t] /\ server'[t] = server[t]
  BY MoveEffect
<1>3. \A t \in TcpFlows : SentBy(t)' \subseteq SentBy(t) /\ (t = s => SentBy(t)' = {})
  BY <1>1, ZenonT(30)
<1>4. realm.issued \in Nat /\ digest.nonce \in Nat /\ digest.nonce <= realm.issued
  BY ZenonT(30) DEF ShakeTypes, DigestInv
<1>5. \A a \in Answer : Made(digest, realm, a) => Made(digest, realm', a) /\ a.nonce <= realm.issued
  <2>1. ASSUME NEW a \in Answer, Made(digest, realm, a) PROVE a.nonce <= j /\ a.nonce <= realm.issued
    BY <1>4, <2>1 DEF Made, Answer
  <2>2. QED
    BY <2>1, ZenonT(30) DEF Made
<1>6. \A t \in TcpFlows : \A a \in SentBy(t) : a \in Answer /\ Made(digest, realm, a)
  BY SentTypes, ZenonT(30) DEF DigestInv, AnswersOnce
<1>7. \A a \in realm.seen : a \in Answer /\ Made(digest, realm, a)
  BY ZenonT(30) DEF DigestInv, ShakeTypes
<1>8. \A a \in realm'.seen : a \in Answer /\ Made(digest, realm, a)
  BY <1>6, <1>7, ZenonT(30)
<1>9. ASSUME NEW t \in TcpFlows PROVE AnswersOnce(t)'
  <2>1. AnswersOnce(t)
    BY ZenonT(30) DEF DigestInv
  <2>2. ASSUME NEW a \in SentBy(t)'
        PROVE  /\ Made(digest', realm', a)
               /\ a.by = "Digest" => a \notin realm'.seen /\ \A t2 \in TcpFlows \ {t} : a \notin SentBy(t2)'
    <3>1. a \in SentBy(t) /\ t # s
      BY <1>3, <2>2, ZenonT(30)
    <3>2. /\ Made(digest, realm, a)
          /\ a.by = "Digest" => a \notin realm.seen /\ \A t2 \in TcpFlows \ {t} : a \notin SentBy(t2)
      BY <2>1, <3>1, ZenonT(30) DEF AnswersOnce
    <3>3. Made(digest', realm', a)
      BY <1>5, <1>6, <3>1, ZenonT(30)
    <3>4. a.by = "Digest" => a \notin realm'.seen
      BY <3>1, <3>2, ZenonT(30)
    <3>5. QED
      BY <1>3, <3>2, <3>3, <3>4, ZenonT(30)
  <2>3. QED
    BY <2>2, ZenonT(30) DEF AnswersOnce
<1>10. ASSUME NEW t \in TcpFlows, t # s PROVE ChallengeOnce(t)'
  <2>1. ChallengeOnce(t)
    BY ZenonT(30) DEF DigestInv
  <2>2. ASSUME NEW n \in Nat, Posed(t, n)'
        PROVE  /\ n \in 1 .. realm'.issued /\ n # digest'.nonce
               /\ \A a \in realm'.seen : a.nonce # n
               /\ \A t2 \in TcpFlows : \A a \in SentBy(t2)' : a.nonce # n
               /\ \A t2 \in TcpFlows \ {t} : ~ Posed(t2, n)'
    <3>1. Posed(t, n)
      BY <1>1, <1>10, <2>2, ZenonT(30)
    <3>2. /\ n \in 1 .. realm.issued /\ n # digest.nonce
          /\ \A a \in realm.seen : a.nonce # n
          /\ \A t2 \in TcpFlows : \A a \in SentBy(t2) : a.nonce # n
          /\ \A t2 \in TcpFlows \ {t} : ~ Posed(t2, n)
      BY <2>1, <3>1, ZenonT(30) DEF ChallengeOnce
    <3>3. n \in 1 .. j /\ n # realm.issued + 1
      BY <1>4, <3>2
    <3>4. \A a \in realm'.seen : a.nonce # n
      BY <3>2, ZenonT(30)
    <3>5. \A t2 \in TcpFlows \ {t} : ~ Posed(t2, n)'
      BY <1>1, <3>2, <3>3, ZenonT(30)
    <3>6. QED
      BY <1>3, <3>2, <3>3, <3>4, <3>5, ZenonT(30)
  <2>3. QED
    BY <2>2, ZenonT(30) DEF ChallengeOnce
<1>11. ChallengeOnce(s)'
  <2>1. ASSUME NEW n \in Nat, Posed(s, n)'
        PROVE  /\ n \in 1 .. realm'.issued /\ n # digest'.nonce
               /\ \A a \in realm'.seen : a.nonce # n
               /\ \A t2 \in TcpFlows : \A a \in SentBy(t2)' : a.nonce # n
               /\ \A t2 \in TcpFlows \ {s} : ~ Posed(t2, n)'
    <3>1. n = j /\ j = realm.issued + 1 /\ realm'.seen \subseteq realm.seen
      BY <1>1, <2>1, ZenonT(30)
    <3>2. n \in 1 .. j /\ n # digest.nonce /\ \A m \in Nat : m <= realm.issued => m # n
      <4>1. n = realm.issued + 1
        BY <3>1, ZenonT(30)
      <4>2. n \in 1 .. n /\ \A m \in Nat : m <= realm.issued => m # n
        BY <1>4, <4>1, NextNumber, ZenonT(30)
      <4>3. QED
        BY <1>4, <3>1, <4>2, ZenonT(30)
    <3>3. \A a \in Answer : Made(digest, realm, a) => a.nonce # n
      BY <1>5, <3>2, ZenonT(30) DEF Answer
    <3>4. \A t2 \in TcpFlows \ {s} : ~ Posed(t2, n)
      <4>1. ASSUME NEW t2 \in TcpFlows \ {s}, Posed(t2, n) PROVE FALSE
        <5>1. n \in 1 .. realm.issued
          BY <4>1, ZenonT(30) DEF DigestInv, ChallengeOnce
        <5>2. QED
          BY <1>4, <3>1, <5>1
      <4>2. QED
        BY <4>1
    <3>5. QED
      BY <1>1, <1>3, <1>6, <1>8, <3>2, <3>3, <3>4, ZenonT(30)
  <2>2. QED
    BY <2>1, ZenonT(30) DEF ChallengeOnce
<1>12. ASSUME world'.known, NEW t \in TcpFlows
       PROVE  at'[t] # "refused" /\ Persists(digest', at'[t], handler'[t], Held(t)', server'[t])
  <2>1. CASE t = s
    <3>1. at'[t] = l /\ handler'[t] = h /\ Held(t)' = h.inbuf \o w /\ server'[t] = v /\ world.known
      BY <1>1, <1>2, <1>12, <2>1, ZenonT(30)
    <3>2. QED
      BY <3>1, ZenonT(30)
  <2>2. CASE t # s
    <3>1. at[t] # "refused" /\ Persists(digest, at[t], handler[t], Held(t), server[t])
      BY <1>2, <1>12 DEF DigestInv
    <3>2. QED
      BY <1>1, <1>2, <2>2, <3>1, ZenonT(30)
  <2>3. QED
    BY <2>1, <2>2
<1>13. digest'.nonce <= realm'.issued /\ \A a \in realm'.seen : Made(digest', realm', a)
  <2>1. digest.nonce <= j
    BY <1>4
  <2>2. QED
    BY <1>5, <1>8, <2>1, ZenonT(30)
<1>14. QED
  BY <1>9, <1>10, <1>11, <1>12, <1>13, ZenonT(30) DEF DigestInv

\* The server replies to a request.
LEMMA ServerAnswersStep ==
    ASSUME ShakeInv, NEW s \in TcpFlows, ServerAnswers(s), UNCHANGED <<world, at, handler, digest, relay>>
    PROVE  ShakeInv'
<1> DEFINE h == handler[s]
           v == server[s]
           w == wire[s]
           k == relay[s]
           l == at[s]
           q == v.asked[1]
           u == h.inbuf \o w
<1>1. StreamInv /\ ShakeTypes /\ DigestInv
  BY ZenonT(30) DEF ShakeInv, StreamInv
<1>2. /\ world \in Worlds /\ h \in HandlerSet /\ w \in Seq(Unit) /\ v \in ServerSet /\ k \in RelaySet
      /\ SessionOK(world, l, h, w, v, k)
  BY <1>1, SessionTypes, ZenonT(30)
<1>3. l \in Live \cup {"relay"} /\ l # "connect" /\ v.link = "open" /\ v.asked # <<>>
  BY <1>2, ZenonT(30) DEF ServerAnswers, Linked, Closed, Live, ServerSet
<1>4. /\ l \in {"write", "read", "change"} /\ h.state \in Waiting
      /\ \/ Unanswered(Request(world.proxy, h.state), h, u, v)
         \/ Blocked(Request(world.proxy, h.state), u, v)
      /\ Len(v.asked) = 1 /\ h.out = <<>>
  BY <1>2, <1>3, AskedPlace
<1>5. v.asked \in Seq(Query) /\ q \in Query /\ h.inbuf \in Seq(Unit)
  <2>1. v.asked \in Seq(Query) /\ h.inbuf \in Seq(Unit)
    BY <1>2, ZenonT(30) DEF ServerSet, HandlerSet
  <2>2. QED
    BY <1>4, <2>1, EmptySeq
<1>6. PICK r \in Replies(q), e \in {"open", "eof"} :
         /\ wire' = [wire EXCEPT ![s] = w \o Pieces(r)]
         /\ server' = [server EXCEPT
                ![s].asked = Tail(@), ![s].link = e,
                ![s].granted = r.name = "200" \/ (r.name = "granted" /\ q.name # "password")]
         /\ realm' = IF q.name # "CONNECT" THEN realm
                     ELSE IF r.name = "407" /\ r.scheme = "Digest"
                     THEN [realm EXCEPT !.issued = @ + 1, !.valid = @ \cup {r.nonce}]
                     ELSE [realm EXCEPT !.seen = @ \cup {q.auth}]
  BY ZenonT(30) DEF ServerAnswers
<1> DEFINE f == r.name = "200" \/ (r.name = "granted" /\ q.name # "password")
           v2 == [v EXCEPT !.asked = Tail(v.asked), !.link = e, !.granted = f]
           p == Pieces(r)
<1>7. server' = [server EXCEPT ![s] = v2]
  <2>2. server' = [server EXCEPT ![s].asked = Tail(@), ![s].link = e, ![s].granted = f]
    BY <1>6, ZenonT(30)
  <2> HIDE DEF f
  <2>3. QED
    <3>1. server \in [TcpFlows -> ServerSet]
      BY <1>1, ZenonT(30) DEF ShakeTypes
    <3>2. ASSUME NEW a, NEW b, NEW c
          PROVE  [server EXCEPT ![s].asked = a, ![s].link = b, ![s].granted = c]
                    = [server EXCEPT ![s] = [server[s] EXCEPT !.asked = a, !.link = b, !.granted = c]]
      BY <3>1, ZenonT(30) DEF ServerSet
    <3>3. server' = [server EXCEPT ![s].asked = Tail(v.asked), ![s].link = e, ![s].granted = f]
      BY <2>2, <3>1
    <3>4. QED
      BY <3>2, <3>3, ZenonT(30)
<1>8. /\ r \in Reply /\ r.name \in ReplyNames(q.name)
      /\ r.name = "407" =>
            /\ q.name = "CONNECT" /\ ~ Proven(q.auth) /\ r.nonce = realm.issued + 1
            /\ r.scheme = "Digest" =>
                  world.auth = "digest" /\ r.stale = (q.auth.by = "Digest" /\ q.auth.nonce \notin realm.valid)
  BY <1>1, <1>5, RepliesFacts, ZenonT(30)
<1>9. Tail(v.asked) = <<>>
  BY <1>4, <1>5, TailOfOne, ZenonT(30)
<1>10. /\ v2 \in ServerSet /\ v2.asked = Tail(v.asked) /\ v2.asked = <<>> /\ v2.link # "reset" /\ v2.said = v.said
       /\ v2.granted = (r.name = "200" \/ (r.name = "granted" /\ q.name # "password"))
  <2>0. f \in BOOLEAN
    BY Zenon
  <2> HIDE DEF f
  <2>1. v.said \in Nat /\ Tail(v.asked) \in Seq(Query) /\ f \in BOOLEAN /\ e \in {"open", "eof", "reset"}
    <3>1. v.said \in Nat
      BY <1>2, ZenonT(30) DEF ServerSet
    <3>2. Tail(v.asked) \in Seq(Query)
      BY <1>9, EmptySeq, ZenonT(30)
    <3>3. e \in {"open", "eof", "reset"}
      BY <1>6, ZenonT(30)
    <3>4. QED
      BY <2>0, <3>1, <3>2, <3>3
  <2>2. v2 \in ServerSet /\ v2.asked = Tail(v.asked) /\ v2.link = e /\ v2.granted = f /\ v2.said = v.said
    BY <1>2, <2>1, ZenonT(30) DEF ServerSet
  <2> HIDE DEF v2
  <2>3. v2.link # "reset"
    BY <1>6, <2>2
  <2>4. QED
    BY <1>9, <2>2, <2>3 DEF f
<1>11. p \in Seq(Unit) /\ p # <<>> /\ p[1] = [of |-> r, part |-> "first"]
  <2>1. p \in Seq(Unit) /\ Opens(r, p) /\ Len(p) \in Nat /\ Len(p) = IF r.name = "407" THEN 2 + r.length ELSE 2
    BY <1>8, PiecesFacts
  <2>2. r.name = "407" => r.length \in Nat
    BY <1>8 DEF Reply, Challenge
  <2> HIDE DEF p
  <2>3. 1 \in 1 .. Len(p) /\ Len(p) # 0
    BY <2>1, <2>2
  <2>4. p # <<>> /\ p[1] = Place(r, 1)
    BY <2>1, <2>3, EmptySeq, ZenonT(30) DEF Opens
  <2>5. QED
    BY <2>1, <2>4 DEF Place
<1>12. Moves(s, l, h, w \o p, v2, k)
  BY <1>1, <1>6, <1>7, Same, ZenonT(30) DEF Moves
<1> HIDE DEF v2, p, f
<1>13. w \o p \in Seq(Unit) /\ h.inbuf \o (w \o p) = u \o p /\ u \in Seq(Unit)
  <2> DEFINE b == h.inbuf
  <2>1. b \in Seq(Unit) /\ w \in Seq(Unit) /\ p \in Seq(Unit)
    BY <1>2, <1>5, <1>11
  <2> HIDE DEF b, w
  <2>2. b \o w \in Seq(Unit) /\ w \o p \in Seq(Unit)
    BY <2>1, Joined2
  <2>3. Associates(b, w, p)
    BY <2>1, JoinAssociates, ZenonT(30)
  <2>4. QED
    BY <2>2, <2>3, ZenonT(30) DEF b, Associates
<1>14. SessionOK(world, l, h, w \o p, v2, k)
  BY <1>2, <1>3, <1>8, <1>10, AnswersOK, ZenonT(30) DEF p
<1>15. Sent(h, v2) = {} /\ (q.name = "CONNECT" => q.auth \in SentBy(s) /\ q.auth \in Answer)
  <2>1. AnswersOf(<<>>) = {}
    BY DEF AnswersOf
  <2>2. Sent(h, v2) = {}
    BY <1>4, <1>10, <2>1, ZenonT(30) DEF Sent
  <2>3. q.name = "CONNECT" => q.auth \in AnswersOf(v.asked)
    BY <1>4 DEF AnswersOf
  <2>4. q.name = "CONNECT" => q.auth \in SentBy(s)
    BY <2>3, ZenonT(30) DEF SentBy, Sent
  <2>5. QED
    BY <1>1, <2>2, <2>4, SentTypes, ZenonT(30)
<1>16. u # <<>> => u[1].part = "body"
  <2>1. CASE Unanswered(Request(world.proxy, h.state), h, u, v)
    <3> HIDE DEF u
    <3>0. u # <<>> => Len(u) \in Nat /\ Len(u) # 0
      BY <1>13, EmptySeq
    <3>1. u # <<>> => 1 \in 1 .. Len(u)
      BY <3>0
    <3>2. QED
      BY <2>1, <3>1, ZenonT(30) DEF Unanswered, Bodies
  <2>2. CASE Blocked(Request(world.proxy, h.state), u, v)
    BY <2>2, ZenonT(30) DEF Blocked
  <2>3. QED
    BY <1>4, <2>1, <2>2, ZenonT(30)
<1> HIDE DEF u
<1>17. Open(l, h, u \o p) => r.name = "407" /\ r.scheme = "Digest" /\ (u \o p)[1].of = r
  <2>1. /\ u # <<>> => (u \o p)[1] = u[1]
        /\ u = <<>> => u \o p = p
    BY <1>11, <1>13, FirstKept
  <2>2. QED
    BY <1>11, <1>16, <2>1 DEF Open
<1>18. Open(l, h, u \o p) => q.name = "CONNECT" /\ realm'.issued = realm.issued + 1 /\ realm'.seen = realm.seen
                             /\ (u \o p)[1].of.nonce = realm'.issued
  BY <1>1, <1>6, <1>8, <1>17, ZenonT(30) DEF ShakeTypes
<1>19. /\ realm' \in [issued : Nat, valid : SUBSET Nat, seen : SUBSET Answer, expired : Nat]
       /\ realm'.issued \in Nat /\ realm.issued <= realm'.issued
       /\ realm'.seen \subseteq realm.seen \cup SentBy(s)
  <2>1. realm \in [issued : Nat, valid : SUBSET Nat, seen : SUBSET Answer, expired : Nat]
    BY <1>1 DEF ShakeTypes
  <2>2. CASE q.name # "CONNECT"
    BY <1>6, <2>1, <2>2
  <2>3. CASE q.name = "CONNECT" /\ r.name = "407" /\ r.scheme = "Digest"
    <3>1. realm' = [realm EXCEPT !.issued = @ + 1, !.valid = @ \cup {r.nonce}] /\ r.nonce = realm.issued + 1
      BY <1>6, <1>8, <2>3
    <3>2. realm.issued \in Nat /\ realm.issued + 1 \in Nat /\ realm.issued <= realm.issued + 1
      BY <2>1
    <3> DEFINE c == realm.issued + 1
               d == realm.valid \cup {c}
    <3>3. realm' = [realm EXCEPT !.issued = c, !.valid = d] /\ c \in Nat /\ d \in SUBSET Nat /\ realm.issued <= c
      BY <2>1, <3>1, <3>2, ZenonT(30)
    <3> HIDE DEF c, d
    <3>4. realm' \in [issued : Nat, valid : SUBSET Nat, seen : SUBSET Answer, expired : Nat]
      BY <2>1, <3>3, ZenonT(30)
    <3>5. realm'.issued = c /\ realm'.seen = realm.seen
      BY <2>1, <3>3
    <3>6. QED
      BY <3>3, <3>4, <3>5, ZenonT(30)
  <2>4. CASE q.name = "CONNECT" /\ ~ (r.name = "407" /\ r.scheme = "Digest")
    <3>1. realm' = [realm EXCEPT !.seen = @ \cup {q.auth}]
      BY <1>6, <2>4
    <3>2. QED
      BY <1>15, <2>1, <2>4, <3>1
  <2>5. QED
    BY <2>2, <2>3, <2>4
<1>20. StreamInv'
  <2>1. digest' \in [nonce : Nat, count : Nat] /\ l \in Places
    BY <1>1 DEF ShakeTypes
  <2>2. QED
    BY <1>1, <1>2, <1>10, <1>12, <1>13, <1>14, <1>19, <2>1, StreamMove, ZenonT(30)
<1>21. world.known => l # "refused" /\ Persists(digest, l, h, u \o p, v2)
  <2> SUFFICES ASSUME world.known PROVE l # "refused" /\ Persists(digest, l, h, u \o p, v2)
    OBVIOUS
  <2>1. Persists(digest, l, h, Held(s), v)
    BY <1>1 DEF DigestInv
  <2>2. l \in Live
    BY <1>4 DEF Live
  <2>3. ASSUME h.before, Open(l, h, u \o p) PROVE (u \o p)[1].of.stale
    <3>1. q.auth \in SentBy(s) /\ r.name = "407" /\ r.scheme = "Digest"
      BY <1>15, <1>17, <1>18, <2>3
    <3>2. q.auth.by = "Digest"
      BY <2>1, <2>2, <2>3, <3>1, ZenonT(30) DEF Persists, SentBy
    <3>3. q.auth \notin realm.seen
      BY <1>1, <3>1, <3>2, ZenonT(30) DEF DigestInv, AnswersOnce
    <3>4. world.auth = "digest" /\ ~ Proven(q.auth) /\ r.stale = (q.auth.by = "Digest" /\ q.auth.nonce \notin realm.valid)
      BY <1>8, <3>1
    <3>5. q.auth.nonce \notin realm.valid
      BY <3>2, <3>3, <3>4, ZenonT(30) DEF Proven
    <3>6. r.stale
      BY <3>2, <3>4, <3>5, ZenonT(30)
    <3>7. QED
      BY <1>17, <2>3, <3>6, ZenonT(30)
  <2>4. l # "refused" /\ l # "answer"
    BY <1>4
  <2>5. QED
    BY <1>15, <2>1, <2>2, <2>3, <2>4, ZenonT(30) DEF Persists
<1>22. DigestInv'
  <2> DEFINE j == realm'.issued
  <2>1. /\ j \in Nat /\ realm.issued <= j /\ digest' = digest /\ l \in Places
        /\ Open(l, h, h.inbuf \o (w \o p)) =>
              j = realm.issued + 1 /\ (h.inbuf \o (w \o p))[1].of.nonce = j /\ realm'.seen \subseteq realm.seen
        /\ world.known => l # "refused" /\ Persists(digest, l, h, h.inbuf \o (w \o p), v2)
    <3>1. l \in Places
      BY <1>1 DEF ShakeTypes
    <3>2. QED
      BY <1>13, <1>18, <1>19, <1>21, <3>1, ZenonT(30)
  <2>2. realm'.issued = j
    BY ZenonT(30)
  <2> HIDE DEF j
  <2>3. QED
    BY <1>1, <1>2, <1>10, <1>12, <1>13, <1>15, <1>19, <2>1, <2>2, ServerMove, ZenonT(30)
<1>23. QED
  BY <1>20, <1>22 DEF ShakeInv

\* The invariant is about the nonces issued and the answers seen only.
LEMMA RealmKept ==
    ASSUME ShakeInv, UNCHANGED <<world, at, handler, digest, relay, wire, server>>,
           realm' \in [issued : Nat, valid : SUBSET Nat, seen : SUBSET Answer, expired : Nat],
           realm'.issued = realm.issued, realm'.seen = realm.seen
    PROVE  ShakeInv'
<1>1. StreamInv /\ ShakeTypes /\ DigestInv
  BY ZenonT(30) DEF ShakeInv, StreamInv
<1>2. StreamInv'
  <2>1. ShakeTypes'
    BY <1>1 DEF ShakeTypes
  <2>2. ASSUME NEW s \in TcpFlows
        PROVE  SessionOK(world', at'[s], handler'[s], wire'[s], server'[s], relay'[s])
    BY <1>1 DEF StreamInv
  <2>3. QED
    BY <2>1, <2>2 DEF StreamInv
<1>3. ASSUME NEW t \in TcpFlows
      PROVE  Held(t)' = Held(t) /\ SentBy(t)' = SentBy(t) /\ \A n : Posed(t, n)' <=> Posed(t, n)
  <2>1. Held(t)' = Held(t) /\ SentBy(t)' = SentBy(t)
    BY ZenonT(30) DEF Held, SentBy
  <2>2. at'[t] = at[t] /\ handler'[t] = handler[t]
    BY ZenonT(30)
  <2>3. QED
    BY <2>1, <2>2, ZenonT(30) DEF Posed
<1>4. \A a : Made(digest', realm', a) <=> Made(digest, realm, a)
  BY ZenonT(30) DEF Made
<1>5. ASSUME NEW t \in TcpFlows PROVE AnswersOnce(t)' /\ ChallengeOnce(t)'
  <2>1. AnswersOnce(t) /\ ChallengeOnce(t)
    BY <1>1 DEF DigestInv
  <2>2. AnswersOnce(t)'
    <3>1. ASSUME NEW a \in SentBy(t)'
          PROVE  /\ Made(digest', realm', a)
                 /\ a.by = "Digest" => a \notin realm'.seen /\ \A t2 \in TcpFlows \ {t} : a \notin SentBy(t2)'
      <4>1. a \in SentBy(t)
        BY <1>3, <3>1
      <4>2. /\ Made(digest, realm, a)
            /\ a.by = "Digest" => a \notin realm.seen /\ \A t2 \in TcpFlows \ {t} : a \notin SentBy(t2)
        BY <2>1, <4>1, ZenonT(30) DEF AnswersOnce
      <4>3. Made(digest', realm', a)
        BY <1>4, <4>2
      <4>4. QED
        BY <1>3, <4>2, <4>3, ZenonT(30)
    <3>2. QED
      BY <3>1, ZenonT(30) DEF AnswersOnce
  <2>3. ChallengeOnce(t)'
    BY <1>3, <2>1, ZenonT(30) DEF ChallengeOnce
  <2>4. QED
    BY <2>2, <2>3, ZenonT(30)
<1>6. ASSUME world'.known, NEW t \in TcpFlows
      PROVE  at'[t] # "refused" /\ Persists(digest', at'[t], handler'[t], Held(t)', server'[t])
  BY <1>1, <1>3, <1>6, ZenonT(30) DEF DigestInv
<1>7. digest'.nonce <= realm'.issued /\ \A a \in realm'.seen : Made(digest', realm', a)
  BY <1>1, <1>4, ZenonT(30) DEF DigestInv
<1>8. DigestInv'
  BY <1>5, <1>6, <1>7, ZenonT(30) DEF DigestInv
<1>9. QED
  BY <1>2, <1>8 DEF ShakeInv

\* The server's nonces expire.
LEMMA NoncesExpireStep ==
    ASSUME ShakeInv, NoncesExpire, UNCHANGED world
    PROVE  ShakeInv'
<1>1. realm \in [issued : Nat, valid : SUBSET Nat, seen : SUBSET Answer, expired : Nat]
  BY ZenonT(30) DEF ShakeInv, StreamInv, ShakeTypes
<1>2. realm' = [realm EXCEPT !.valid = {}, !.expired = @ + 1]
  BY ZenonT(30) DEF NoncesExpire
<1>3. /\ realm' \in [issued : Nat, valid : SUBSET Nat, seen : SUBSET Answer, expired : Nat]
      /\ realm'.issued = realm.issued /\ realm'.seen = realm.seen
  <2> DEFINE n == realm.expired + 1
             e == {}
  <2>1. n \in Nat /\ e \in SUBSET Nat /\ realm' = [realm EXCEPT !.valid = e, !.expired = n]
    BY <1>1, <1>2
  <2> HIDE DEF n, e
  <2>2. QED
    BY <1>1, <2>1, ZenonT(30)
<1>4. QED
  BY <1>3, RealmKept DEF NoncesExpire

\* The invariant holds at the start.
LEMMA ShakeStarts ==
    ASSUME ShakeInit
    PROVE  ShakeInv
<1>1. /\ world \in Worlds /\ NewHandler \in HandlerSet /\ AnswersOf(NewHandler.out) = {}
      /\ NewHandler.inbuf = <<>> /\ NewHandler.client = <<>> /\ NewHandler.before = FALSE
      /\ Starts(world.proxy, NewHandler)
  BY NewHandlerFacts, ZenonT(30) DEF ShakeInit
<1>2. <<>> \in Seq(Unit) /\ <<>> \in Seq(Query) /\ Len(<<>>) = 0 /\ <<>> \o <<>> = <<>>
  <2>1. <<>> \in Seq(Unit) /\ <<>> \in Seq(Query) /\ Len(<<>>) = 0
    BY EmptySeq, ZenonT(30)
  <2>2. QED
    BY <2>1, JoinedEmpty
<1> DEFINE K == [pending |-> <<>>, given |-> <<>>, down |-> "emit", up |-> "copy"]
           g == world.proxy = "none"
           V == [asked |-> <<>>, link |-> "open", granted |-> g, said |-> 0]
<1>3. /\ at = [s \in TcpFlows |-> IF s \in world.active THEN "new" ELSE "idle"]
      /\ handler = [s \in TcpFlows |-> NewHandler]
      /\ digest = [nonce |-> 0, count |-> 0]
      /\ relay = [s \in TcpFlows |-> K]
      /\ wire = [s \in TcpFlows |-> <<>>]
      /\ server = [s \in TcpFlows |-> V]
      /\ realm = [issued |-> 0, valid |-> {}, seen |-> {}, expired |-> 0]
  BY ZenonT(30) DEF ShakeInit
<1>4. g \in BOOLEAN
  BY Zenon
<1>5. K \in RelaySet /\ K.pending = <<>> /\ K.given = <<>> /\ K.down = "emit"
  BY <1>2, ZenonT(30) DEF RelaySet
<1>6. V.asked = <<>> /\ V.link = "open" /\ V.said = 0 /\ V.granted = g
  BY ZenonT(30)
<1> HIDE DEF g
<1>7. V \in ServerSet
  BY <1>2, <1>4 DEF ServerSet
<1> HIDE DEF K, V
<1>8. ASSUME NEW s \in TcpFlows
      PROVE  /\ at[s] \in {"new", "idle"} /\ handler[s] = NewHandler /\ wire[s] = <<>> /\ server[s] = V /\ relay[s] = K
  BY <1>3, ZenonT(30)
<1>9. ShakeTypes
  <2>1. at \in [TcpFlows -> Places]
    BY <1>3, ZenonT(30) DEF Places
  <2>2. digest \in [nonce : Nat, count : Nat]
    BY <1>3, ZenonT(30)
  <2>3. realm \in [issued : Nat, valid : SUBSET Nat, seen : SUBSET Answer, expired : Nat]
    BY <1>3, ZenonT(30)
  <2>4. handler \in [TcpFlows -> HandlerSet]
    BY <1>1, <1>3, ZenonT(30)
  <2>5. wire \in [TcpFlows -> Seq(Unit)]
    BY <1>2, <1>3
  <2>6. server \in [TcpFlows -> ServerSet] /\ relay \in [TcpFlows -> RelaySet]
    BY <1>3, <1>5, <1>7, ZenonT(30)
  <2>7. QED
    BY <1>1, <2>1, <2>2, <2>3, <2>4, <2>5, <2>6, ZenonT(30) DEF ShakeTypes
<1>10. ASSUME NEW l \in {"new", "idle"} PROVE SessionOK(world, l, NewHandler, <<>>, V, K)
  <2>1. DataFrom(0, K.given) /\ Len(K.given) % 2 = 0
    <3>1. DataFrom(0, <<>>)
      BY <1>2 DEF DataFrom
    <3>2. Len(K.given) = 0
      BY <1>2, <1>5
    <3>3. QED
      BY <1>5, <3>1, <3>2
  <2>2. NotGiven(K)
    BY <1>5 DEF NotGiven
  <2>3. Untouched(world.proxy, NewHandler, <<>>, V)
    BY <1>1, <1>6, ZenonT(30) DEF Untouched, g
  <2>4. l \notin Live
    BY <1>10 DEF Live
  <2>5. QED
    BY <1>1, <1>10, <2>1, <2>2, <2>3, <2>4, ZenonT(30) DEF SessionOK
<1>11. StreamInv
  <2>1. ASSUME NEW s \in TcpFlows PROVE SessionOK(world, at[s], handler[s], wire[s], server[s], relay[s])
    BY <1>8, <1>10
  <2>2. QED
    BY <1>9, <2>1 DEF StreamInv
<1>12. ASSUME NEW s \in TcpFlows PROVE SentBy(s) = {} /\ \A n : ~ Posed(s, n)
  <2>1. AnswersOf(<<>>) = {}
    BY DEF AnswersOf
  <2>2. SentBy(s) = {}
    BY <1>1, <1>6, <1>8, <2>1, ZenonT(30) DEF SentBy, Sent
  <2>3. at[s] \notin Live
    BY <1>8 DEF Live
  <2>4. QED
    BY <2>2, <2>3, ZenonT(30) DEF Posed, Open
<1>13. ASSUME NEW s \in TcpFlows PROVE AnswersOnce(s) /\ ChallengeOnce(s)
  BY <1>12, ZenonT(30) DEF AnswersOnce, ChallengeOnce
<1>14. ASSUME NEW s \in TcpFlows PROVE at[s] # "refused" /\ Persists(digest, at[s], handler[s], Held(s), server[s])
  <2>1. at[s] # "refused" /\ at[s] \notin {"scheme", "answer"} /\ at[s] \notin Live
    BY <1>8 DEF Live
  <2>2. QED
    BY <2>1, ZenonT(30) DEF Persists, Again
<1>15. digest.nonce <= realm.issued /\ realm.seen = {}
  BY <1>3
<1>16. DigestInv
  BY <1>13, <1>14, <1>15, ZenonT(30) DEF DigestInv
<1>17. QED
  BY <1>11, <1>16, ZenonT(30) DEF ShakeInv

\* Every step keeps the invariant.
LEMMA ShakeStep ==
    ASSUME ShakeInv, [ShakeNext]_shakeVars
    PROVE  ShakeInv'
<1>1. ASSUME NEW s \in TcpFlows, TaskStep(s) PROVE ShakeInv'
  <2>1. UNCHANGED <<world, realm>>
    BY <1>1 DEF TaskStep
  <2>2. CASE NewSocks(s)
    BY <2>1, <2>2, NewSocksStep, ZenonT(30)
  <2>3. CASE CreateTcpStream(s)
    BY <2>1, <2>3, CreateTcpStreamStep, ZenonT(30)
  <2>4. CASE Write(s)
    BY <2>1, <2>4, WriteStep, ZenonT(30)
  <2>5. CASE Read(s)
    BY <2>1, <2>5, ReadStep, ZenonT(30)
  <2>6. CASE StateChange(s)
    BY <2>1, <2>6, StateChangeStep, ZenonT(30)
  <2>7. CASE Challenged(s)
    BY <2>1, <2>7, ChallengedStep, ZenonT(30)
  <2>8. CASE ChooseScheme(s)
    BY <2>1, <2>8, ChooseSchemeStep, ZenonT(30)
  <2>9. CASE SendTunnelRequest(s)
    BY <2>1, <2>9, SendTunnelRequestStep, ZenonT(30)
  <2>10. CASE Prefetch(s)
    BY <2>1, <2>10, PrefetchStep, ZenonT(30)
  <2>11. CASE Pump(s)
    BY <2>1, <2>11, PumpStep, ZenonT(30)
  <2>12. QED
    BY <1>1, <2>2, <2>3, <2>4, <2>5, <2>6, <2>7, <2>8, <2>9, <2>10, <2>11, ZenonT(30) DEF TaskStep
<1>2. ASSUME NEW s \in TcpFlows, Timeout(s) PROVE ShakeInv'
  BY <1>2, SetupTimesOutStep, ZenonT(30) DEF Timeout
<1>3. ASSUME NEW s \in TcpFlows, ServerAnswers(s) \/ ServerSpeaks(s) \/ ServerEnds(s),
             UNCHANGED <<world, at, handler, digest, relay>>
      PROVE  ShakeInv'
  <2>1. CASE ServerAnswers(s)
    BY <1>3, <2>1, ServerAnswersStep, ZenonT(30)
  <2>2. CASE ServerSpeaks(s)
    BY <1>3, <2>2, ServerSpeaksStep, ZenonT(30)
  <2>3. CASE ServerEnds(s)
    BY <1>3, <2>3, ServerEndsStep, ZenonT(30)
  <2>4. QED
    BY <1>3, <2>1, <2>2, <2>3, ZenonT(30)
<1>4. ASSUME NoncesExpire, UNCHANGED world PROVE ShakeInv'
  BY <1>4, NoncesExpireStep, ZenonT(30)
<1>5. ASSUME UNCHANGED shakeVars PROVE ShakeInv'
  <2>1. UNCHANGED <<world, at, handler, digest, relay, wire, server>> /\ realm' = realm
    BY <1>5 DEF shakeVars
  <2>2. realm \in [issued : Nat, valid : SUBSET Nat, seen : SUBSET Answer, expired : Nat]
    BY ZenonT(30) DEF ShakeInv, StreamInv, ShakeTypes
  <2>3. QED
    BY <2>1, <2>2, RealmKept, ZenonT(30)
<1>6. QED
  BY <1>1, <1>2, <1>3, <1>4, <1>5, ZenonT(30) DEF ShakeNext

\* What the client has been given is the server's data, once and in order.
LEMMA GivenInOrder ==
    ASSUME ShakeInv
    PROVE  Delivered
<1>1. ASSUME NEW s \in TcpFlows
      PROVE  LET given == relay[s].given IN
             /\ given = [i \in 1 .. Len(given) |-> Data(i)]
             /\ world.filter => Len(given) % 2 = 0
             /\ at[s] = "done" => Len(given) = server[s].said
  <2> DEFINE c == relay[s].given
  <2>1. /\ DataFrom(0, c) /\ (world.filter => Len(c) % 2 = 0)
        /\ at[s] = "done" => Len(c) = server[s].said
    BY ZenonT(30) DEF ShakeInv, StreamInv, SessionOK
  <2>2. c \in Seq(Unit)
    BY DEF ShakeInv, StreamInv, ShakeTypes, RelaySet
  <2> HIDE DEF c
  <2>3. \A i \in 1 .. Len(c) : c[i] = Data(i)
    <3>1. ASSUME NEW i \in 1 .. Len(c) PROVE 0 + i = i
      OBVIOUS
    <3>2. QED
      BY <2>1, <3>1 DEF DataFrom
  <2>4. c = [i \in 1 .. Len(c) |-> Data(i)]
    <3>1. c = [i \in 1 .. Len(c) |-> c[i]]
      BY <2>2
    <3>2. QED
      BY <2>3, <3>1
  <2>5. QED
    BY <2>1, <2>4, ZenonT(30) DEF c
<1>2. QED
  BY <1>1, ZenonT(30) DEF Delivered

-----------------------------------------------------------------------------
(* For any number of sessions, replies in any pieces, challenges of any    *)
(* length and reads of any size: the client is given the server's data     *)
(* once and in order, whole frames when DNS is filtered, and all of it     *)
(* when the session ends without an error.                                 *)
THEOREM DeliveredHolds == ShakeSpec => []Delivered
<1>1. ShakeInit => ShakeInv
  BY ShakeStarts, ZenonT(30)
<1>2. ShakeInv /\ [ShakeNext]_shakeVars => ShakeInv'
  BY ShakeStep, ZenonT(30)
<1>3. ShakeInv => Delivered
  BY GivenInOrder, ZenonT(30)
<1>4. QED
  BY <1>1, <1>2, <1>3, PTL DEF ShakeSpec

(* For any number of sessions that share the digest state, and any number  *)
(* of times the nonces expire: with the right credentials no session ends  *)
(* with "Bad credentials".                                                 *)
THEOREM NeverRefusedHolds == ShakeSpec => []NeverRefused
<1>1. ShakeInit => ShakeInv
  BY ShakeStarts, ZenonT(30)
<1>2. ShakeInv /\ [ShakeNext]_shakeVars => ShakeInv'
  BY ShakeStep, ZenonT(30)
<1>3. ShakeInv => NeverRefused
  BY ZenonT(30) DEF ShakeInv, DigestInv, NeverRefused
<1>4. QED
  BY <1>1, <1>2, <1>3, PTL DEF ShakeSpec
=============================================================================
