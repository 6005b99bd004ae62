----------------------------- MODULE SetupProofs -----------------------------
(***************************************************************************)
(* The invariant of the setup and the relay of TCP sessions, and what one  *)
(* step does to one session.  StreamInv says where every piece of a reply  *)
(* and of the server's data is; DigestInv says which nonces and counts     *)
(* have been used.  The lemmas take one session apart from the others:     *)
(* what a read, a complete reply, a challenge, the switch to the raw       *)
(* connection, a relayed piece or a word of the server makes of it.        *)
(***************************************************************************)
EXTENDS Handshake, TLAPS

(* The types.                                                              *)
Answer == [by : {"none", "Basic", "Digest"}, nonce : Nat, count : Nat]

Query == [name : {"hello4", "methods", "password", "connect"}] \cup [name : {"CONNECT"}, auth : Answer]

Challenge ==
    [name : {"407"}, scheme : {"Basic", "Digest"}, nonce : Nat, stale : BOOLEAN,
     form : {"length", "close", "none", "chunked"}, length : Nat]

Reply == [name : {"NoAuth", "UserPass", "other", "granted", "rejected", "200", "502"}] \cup Challenge

Unit == [of : Reply \cup [name : {"data"}, number : Nat], part : {"first", "end", "body", "data"}]

HandlerSet ==
    [state : {"ServerHello", "SendAuthData", "ReceiveAuthResponse", "SendRequest", "ReceiveResponse",
              "ExpectResponseHeaders", "ExpectResponse", "Reset", "Established"},
     inbuf : Seq(Unit), client : Seq(Unit), skip : Nat, before : BOOLEAN, scheme : {"Basic", "Digest"},
     out : Seq(Query)]

RelaySet ==
    [pending : Seq(Unit), given : Seq(Unit), down : {"emit", "read", "eof"}, up : {"copy", "eof"}]

ServerSet == [asked : Seq(Query), link : {"open", "eof", "reset"}, granted : BOOLEAN, said : Nat]

Live == {"connect", "write", "read", "change", "challenged", "scheme", "answer", "prefetch"}

Places == Live \cup {"idle", "new", "firstAnswer", "relay", "done", "failed", "refused"}

ShakeTypes ==
    /\ world \in Worlds
    /\ at \in [TcpFlows -> Places]
    /\ handler \in [TcpFlows -> HandlerSet]
    /\ digest \in [nonce : Nat, count : Nat]
    /\ relay \in [TcpFlows -> RelaySet]
    /\ wire \in [TcpFlows -> Seq(Unit)]
    /\ server \in [TcpFlows -> ServerSet]
    /\ realm \in [issued : Nat, valid : SUBSET Nat, seen : SUBSET Answer, expired : Nat]

-----------------------------------------------------------------------------
(* The data with the numbers after n.                                      *)
DataFrom(n, u) == \A i \in 1 .. Len(u) : u[i] = Data(n + i)

Bodies(u) == \A i \in 1 .. Len(u) : u[i].part = "body"

(* The place i of a stream that starts with reply r.                       *)
Place(r, i) ==
    IF i = 1 THEN [of |-> r, part |-> "first"]
    ELSE IF i = 2 THEN [of |-> r, part |-> "end"]
    ELSE IF r.name = "407" THEN [of |-> r, part |-> "body"] ELSE Data(i - 2)

Opens(r, u) == \A i \in 1 .. Len(u) : u[i] = Place(r, i)

(* The request a handler that waits for a reply has made.                  *)
Request(p, state) ==
    CASE state = "ServerHello" -> IF p = "socks4" THEN "hello4" ELSE "methods"
      [] state = "ReceiveAuthResponse" -> "password"
      [] state = "ReceiveResponse" -> "connect"
      [] OTHER -> "CONNECT"

Waiting == {"ServerHello", "ReceiveAuthResponse", "ReceiveResponse", "ExpectResponseHeaders", "Reset"}

ReplyNames(q) ==
    CASE q = "methods" -> {"NoAuth", "UserPass", "other"}
      [] q = "CONNECT" -> {"200", "502", "407"}
      [] OTHER -> {"granted", "rejected"}

(* Nothing is under way in either direction and the server has said        *)
(* nothing yet.                                                            *)
Unsaid(v) == v.said = 0 /\ ~ v.granted

Silent(h, v) == h.out = <<>> /\ v.asked = <<>>

(* A request without a reply: one, queued or sent; before it only what is  *)
(* left of an earlier challenge.                                           *)
Unanswered(q, h, u, v) ==
    /\ Unsaid(v)
    /\ \/ v.asked = <<>> /\ Len(h.out) = 1 /\ h.out[1].name = q
       \/ h.out = <<>> /\ Len(v.asked) = 1 /\ v.asked[1].name = q
    /\ Bodies(u)
    /\ q # "CONNECT" => u = <<>>

Extent(r, v) == IF r.name = "407" THEN 2 + r.length ELSE 2 + v.said

(* A reply under way, and after it what the server says if it has agreed.  *)
Answered(q, r, h, u, v) ==
    /\ Silent(h, v)
    /\ r.name \in ReplyNames(q)
    /\ Opens(r, u)
    /\ r.name \notin {"200", "granted"} \/ q = "password" => Unsaid(v)
    /\ Len(u) <= Extent(r, v)
    /\ v.link # "reset" => Len(u) = Extent(r, v)

(* The rest of a challenge is in the way of the next reply, or the reply   *)
(* was lost.                                                               *)
Blocked(q, u, v) ==
    /\ u = <<>> => v.link = "reset"
    /\ u # <<>> => q = "CONNECT" /\ u[1].part = "body"

(* One request at most is under way.                                       *)
Few(h, v) == Len(h.out) + Len(v.asked) <= 1

Waits(q, h, u, v) ==
    \/ Unanswered(q, h, u, v)
    \/ u # <<>> /\ Answered(q, u[1].of, h, u, v)
    \/ Blocked(q, u, v) /\ Few(h, v)

(* What the handler and the wire hold for a session in its setup.          *)
SetupOK(p, l, h, u, v) ==
    /\ h.state \in Waiting =>
          \/ l \in {"connect", "write", "read", "change"} /\ Waits(Request(p, h.state), h, u, v)
          \/ /\ l = "challenged" /\ h.state = "ExpectResponseHeaders" /\ Len(h.inbuf) >= 2
             /\ u[1].of.name = "407" /\ u[1].of.scheme = "Digest" /\ Answered("CONNECT", u[1].of, h, u, v)
          \/ l \in {"scheme", "answer"} /\ h.state = "ExpectResponseHeaders" /\ Silent(h, v) /\ Unsaid(v) /\ Bodies(u)
    /\ h.state \in {"SendAuthData", "SendRequest"} =>
          l = "change" /\ Silent(h, v) /\ Unsaid(v) /\ u = <<>>
    /\ h.state = "ExpectResponse" =>
          /\ l \in {"write", "read", "change", "scheme", "answer"}
          /\ Silent(h, v) /\ Unsaid(v) /\ Len(u) <= h.skip
          /\ l \in {"scheme", "answer"} => h.skip = 0
    /\ h.state = "Established" =>
          /\ l \in {"connect", "write", "change", "prefetch"}
          /\ Silent(h, v)
          /\ DataFrom(0, h.client) /\ DataFrom(Len(h.client), u)
          /\ v.link # "reset" => Len(h.client) + Len(u) = v.said
          /\ l # "change" => h.inbuf = <<>>
    /\ h.state # "Established" => h.client = <<>>

(* A session that has not connected yet.                                   *)
Untouched(p, h, w, v) ==
    /\ w = <<>> /\ v.asked = <<>> /\ v.link = "open" /\ v.said = 0 /\ (v.granted => p = "none")
    /\ h.inbuf = <<>> /\ h.client = <<>> /\ ~ h.before

(* What a new handler has queued.                                          *)
Starts(p, h) ==
    /\ p = "http" => h.state = "ExpectResponseHeaders" /\ h.out = <<>>
    /\ p = "none" => h.state = "Established" /\ h.out = <<>>
    /\ p \in {"socks4", "socks5"} =>
          h.state = "ServerHello" /\ Len(h.out) = 1 /\ h.out[1].name = Request(p, h.state)

(* What the pumps have given, hold and will read is what the server said.  *)
RelayOK(w, v, k) ==
    /\ v.asked = <<>>
    /\ DataFrom(Len(k.given), k.pending) /\ DataFrom(Len(k.given) + Len(k.pending), w)
    /\ v.link # "reset" => Len(k.given) + Len(k.pending) + Len(w) = v.said
    /\ k.down = "eof" => w = <<>> /\ k.pending = <<>> /\ v.link = "eof"

NotGiven(k) == k.pending = <<>> /\ k.given = <<>> /\ k.down = "emit"

SessionOK(W, l, h, w, v, k) ==
    /\ DataFrom(0, k.given)
    /\ W.filter => Len(k.given) % 2 = 0
    /\ l \in {"new", "firstAnswer"} \cup Live => NotGiven(k)
    /\ l \in {"new", "firstAnswer", "connect"} => Untouched(W.proxy, h, w, v)
    /\ l \in {"new", "firstAnswer"} => Starts(W.proxy, h)
    /\ l = "firstAnswer" => W.proxy = "http"
    /\ l \in Live => SetupOK(W.proxy, l, h, h.inbuf \o w, v)
    /\ l = "relay" => RelayOK(w, v, k)
    /\ l = "done" => Len(k.given) = v.said

StreamInv ==
    /\ ShakeTypes
    /\ \A s \in TcpFlows : SessionOK(world, at[s], handler[s], wire[s], server[s], relay[s])

-----------------------------------------------------------------------------
(* The answers a session has queued or sent.                               *)
AnswersOf(qs) == {qs[i].auth : i \in {j \in 1 .. Len(qs) : qs[j].name = "CONNECT"}}

Sent(h, v) == AnswersOf(h.out) \cup AnswersOf(v.asked)

(* A session has a challenge it has not taken up yet.                      *)
Open(l, h, u) ==
    /\ l \in Live /\ h.state \notin {"ExpectResponse", "Established"}
    /\ u # <<>> /\ u[1].part = "first" /\ u[1].of.name = "407" /\ u[1].of.scheme = "Digest"

Held(s) == handler[s].inbuf \o wire[s]

Posed(s, n) == Open(at[s], handler[s], Held(s)) /\ Held(s)[1].of.nonce = n

SentBy(s) == Sent(handler[s], server[s])

(* An answer that has been made: its nonce has been issued, and its count  *)
(* used up if the nonce is the current one.                                *)
Made(d, m, a) == a.nonce <= m.issued /\ (a.nonce = d.nonce => a.count <= d.count)

(* Every answer by Digest is the only one with its nonce and count.        *)
AnswersOnce(s) ==
    \A a \in SentBy(s) :
        /\ Made(digest, realm, a)
        /\ a.by = "Digest" => a \notin realm.seen /\ \A t \in TcpFlows \ {s} : a \notin SentBy(t)

(* A challenge that has not been taken up has a nonce of its own.          *)
ChallengeOnce(s) ==
    \A n \in Nat : Posed(s, n) =>
        /\ n \in 1 .. realm.issued /\ n # digest.nonce
        /\ \A a \in realm.seen : a.nonce # n
        /\ \A t \in TcpFlows : \A a \in SentBy(t) : a.nonce # n
        /\ \A t \in TcpFlows \ {s} : ~ Posed(t, n)

(* Once it has been challenged, a session answers by Digest, and is only   *)
(* challenged again when its nonce is stale.                               *)
Again(l, h) == l \in {"scheme", "answer"} \/ (l \in Live /\ h.state = "ExpectResponse")

Persists(d, l, h, u, v) ==
    /\ Again(l, h) => h.before
    /\ l \in Live /\ h.before =>
          /\ d.nonce # 0
          /\ l = "answer" => h.scheme = "Digest"
          /\ \A a \in Sent(h, v) : a.by = "Digest"
          /\ Open(l, h, u) => u[1].of.stale

DigestInv ==
    /\ digest.nonce <= realm.issued
    /\ \A a \in realm.seen : Made(digest, realm, a)
    /\ \A s \in TcpFlows : AnswersOnce(s) /\ ChallengeOnce(s)
    /\ world.known => \A s \in TcpFlows :
          at[s] # "refused" /\ Persists(digest, at[s], handler[s], Held(s), server[s])

ShakeInv == StreamInv /\ DigestInv

-----------------------------------------------------------------------------
\* Joining two sequences.
LEMMA Joined2 ==
    ASSUME NEW S, NEW a \in Seq(S), NEW b \in Seq(S)
    PROVE  /\ a \o b \in Seq(S) /\ Len(a \o b) = Len(a) + Len(b)
           /\ \A i \in 1 .. Len(a) : (a \o b)[i] = a[i]
           /\ \A i \in 1 .. Len(b) : (a \o b)[Len(a) + i] = b[i]
OBVIOUS

\* A part of a sequence from one of its places on.
LEMMA LaterPart ==
    ASSUME NEW S, NEW a \in Seq(S), NEW n \in Nat, n <= Len(a)
    PROVE  /\ SubSeq(a, n + 1, Len(a)) \in Seq(S) /\ Len(SubSeq(a, n + 1, Len(a))) = Len(a) - n
           /\ \A i \in 1 .. Len(a) - n : SubSeq(a, n + 1, Len(a))[i] = a[n + i]
OBVIOUS

\* The first part of a sequence.
LEMMA FirstPart ==
    ASSUME NEW S, NEW a \in Seq(S), NEW n \in Nat, n <= Len(a)
    PROVE  /\ SubSeq(a, 1, n) \in Seq(S) /\ Len(SubSeq(a, 1, n)) = n
           /\ \A i \in 1 .. n : SubSeq(a, 1, n)[i] = a[i]
OBVIOUS

\* Sequences with the same elements are equal.
LEMMA SameSeq ==
    ASSUME NEW S, NEW a \in Seq(S), NEW b \in Seq(S), Len(a) = Len(b), \A i \in 1 .. Len(a) : a[i] = b[i]
    PROVE  a = b
OBVIOUS

\* The empty sequence, and those of length 0.
LEMMA EmptySeq ==
    ASSUME NEW S
    PROVE  /\ <<>> \in Seq(S) /\ Len(<<>>) = 0
           /\ \A a \in Seq(S) : Len(a) \in Nat /\ (a = <<>> <=> Len(a) = 0) /\ \A i \in 1 .. Len(a) : a[i] \in S
OBVIOUS

\* Joining with the empty sequence.
LEMMA JoinedEmpty ==
    ASSUME NEW S, NEW a \in Seq(S)
    PROVE  a \o <<>> = a /\ <<>> \o a = a
OBVIOUS

\* The tail of a sequence with one element.
LEMMA TailOfOne ==
    ASSUME NEW S, NEW a \in Seq(S), Len(a) = 1
    PROVE  Tail(a) = <<>>
<1>1. Tail(a) \in Seq(S) /\ Len(Tail(a)) = 0
  OBVIOUS
<1>2. QED
  BY <1>1, EmptySeq, ZenonT(30)

\* Joining three.
LEMMA JoinedTwice ==
    ASSUME NEW S, NEW a \in Seq(S), NEW b \in Seq(S), NEW c \in Seq(S)
    PROVE  (a \o b) \o c = a \o (b \o c)
<1>1. /\ (a \o b) \o c \in Seq(S) /\ a \o (b \o c) \in Seq(S) /\ a \o b \in Seq(S) /\ b \o c \in Seq(S)
      /\ Len((a \o b) \o c) = Len(a) + Len(b) + Len(c) /\ Len(a \o (b \o c)) = Len(a) + Len(b) + Len(c)
      /\ Len(a \o b) = Len(a) + Len(b) /\ Len(b \o c) = Len(b) + Len(c)
      /\ Len(a) \in Nat /\ Len(b) \in Nat /\ Len(c) \in Nat
  BY Joined2, EmptySeq
<1>2. ASSUME NEW i \in 1 .. Len(a) + Len(b) + Len(c) PROVE ((a \o b) \o c)[i] = (a \o (b \o c))[i]
  <2>1. CASE i \in 1 .. Len(a)
    BY <1>1, <2>1
  <2>2. CASE i \in Len(a) + 1 .. Len(a) + Len(b)
    BY <1>1, <2>2
  <2>3. CASE i \in Len(a) + Len(b) + 1 .. Len(a) + Len(b) + Len(c)
    BY <1>1, <2>3
  <2>4. QED
    BY <1>1, <2>1, <2>2, <2>3
<1> DEFINE x == (a \o b) \o c
           y == a \o (b \o c)
<1>3. x \in Seq(S) /\ y \in Seq(S) /\ Len(x) = Len(y) /\ \A i \in 1 .. Len(x) : x[i] = y[i]
  BY <1>1, <1>2, ZenonT(30)
<1> HIDE DEF x, y
<1>4. x = y
  BY <1>3, SameSeq, ZenonT(30)
<1>5. QED
  BY <1>4, ZenonT(30) DEF x, y

\* A read takes a part of the wire to the end of the buffer.
LEMMA ReadKeeps ==
    ASSUME NEW S, NEW b \in Seq(S), NEW w \in Seq(S), NEW n \in Nat, n <= Len(w)
    PROVE  (b \o SubSeq(w, 1, n)) \o SubSeq(w, n + 1, Len(w)) = b \o w
<1> DEFINE p == SubSeq(w, 1, n)
           q == SubSeq(w, n + 1, Len(w))
<1>1. /\ p \in Seq(S) /\ Len(p) = n /\ \A i \in 1 .. n : p[i] = w[i]
      /\ q \in Seq(S) /\ Len(q) = Len(w) - n /\ \A i \in 1 .. Len(w) - n : q[i] = w[n + i]
  BY FirstPart, LaterPart, ZenonT(30)
<1> HIDE DEF p, q
<1>0. Len(w) \in Nat
  OBVIOUS
<1>2. p \o q \in Seq(S) /\ Len(p \o q) = Len(w)
  BY <1>0, <1>1, Joined2
<1>3. ASSUME NEW i \in 1 .. Len(w) PROVE (p \o q)[i] = w[i]
  <2>1. CASE i <= n
    BY <1>1, <2>1
  <2>2. CASE i > n
    <3>1. i - n \in 1 .. Len(q) /\ i = Len(p) + (i - n) /\ q[i - n] = w[i]
      BY <1>0, <1>1, <2>2
    <3>2. QED
      BY <1>1, <3>1, Joined2
  <2>3. i <= n \/ i > n
    BY <1>0
  <2>4. QED
    BY <2>1, <2>2, <2>3, ZenonT(30)
<1>4. p \o q = w
  BY <1>2, <1>3, SameSeq, ZenonT(30)
<1>5. (b \o p) \o q = b \o (p \o q)
  BY <1>1, JoinedTwice
<1>6. QED
  BY <1>4, <1>5, ZenonT(30) DEF p, q

-----------------------------------------------------------------------------
(* One session: what each step does to it.  W is the configuration, l the  *)
(* place of its task, h and g its handler before and after, w the wire, v  *)
(* the server's end and k the relay.                                       *)

\* A setup that ends keeps what was given.
LEMMA EndsOK ==
    ASSUME NEW W, NEW l, NEW h, NEW w, NEW v, NEW k, SessionOK(W, l, h, w, v, k),
           NEW l2 \in {"failed", "refused"}, NEW h2, NEW w2, NEW v2
    PROVE  SessionOK(W, l2, h2, w2, v2, k)
BY ZenonT(30) DEF SessionOK, Live

\* A handler without a request, before its session connects.
LEMMA SchemeOK ==
    ASSUME NEW W \in Worlds, NEW h \in HandlerSet, NEW g \in HandlerSet, NEW w \in Seq(Unit), NEW v, NEW k,
           NEW l \in {"new", "scheme"}, SessionOK(W, l, h, w, v, k), l = "new" => W.proxy = "http",
           g.state = h.state, g.inbuf = h.inbuf, g.client = h.client, g.skip = h.skip,
           g.before = h.before, g.out = h.out
    PROVE  SessionOK(W, IF l = "new" THEN "firstAnswer" ELSE "answer", g, w, v, k)
<1>1. CASE l = "new"
  <2>1. Untouched(W.proxy, g, w, v) /\ Starts(W.proxy, g) /\ NotGiven(k)
    BY <1>1, ZenonT(30) DEF SessionOK, Untouched, Starts
  <2>2. QED
    BY <1>1, <2>1, ZenonT(30) DEF SessionOK, Live
<1>2. CASE l = "scheme"
  <2> DEFINE u == h.inbuf \o w
  <2>1. SetupOK(W.proxy, "scheme", h, u, v) /\ NotGiven(k)
    BY <1>2, ZenonT(30) DEF SessionOK, Live
  <2> HIDE DEF u
  <2>2. SetupOK(W.proxy, "answer", g, u, v)
    BY <2>1, ZenonT(30) DEF SetupOK, Silent
  <2>3. QED
    BY <1>2, <2>1, <2>2, ZenonT(30) DEF SessionOK, Live, u
<1>3. QED
  BY <1>1, <1>2, ZenonT(30)

\* A SOCKS or direct session has its handler.
LEMMA NewSocksOK ==
    ASSUME NEW W \in Worlds, NEW h \in HandlerSet, NEW w \in Seq(Unit), NEW v \in ServerSet, NEW k,
           SessionOK(W, "new", h, w, v, k), W.proxy # "http"
    PROVE  SessionOK(W, "connect", h, w, v, k)
<1>1. Untouched(W.proxy, h, w, v) /\ Starts(W.proxy, h) /\ NotGiven(k)
  BY ZenonT(30) DEF SessionOK
<1>2. W.proxy \in {"socks4", "socks5", "none"}
  BY HandshakeAssumption, ZenonT(30)
<1> DEFINE u == h.inbuf \o w
<1>3. u = <<>> /\ Len(u) = 0
  BY <1>1, JoinedEmpty, EmptySeq, ZenonT(30) DEF Untouched
<1> HIDE DEF u
<1>4. SetupOK(W.proxy, "connect", h, u, v)
  <2>1. CASE W.proxy = "none"
    BY <1>1, <1>3, <2>1 DEF SetupOK, Starts, Untouched, Silent, DataFrom, Waiting
  <2>2. CASE W.proxy # "none"
    <3>1. Unanswered(Request(W.proxy, h.state), h, u, v) /\ h.state = "ServerHello" /\ h.client = <<>>
      BY <1>1, <1>2, <1>3, <2>2 DEF Unanswered, Starts, Untouched, Unsaid, Bodies
    <3>2. QED
      BY <3>1, ZenonT(30) DEF SetupOK, Waits, Waiting
  <2>3. QED
    BY <2>1, <2>2, ZenonT(30)
<1>5. QED
  BY <1>1, <1>4, ZenonT(30) DEF SessionOK, Live, u

\* The connection has been made.
LEMMA ConnectOK ==
    ASSUME NEW W \in Worlds, NEW h \in HandlerSet, NEW w \in Seq(Unit), NEW v \in ServerSet, NEW k,
           SessionOK(W, "connect", h, w, v, k)
    PROVE  SessionOK(W, IF h.state = "Established" THEN "prefetch" ELSE "write", h, w, v, k)
<1> DEFINE u == h.inbuf \o w
<1>1. SetupOK(W.proxy, "connect", h, u, v) /\ NotGiven(k)
  BY ZenonT(30) DEF SessionOK, Live
<1> HIDE DEF u
<1>2. CASE h.state = "Established"
  <2>1. SetupOK(W.proxy, "prefetch", h, u, v)
    BY <1>1, <1>2, ZenonT(30) DEF SetupOK, Waiting
  <2>2. QED
    BY <1>1, <1>2, <2>1, ZenonT(30) DEF SessionOK, Live, u
<1>3. CASE h.state # "Established"
  <2>1. SetupOK(W.proxy, "write", h, u, v)
    BY <1>1, <1>3, ZenonT(30) DEF SetupOK
  <2>2. QED
    BY <1>1, <1>3, <2>1, ZenonT(30) DEF SessionOK, Live, u
<1>4. QED
  BY <1>2, <1>3, ZenonT(30)

\* Two counts of which one is 1 at most.
LEMMA OneAtMost ==
    ASSUME NEW a \in Nat, NEW b \in Nat
    PROVE  /\ a + b <= 1 <=> (a = 0 /\ b = 0) \/ (a = 1 /\ b = 0) \/ (a = 0 /\ b = 1)
           /\ a + b <= 1 => 0 + (b + a) <= 1
OBVIOUS

\* When there is one request at most.
LEMMA FewFacts ==
    ASSUME NEW h \in HandlerSet, NEW v \in ServerSet
    PROVE  /\ Silent(h, v) => Few(h, v)
           /\ \A q, u : Unanswered(q, h, u, v) => Few(h, v)
           /\ Few(h, v) /\ v.asked # <<>> => Len(v.asked) = 1 /\ h.out = <<>>
           /\ Len(h.out) \in Nat /\ Len(v.asked) \in Nat
<1>1. h.out \in Seq(Query) /\ v.asked \in Seq(Query)
  BY ZenonT(30) DEF HandlerSet, ServerSet
<1>2. /\ Len(h.out) \in Nat /\ (h.out = <<>> <=> Len(h.out) = 0)
      /\ Len(v.asked) \in Nat /\ (v.asked = <<>> <=> Len(v.asked) = 0)
  BY <1>1, EmptySeq, ZenonT(30)
<1>3. Silent(h, v) => Few(h, v)
  BY <1>2 DEF Silent, Few
<1>4. ASSUME NEW q, NEW u, Unanswered(q, h, u, v) PROVE Few(h, v)
  <2>1. (Len(h.out) = 1 /\ Len(v.asked) = 0) \/ (Len(h.out) = 0 /\ Len(v.asked) = 1)
    BY <1>2, <1>4, ZenonT(30) DEF Unanswered
  <2>2. QED
    BY <1>2, <2>1, OneAtMost, ZenonT(30) DEF Few
<1>5. Few(h, v) /\ v.asked # <<>> => Len(v.asked) = 1 /\ h.out = <<>>
  BY <1>2, OneAtMost, ZenonT(30) DEF Few
<1>6. QED
  BY <1>2, <1>3, <1>4, <1>5, ZenonT(30)

\* What is queued is written to the server.
LEMMA WriteOK ==
    ASSUME NEW W \in Worlds, NEW h \in HandlerSet, NEW g \in HandlerSet, NEW w \in Seq(Unit),
           NEW v \in ServerSet, NEW v2 \in ServerSet, NEW k, SessionOK(W, "write", h, w, v, k),
           g.state = h.state, g.inbuf = h.inbuf, g.client = h.client, g.skip = h.skip, g.out = <<>>,
           v2.asked = v.asked \o h.out, v2.link = v.link, v2.granted = v.granted, v2.said = v.said
    PROVE  SessionOK(W, IF h.state = "Established" THEN "prefetch" ELSE "read", g, w, v2, k)
<1> DEFINE u == h.inbuf \o w
<1>1. SetupOK(W.proxy, "write", h, u, v) /\ NotGiven(k) /\ g.inbuf \o w = u
  BY ZenonT(30) DEF SessionOK, Live
<1>2. /\ h.out = <<>> => v2.asked = v.asked
      /\ v.asked = <<>> => v2.asked = h.out
  <2> DEFINE a == v.asked
             o == h.out
  <2>1. a \in Seq(Query) /\ o \in Seq(Query)
    BY ZenonT(30) DEF HandlerSet, ServerSet
  <2> HIDE DEF a, o
  <2>2. a \o <<>> = a /\ <<>> \o o = o
    BY <2>1, JoinedEmpty, ZenonT(30)
  <2>3. QED
    BY <2>2, ZenonT(30) DEF a, o
<1>3. Unsaid(v) => Unsaid(v2)
  BY ZenonT(30) DEF Unsaid
<1>4. Silent(h, v) => Silent(g, v2)
  BY <1>2, ZenonT(30) DEF Silent
<1> HIDE DEF u
<1>5. CASE h.state = "Established"
  <2>1. SetupOK(W.proxy, "prefetch", g, u, v2)
    BY <1>1, <1>4, <1>5, ZenonT(30) DEF SetupOK, Waiting
  <2>2. QED
    BY <1>1, <1>5, <2>1, ZenonT(30) DEF SessionOK, Live
<1>6. CASE h.state # "Established"
  <2>1. ASSUME NEW q, Waits(q, h, u, v) PROVE Waits(q, g, u, v2)
    <3>1. CASE Unanswered(q, h, u, v)
      BY <1>2, <1>3, <3>1, ZenonT(30) DEF Waits, Unanswered
    <3>2. CASE u # <<>> /\ Answered(q, u[1].of, h, u, v)
      BY <1>3, <1>4, <3>2, ZenonT(30) DEF Waits, Answered, Extent
    <3>3. CASE Blocked(q, u, v) /\ Few(h, v)
      <4>1. Few(g, v2)
        <5>1. h.out \in Seq(Query) /\ v.asked \in Seq(Query)
          BY ZenonT(30) DEF HandlerSet, ServerSet
        <5>2. Len(v2.asked) = Len(v.asked) + Len(h.out)
          BY <5>1, Joined2
        <5>3. Len(g.out) = 0 /\ Len(h.out) \in Nat /\ Len(v.asked) \in Nat
          BY <5>1, EmptySeq, ZenonT(30)
        <5>4. QED
          BY <3>3, <5>2, <5>3, OneAtMost, ZenonT(30) DEF Few
      <4>2. QED
        BY <3>3, <4>1, ZenonT(30) DEF Waits, Blocked
    <3>4. QED
      BY <2>1, <3>1, <3>2, <3>3, ZenonT(30) DEF Waits
  <2>2. SetupOK(W.proxy, "read", g, u, v2)
    BY <1>1, <1>3, <1>4, <1>6, <2>1, ZenonT(30) DEF SetupOK, Waiting
  <2>3. QED
    BY <1>1, <1>6, <2>2, ZenonT(30) DEF SessionOK, Live
<1>7. QED
  BY <1>5, <1>6, ZenonT(30)

\* What has been read and what is on the wire stay the same stream.
LEMMA ReadOK ==
    ASSUME NEW W \in Worlds, NEW h \in HandlerSet, NEW g \in HandlerSet, NEW w \in Seq(Unit), NEW x \in Seq(Unit),
           NEW v \in ServerSet, NEW k, SessionOK(W, "read", h, w, v, k),
           g.state = h.state, g.client = h.client, g.skip = h.skip, g.out = h.out,
           g.inbuf \o x = h.inbuf \o w
    PROVE  SessionOK(W, "change", g, x, v, k)
<1> DEFINE u == h.inbuf \o w
<1>1. SetupOK(W.proxy, "read", h, u, v) /\ NotGiven(k) /\ g.inbuf \o x = u
  BY ZenonT(30) DEF SessionOK, Live
<1> HIDE DEF u
<1>2. ASSUME NEW q, Waits(q, h, u, v) PROVE Waits(q, g, u, v)
  BY <1>2, ZenonT(30) DEF Waits, Unanswered, Answered, Silent, Few
<1>3. SetupOK(W.proxy, "change", g, u, v)
  BY <1>1, <1>2, ZenonT(30) DEF SetupOK, Silent
<1>4. QED
  BY <1>1, <1>3, ZenonT(30) DEF SessionOK, Live

\* A reply that is not complete is waited for.
LEMMA IncompleteOK ==
    ASSUME NEW W \in Worlds, NEW h \in HandlerSet, NEW w \in Seq(Unit), NEW v \in ServerSet, NEW k,
           SessionOK(W, "change", h, w, v, k), h.state \in Waiting
    PROVE  SessionOK(W, "write", h, w, v, k)
<1> DEFINE u == h.inbuf \o w
<1>1. SetupOK(W.proxy, "change", h, u, v) /\ NotGiven(k)
  BY ZenonT(30) DEF SessionOK, Live
<1> HIDE DEF u
<1>2. SetupOK(W.proxy, "write", h, u, v)
  BY <1>1, ZenonT(30) DEF SetupOK, Waiting
<1>3. QED
  BY <1>1, <1>2, ZenonT(30) DEF SessionOK, Live, u

\* A complete reply is the first that is held, from its start on, unless
\* something that is no start of a reply is before it.
LEMMA CompleteReply ==
    ASSUME NEW W \in Worlds, NEW h \in HandlerSet, NEW w \in Seq(Unit), NEW v \in ServerSet, NEW k,
           SessionOK(W, "change", h, w, v, k), h.state \in Waiting, Complete(h.inbuf),
           h.state \in {"ExpectResponseHeaders", "Reset"} => h.inbuf[1].part = "first"
    PROVE  /\ Len(h.inbuf) >= 2 /\ Len(h.inbuf) \in Nat /\ (h.inbuf \o w)[1] = h.inbuf[1]
           /\ h.inbuf \o w # <<>> /\ h.inbuf \o w \in Seq(Unit) /\ Len(h.inbuf \o w) >= Len(h.inbuf)
           /\ Answered(Request(W.proxy, h.state), h.inbuf[1].of, h, h.inbuf \o w, v)
<1> DEFINE u == h.inbuf \o w
           q == Request(W.proxy, h.state)
           b == h.inbuf
<1>1. SetupOK(W.proxy, "change", h, u, v)
  BY ZenonT(30) DEF SessionOK, Live
<1>2. b \in Seq(Unit) /\ Len(b) \in Nat /\ \E i \in 1 .. Len(b) : b[i].part = "end"
  BY DEF Complete, HandlerSet
<1>3. u \in Seq(Unit) /\ Len(u) = Len(b) + Len(w) /\ Len(w) \in Nat /\ \A i \in 1 .. Len(b) : u[i] = b[i]
  BY <1>2, Joined2
<1>4. PICK i \in 1 .. Len(b) : b[i].part = "end"
  BY <1>2, ZenonT(30)
<1>5. Len(u) >= Len(b) /\ Len(b) >= 1 /\ u # <<>> /\ u[1] = b[1] /\ u[i].part = "end" /\ i \in 1 .. Len(u)
  BY <1>2, <1>3, <1>4, EmptySeq
<1>6. q # "CONNECT" <=> h.state \notin {"ExpectResponseHeaders", "Reset"}
  BY ZenonT(30) DEF Request, Waiting
<1> HIDE DEF u, q, b
<1>7. Waits(q, h, u, v)
  BY <1>1, ZenonT(30) DEF SetupOK, Waiting, q
<1>8. ~ Unanswered(q, h, u, v)
  BY <1>5, ZenonT(30) DEF Unanswered, Bodies
<1>9. ~ Blocked(q, u, v)
  BY <1>5, <1>6, ZenonT(30) DEF Blocked, b
<1>10. Answered(q, u[1].of, h, u, v)
  BY <1>7, <1>8, <1>9, ZenonT(30) DEF Waits
<1>11. u[1].part = "first"
  BY <1>5, <1>10 DEF Answered, Opens, Place
<1>12. i # 1
  BY <1>5, <1>11, ZenonT(30)
<1>13. QED
  BY <1>2, <1>3, <1>4, <1>5, <1>10, <1>12 DEF u, q, b

\* What is held after the first two places of a stream.
LEMMA RestHeld ==
    ASSUME NEW b \in Seq(Unit), NEW w \in Seq(Unit), Len(b) >= 2
    PROVE  /\ Rest(b) \in Seq(Unit) /\ Rest(b) \o w \in Seq(Unit)
           /\ Len(Rest(b) \o w) = Len(b \o w) - 2
           /\ \A i \in 1 .. Len(b \o w) - 2 : (Rest(b) \o w)[i] = (b \o w)[i + 2]
<1>0. Len(b) \in Nat /\ Len(w) \in Nat
  OBVIOUS
<1> DEFINE c == SubSeq(b, 3, Len(b))
<1>7. c \in Seq(Unit)
  BY <1>0
<1>8. \A n \in Nat : n <= Len(b) => /\ Len(SubSeq(b, n + 1, Len(b))) = Len(b) - n
                                     /\ \A i \in 1 .. Len(b) - n : SubSeq(b, n + 1, Len(b))[i] = b[n + i]
  BY LaterPart, ZenonT(30)
<1>9. 2 \in Nat /\ 2 <= Len(b) /\ 2 + 1 = 3
  BY <1>0
<1>1. Len(c) = Len(b) - 2 /\ \A i \in 1 .. Len(b) - 2 : c[i] = b[2 + i]
  BY <1>8, <1>9, ZenonT(30)
<1>2. Rest(b) = c
  BY ZenonT(30) DEF Rest
<1> HIDE DEF c
<1>3. /\ c \o w \in Seq(Unit) /\ Len(c \o w) = Len(c) + Len(w)
      /\ \A i \in 1 .. Len(c) : (c \o w)[i] = c[i]
      /\ \A i \in 1 .. Len(w) : (c \o w)[Len(c) + i] = w[i]
  BY <1>7, Joined2
<1>4. /\ Len(b \o w) = Len(b) + Len(w)
      /\ \A i \in 1 .. Len(b) : (b \o w)[i] = b[i]
      /\ \A i \in 1 .. Len(w) : (b \o w)[Len(b) + i] = w[i]
  BY Joined2
<1>5. ASSUME NEW i \in 1 .. Len(b \o w) - 2 PROVE (c \o w)[i] = (b \o w)[i + 2]
  <2>1. CASE i \in 1 .. Len(c)
    BY <1>0, <1>1, <1>3, <1>4, <2>1
  <2>2. CASE i \notin 1 .. Len(c)
    <3>1. i - Len(c) \in 1 .. Len(w) /\ i = Len(c) + (i - Len(c)) /\ i + 2 = Len(b) + (i - Len(c))
      BY <1>0, <1>1, <1>4, <2>2
    <3>2. (c \o w)[Len(c) + (i - Len(c))] = w[i - Len(c)] /\ (b \o w)[Len(b) + (i - Len(c))] = w[i - Len(c)]
      BY <1>3, <1>4, <3>1, ZenonT(30)
    <3>3. QED
      BY <3>1, <3>2, ZenonT(30)
  <2>3. QED
    BY <2>1, <2>2, ZenonT(30)
<1>6. Len(c \o w) = Len(b \o w) - 2
  BY <1>0, <1>1, <1>3, <1>4
<1>10. QED
  BY <1>2, <1>3, <1>5, <1>6, <1>7, ZenonT(30)

\* The reply that establishes the session: what follows is the server's data.
LEMMA EstablishedOK ==
    ASSUME NEW W \in Worlds, NEW h \in HandlerSet, NEW g \in HandlerSet, NEW w \in Seq(Unit), NEW v \in ServerSet,
           NEW k, SessionOK(W, "change", h, w, v, k), h.state \in Waiting, Complete(h.inbuf),
           h.state \in {"ExpectResponseHeaders", "Reset"} => h.inbuf[1].part = "first",
           h.state # "ReceiveAuthResponse", h.inbuf[1].of.name \in {"200", "granted"},
           g.inbuf = Rest(h.inbuf), g.state = "Established", g.client = h.client, g.out = h.out
    PROVE  SessionOK(W, "change", g, w, v, k)
<1> DEFINE b == h.inbuf
           u == b \o w
           x == Rest(b) \o w
           r == b[1].of
<1>1. SetupOK(W.proxy, "change", h, u, v) /\ NotGiven(k)
  BY ZenonT(30) DEF SessionOK, Live
<1>2. /\ Len(h.inbuf) >= 2 /\ u \in Seq(Unit) /\ u[1] = h.inbuf[1]
      /\ Answered(Request(W.proxy, h.state), r, h, u, v)
  BY CompleteReply, ZenonT(30)
<1>3. h.inbuf \in Seq(Unit) /\ v.said \in Nat
  BY ZenonT(30) DEF HandlerSet, ServerSet
<1>0. b \in Seq(Unit) /\ w \in Seq(Unit) /\ Len(b) >= 2
  BY <1>2, <1>3, ZenonT(30)
<1> HIDE DEF b
<1>4. /\ x \in Seq(Unit) /\ Len(x) = Len(u) - 2
      /\ \A i \in 1 .. Len(u) - 2 : x[i] = u[i + 2]
  BY <1>0, RestHeld, ZenonT(30)
<1>5. h.client = <<>> /\ r.name # "407"
  BY <1>1, ZenonT(30) DEF SetupOK, Waiting, b
<1>6. Len(u) \in Nat
  BY <1>2
<1> HIDE DEF u, x, r
<1>7. ASSUME NEW i \in 1 .. Len(x) PROVE x[i] = Data(0 + i)
  <2>1. i \in Nat /\ i # 0 /\ i + 2 \in 1 .. Len(u) /\ i + 2 # 1 /\ i + 2 # 2 /\ (i + 2) - 2 = 0 + i
    BY <1>4, <1>6
  <2>2. u[i + 2] = Place(r, i + 2)
    BY <1>2, <2>1, ZenonT(30) DEF Answered, Opens
  <2>3. u[i + 2] = Data((i + 2) - 2)
    BY <1>5, <2>1, <2>2, ZenonT(30) DEF Place
  <2>4. QED
    BY <1>4, <2>1, <2>3, ZenonT(30)
<1>8. v.link # "reset" => Len(x) = v.said
  BY <1>2, <1>3, <1>4, <1>5 DEF Answered, Extent
<1>9. Len(g.client) = 0 /\ DataFrom(0, g.client) /\ DataFrom(Len(g.client), x)
  BY <1>5, <1>7, EmptySeq DEF DataFrom
<1>10. Silent(g, v)
  BY <1>2, ZenonT(30) DEF Answered, Silent
<1>11. Len(x) \in Nat
  BY <1>4
<1>12. SetupOK(W.proxy, "change", g, x, v)
  BY <1>3, <1>8, <1>9, <1>10, <1>11 DEF SetupOK, Waiting
<1>13. QED
  BY <1>1, <1>12, ZenonT(30) DEF SessionOK, Live, x, b

\* A SOCKS5 reply that asks for more.
LEMMA AcceptedOK ==
    ASSUME NEW W \in Worlds, NEW h \in HandlerSet, NEW g \in HandlerSet, NEW w \in Seq(Unit), NEW v \in ServerSet,
           NEW k, SessionOK(W, "change", h, w, v, k), Complete(h.inbuf),
           \/ h.state = "ServerHello" /\ W.proxy = "socks5"
           \/ h.state = "ReceiveAuthResponse",
           g.inbuf = Rest(h.inbuf), g.state \in {"SendAuthData", "SendRequest"}, g.client = h.client, g.out = h.out
    PROVE  SessionOK(W, "change", g, w, v, k)
<1> DEFINE b == h.inbuf
           u == b \o w
           x == Rest(b) \o w
           r == b[1].of
<1>1. SetupOK(W.proxy, "change", h, u, v) /\ NotGiven(k) /\ h.state \in Waiting
  BY ZenonT(30) DEF SessionOK, Live, Waiting
<1>2. /\ Len(h.inbuf) >= 2 /\ u \in Seq(Unit) /\ u[1] = h.inbuf[1]
      /\ Answered(Request(W.proxy, h.state), r, h, u, v) /\ Len(u) >= Len(h.inbuf)
  BY <1>1, CompleteReply, ZenonT(30)
<1>3. h.inbuf \in Seq(Unit) /\ Len(h.inbuf) \in Nat /\ v.said \in Nat
  BY DEF HandlerSet, ServerSet
<1>0. b \in Seq(Unit) /\ w \in Seq(Unit) /\ Len(b) >= 2
  BY <1>2, <1>3, ZenonT(30)
<1> HIDE DEF b
<1>4. x \in Seq(Unit) /\ Len(x) = Len(u) - 2
  BY <1>0, RestHeld, ZenonT(30)
<1>5. h.client = <<>>
  BY <1>1, ZenonT(30) DEF SetupOK, Waiting
<1> HIDE DEF u, x, r
<1>6. Unsaid(v) /\ r.name # "407" /\ Silent(h, v) /\ Len(u) <= Extent(r, v)
  BY <1>2, ZenonT(30) DEF Answered, Request, ReplyNames
<1>7. Len(x) = 0
  BY <1>2, <1>3, <1>4, <1>6 DEF Extent, Unsaid
<1>8. SetupOK(W.proxy, "change", g, x, v)
  BY <1>4, <1>5, <1>6, <1>7, EmptySeq, ZenonT(30) DEF SetupOK, Waiting, Silent
<1>9. QED
  BY <1>1, <1>8, ZenonT(30) DEF SessionOK, Live, x, b

\* A SOCKS5 handler queues its next request.
LEMMA SendOK ==
    ASSUME NEW W \in Worlds, NEW h \in HandlerSet, NEW g \in HandlerSet, NEW w \in Seq(Unit), NEW v \in ServerSet,
           NEW k, SessionOK(W, "change", h, w, v, k), h.state \in {"SendAuthData", "SendRequest"},
           g.inbuf = h.inbuf, g.client = h.client,
           g.state = IF h.state = "SendAuthData" THEN "ReceiveAuthResponse" ELSE "ReceiveResponse",
           g.out = Append(h.out, [name |-> IF h.state = "SendAuthData" THEN "password" ELSE "connect"])
    PROVE  SessionOK(W, "write", g, w, v, k)
<1> DEFINE u == h.inbuf \o w
           q == [name |-> IF h.state = "SendAuthData" THEN "password" ELSE "connect"]
<1>1. SetupOK(W.proxy, "change", h, u, v) /\ NotGiven(k)
  BY ZenonT(30) DEF SessionOK, Live
<1>2. q.name = Request(W.proxy, g.state) /\ q.name # "CONNECT" /\ g.state \in Waiting /\ g.state # "Established"
  BY ZenonT(30) DEF Request, Waiting
<1> HIDE DEF u, q
<1>3. Silent(h, v) /\ Unsaid(v) /\ u = <<>> /\ h.client = <<>>
  BY <1>1, ZenonT(30) DEF SetupOK
<1>4. Len(g.out) = 1 /\ g.out[1] = q
  BY <1>3 DEF Silent, q
<1>5. Bodies(u)
  BY <1>3, EmptySeq DEF Bodies
<1>6. Unanswered(q.name, g, u, v)
  BY <1>2, <1>3, <1>4, <1>5, ZenonT(30) DEF Unanswered, Silent
<1>7. SetupOK(W.proxy, "write", g, u, v)
  BY <1>2, <1>3, <1>6, ZenonT(30) DEF SetupOK, Waits
<1>8. QED
  BY <1>1, <1>7, ZenonT(30) DEF SessionOK, Live, u

\* What followed the reply is held for the client.
LEMMA RelayTrafficOK ==
    ASSUME NEW W \in Worlds, NEW h \in HandlerSet, NEW g \in HandlerSet, NEW w \in Seq(Unit), NEW v \in ServerSet,
           NEW k, SessionOK(W, "change", h, w, v, k), h.state = "Established",
           g.inbuf = <<>>, g.client = h.client \o h.inbuf, g.state = h.state, g.out = h.out
    PROVE  SessionOK(W, "write", g, w, v, k)
<1> DEFINE b == h.inbuf
           c == h.client
           u == b \o w
<1>1. SetupOK(W.proxy, "change", h, u, v) /\ NotGiven(k)
  BY ZenonT(30) DEF SessionOK, Live
<1>2. b \in Seq(Unit) /\ c \in Seq(Unit) /\ v.said \in Nat
  BY ZenonT(30) DEF HandlerSet, ServerSet
<1>3. Len(b) \in Nat /\ Len(c) \in Nat /\ Len(w) \in Nat
  BY <1>2
<1> HIDE DEF b, c
<1>4. /\ Len(u) = Len(b) + Len(w) /\ \A i \in 1 .. Len(b) : u[i] = b[i]
      /\ \A i \in 1 .. Len(w) : u[Len(b) + i] = w[i]
  BY <1>2, Joined2
<1>5. /\ c \o b \in Seq(Unit) /\ Len(c \o b) = Len(c) + Len(b)
      /\ \A i \in 1 .. Len(c) : (c \o b)[i] = c[i]
      /\ \A i \in 1 .. Len(b) : (c \o b)[Len(c) + i] = b[i]
  BY <1>2, Joined2
<1> HIDE DEF u
<1>6. /\ Silent(h, v) /\ DataFrom(0, c) /\ DataFrom(Len(c), u)
      /\ v.link # "reset" => Len(c) + Len(u) = v.said
  BY <1>1, ZenonT(30) DEF SetupOK, c
<1>7. g.client = c \o b
  BY ZenonT(30) DEF b, c
<1>8. DataFrom(0, c \o b)
  <2>1. ASSUME NEW i \in 1 .. Len(c \o b) PROVE (c \o b)[i] = Data(0 + i)
    <3>1. CASE i \in 1 .. Len(c)
      BY <1>3, <1>5, <1>6, <3>1, ZenonT(30) DEF DataFrom
    <3>2. CASE i \notin 1 .. Len(c)
      <4>1. i - Len(c) \in 1 .. Len(b) /\ i = Len(c) + (i - Len(c)) /\ i - Len(c) \in 1 .. Len(u) /\ i = 0 + i
        BY <1>3, <1>4, <1>5, <3>2
      <4>2. u[i - Len(c)] = Data(Len(c) + (i - Len(c)))
        BY <1>6, <4>1, ZenonT(30) DEF DataFrom
      <4>3. (c \o b)[Len(c) + (i - Len(c))] = b[i - Len(c)] /\ u[i - Len(c)] = b[i - Len(c)]
        BY <1>4, <1>5, <4>1, ZenonT(30)
      <4>4. QED
        BY <4>1, <4>2, <4>3, ZenonT(30)
    <3>3. QED
      BY <3>1, <3>2, ZenonT(30)
  <2>2. QED
    BY <2>1, ZenonT(30) DEF DataFrom
<1>9. DataFrom(Len(c \o b), w)
  <2>1. ASSUME NEW i \in 1 .. Len(w) PROVE w[i] = Data(Len(c \o b) + i)
    <3>1. Len(b) + i \in 1 .. Len(u) /\ Len(c) + (Len(b) + i) = Len(c \o b) + i
      BY <1>3, <1>4, <1>5
    <3>2. u[Len(b) + i] = Data(Len(c) + (Len(b) + i))
      BY <1>6, <3>1, ZenonT(30) DEF DataFrom
    <3>3. QED
      BY <1>4, <3>1, <3>2, ZenonT(30)
  <2>2. QED
    BY <2>1, ZenonT(30) DEF DataFrom
<1>10. v.link # "reset" => Len(c \o b) + Len(w) = v.said
  BY <1>3, <1>4, <1>5, <1>6
<1>11. g.inbuf \o w = w /\ Silent(g, v)
  BY <1>6, JoinedEmpty, ZenonT(30) DEF Silent
<1>12. SetupOK(W.proxy, "write", g, w, v)
  BY <1>7, <1>8, <1>9, <1>10, <1>11, ZenonT(30) DEF SetupOK, Waiting
<1>13. QED
  BY <1>1, <1>11, <1>12, ZenonT(30) DEF SessionOK, Live

\* A challenge by Digest is going to be taken up.
LEMMA ChallengeReceivedOK ==
    ASSUME NEW W \in Worlds, NEW h \in HandlerSet, NEW w \in Seq(Unit), NEW v \in ServerSet,
           NEW k, SessionOK(W, "change", h, w, v, k), h.state = "ExpectResponseHeaders", Complete(h.inbuf),
           h.inbuf[1].part = "first", h.inbuf[1].of.name = "407", h.inbuf[1].of.scheme = "Digest"
    PROVE  SessionOK(W, "challenged", h, w, v, k)
<1> DEFINE u == h.inbuf \o w
<1>1. SetupOK(W.proxy, "change", h, u, v) /\ NotGiven(k)
  BY ZenonT(30) DEF SessionOK, Live
<1>2. Len(h.inbuf) >= 2 /\ u[1] = h.inbuf[1] /\ Answered(Request(W.proxy, h.state), h.inbuf[1].of, h, u, v)
  BY CompleteReply, ZenonT(30) DEF Waiting
<1> HIDE DEF u
<1>3. Request(W.proxy, h.state) = "CONNECT"
  BY ZenonT(30) DEF Request
<1>4. SetupOK(W.proxy, "challenged", h, u, v)
  BY <1>1, <1>2, <1>3, ZenonT(30) DEF SetupOK, Waiting
<1>5. QED
  BY <1>1, <1>4, ZenonT(30) DEF SessionOK, Live, u

\* A challenge taken up: the rest of its body stays on the wire.
LEMMA EmptiedOK ==
    ASSUME NEW W \in Worlds, NEW h \in HandlerSet, NEW g \in HandlerSet, NEW w \in Seq(Unit), NEW v \in ServerSet,
           NEW k, SessionOK(W, "challenged", h, w, v, k), h.state = "ExpectResponseHeaders",
           g.inbuf = <<>>, g.client = h.client, g.state = h.state, g.out = <<>>
    PROVE  SessionOK(W, "scheme", g, w, v, k)
<1> DEFINE b == h.inbuf
           u == b \o w
<1>1. SetupOK(W.proxy, "challenged", h, u, v) /\ NotGiven(k)
  BY ZenonT(30) DEF SessionOK, Live
<1>2. b \in Seq(Unit) /\ Len(b) \in Nat /\ Len(w) \in Nat
  BY DEF HandlerSet
<1> HIDE DEF b
<1>3. Len(u) = Len(b) + Len(w) /\ \A i \in 1 .. Len(w) : u[Len(b) + i] = w[i]
  BY <1>2, Joined2
<1> HIDE DEF u
<1>4. u[1].of.name = "407" /\ Answered("CONNECT", u[1].of, h, u, v) /\ Len(b) >= 2 /\ h.client = <<>>
  BY <1>1, ZenonT(30) DEF SetupOK, Waiting, b
<1>5. Bodies(w)
  <2>1. ASSUME NEW i \in 1 .. Len(w) PROVE w[i].part = "body"
    <3>1. Len(b) + i \in 1 .. Len(u) /\ Len(b) + i # 1 /\ Len(b) + i # 2
      BY <1>2, <1>3, <1>4
    <3>2. u[Len(b) + i] = Place(u[1].of, Len(b) + i)
      BY <1>4, <3>1, ZenonT(30) DEF Answered, Opens
    <3>3. u[Len(b) + i] = [of |-> u[1].of, part |-> "body"]
      BY <1>4, <3>1, <3>2, ZenonT(30) DEF Place
    <3>4. QED
      BY <1>3, <3>3
  <2>2. QED
    BY <2>1, ZenonT(30) DEF Bodies
<1>6. Unsaid(v) /\ Silent(g, v)
  BY <1>4, ZenonT(30) DEF Answered, Silent
<1>7. g.inbuf \o w = w
  BY JoinedEmpty, ZenonT(30)
<1>8. SetupOK(W.proxy, "scheme", g, w, v)
  BY <1>4, <1>5, <1>6, ZenonT(30) DEF SetupOK, Waiting
<1>9. QED
  BY <1>1, <1>7, <1>8, ZenonT(30) DEF SessionOK, Live

\* A challenge taken up whose length is known: all of it is to be skipped.
LEMMA SkippingOK ==
    ASSUME NEW W \in Worlds, NEW h \in HandlerSet, NEW g \in HandlerSet, NEW w \in Seq(Unit), NEW v \in ServerSet,
           NEW k, SessionOK(W, "challenged", h, w, v, k), h.state = "ExpectResponseHeaders",
           g.inbuf = h.inbuf, g.client = h.client, g.state = "ExpectResponse", g.out = h.out,
           h.inbuf[1].of.length \in Nat, g.skip = h.inbuf[1].of.length + 2
    PROVE  SessionOK(W, "change", g, w, v, k)
<1> DEFINE b == h.inbuf
           u == b \o w
<1>1. SetupOK(W.proxy, "challenged", h, u, v) /\ NotGiven(k)
  BY ZenonT(30) DEF SessionOK, Live
<1>2. b \in Seq(Unit) /\ Len(b) \in Nat
  BY DEF HandlerSet
<1>3. u \in Seq(Unit) /\ \A i \in 1 .. Len(b) : u[i] = b[i]
  BY <1>2, Joined2
<1>4. Len(u) \in Nat
  BY <1>3
<1> HIDE DEF b, u
<1>5. u[1].of.name = "407" /\ Answered("CONNECT", u[1].of, h, u, v) /\ Len(b) >= 2 /\ h.client = <<>>
  BY <1>1, ZenonT(30) DEF SetupOK, Waiting, b
<1>6. u[1] = b[1]
  BY <1>2, <1>3, <1>5
<1>7. Len(u) <= g.skip /\ Unsaid(v) /\ Silent(g, v)
  BY <1>4, <1>5, <1>6 DEF Answered, Extent, Silent, b
<1>8. SetupOK(W.proxy, "change", g, u, v)
  BY <1>5, <1>7, ZenonT(30) DEF SetupOK, Waiting
<1>9. QED
  BY <1>1, <1>8, ZenonT(30) DEF SessionOK, Live, u, b

\* What is left to skip covers what is left.
LEMMA SkipLess ==
    ASSUME NEW e \in Nat, NEW i \in Nat, NEW j \in Nat, NEW n \in Nat, i + j <= e, n <= i
    PROVE  (i - n) + j <= e - n
OBVIOUS

\* What is held of the challenge is skipped.
LEMMA SkippedOK ==
    ASSUME NEW W \in Worlds, NEW h \in HandlerSet, NEW g \in HandlerSet, NEW w \in Seq(Unit), NEW v \in ServerSet,
           NEW k, SessionOK(W, "change", h, w, v, k), h.state = "ExpectResponse",
           NEW n \in Nat, n = IF h.skip < Len(h.inbuf) THEN h.skip ELSE Len(h.inbuf),
           g.inbuf = SubSeq(h.inbuf, n + 1, Len(h.inbuf)), g.client = h.client, g.state = h.state, g.out = h.out,
           g.skip = h.skip - n
    PROVE  SessionOK(W, IF h.skip = n THEN "scheme" ELSE "write", g, w, v, k)
<1> DEFINE b == h.inbuf
           u == b \o w
           x == SubSeq(b, n + 1, Len(b))
<1>1. SetupOK(W.proxy, "change", h, u, v) /\ NotGiven(k)
  BY ZenonT(30) DEF SessionOK, Live
<1>2. b \in Seq(Unit) /\ Len(b) \in Nat /\ Len(w) \in Nat /\ h.skip \in Nat /\ g.skip \in Nat
  BY DEF HandlerSet
<1>3. n <= Len(b)
  BY <1>2
<1> HIDE DEF b
<1>4. x \in Seq(Unit) /\ Len(x) = Len(b) - n
  BY <1>2, <1>3, LaterPart, ZenonT(30)
<1>5. g.inbuf = x
  BY ZenonT(30) DEF b
<1> HIDE DEF x
<1>6. Len(x \o w) = Len(x) + Len(w) /\ Len(u) = Len(b) + Len(w)
  BY <1>2, <1>4, Joined2, ZenonT(30)
<1> HIDE DEF u
<1>7. Silent(g, v) /\ Unsaid(v) /\ Len(u) <= h.skip /\ g.client = <<>>
  BY <1>1, ZenonT(30) DEF SetupOK, Silent
<1>8. Len(x \o w) <= g.skip
  <2> DEFINE e == h.skip
             i == Len(b)
             j == Len(w)
  <2>1. e \in Nat /\ i \in Nat /\ j \in Nat /\ i + j <= e /\ n <= i
    BY <1>2, <1>3, <1>6, <1>7, ZenonT(30)
  <2>2. g.skip = e - n /\ Len(x \o w) = (i - n) + j
    BY <1>4, <1>6, ZenonT(30)
  <2> HIDE DEF e, i, j
  <2>3. (i - n) + j <= e - n
    BY <2>1, SkipLess, ZenonT(30)
  <2>4. QED
    BY <2>2, <2>3, ZenonT(30)
<1>9. ASSUME NEW l \in {"scheme", "write"}, l = "scheme" => g.skip = 0
      PROVE  SetupOK(W.proxy, l, g, x \o w, v)
  BY <1>7, <1>8, <1>9, ZenonT(30) DEF SetupOK, Waiting
<1>10. CASE h.skip = n
  <2>1. SetupOK(W.proxy, "scheme", g, x \o w, v)
    BY <1>2, <1>9, <1>10
  <2>2. QED
    BY <1>1, <1>5, <1>10, <2>1, ZenonT(30) DEF SessionOK, Live
<1>11. CASE h.skip # n
  <2>1. SetupOK(W.proxy, "write", g, x \o w, v)
    BY <1>9, ZenonT(30)
  <2>2. QED
    BY <1>1, <1>5, <1>11, <2>1, ZenonT(30) DEF SessionOK, Live
<1>12. QED
  BY <1>10, <1>11, ZenonT(30)

\* The next response is expected.
LEMMA ResetOK ==
    ASSUME NEW W \in Worlds, NEW h \in HandlerSet, NEW g \in HandlerSet, NEW w \in Seq(Unit), NEW v \in ServerSet,
           NEW k, SessionOK(W, "change", h, w, v, k), h.state = "Reset",
           g.inbuf = h.inbuf, g.client = h.client, g.state = "ExpectResponseHeaders", g.out = h.out
    PROVE  SessionOK(W, "change", g, w, v, k)
<1> DEFINE u == h.inbuf \o w
<1>1. SetupOK(W.proxy, "change", h, u, v) /\ NotGiven(k)
  BY ZenonT(30) DEF SessionOK, Live
<1> HIDE DEF u
<1>2. Waits("CONNECT", h, u, v) /\ h.client = <<>>
  BY <1>1, ZenonT(30) DEF SetupOK, Waiting, Request
<1>3. Waits("CONNECT", g, u, v)
  BY <1>2, ZenonT(30) DEF Waits, Unanswered, Answered, Silent, Few
<1>4. SetupOK(W.proxy, "change", g, u, v)
  BY <1>2, <1>3, ZenonT(30) DEF SetupOK, Waiting, Request
<1>5. QED
  BY <1>1, <1>4, ZenonT(30) DEF SessionOK, Live, u

\* An HTTP handler queues its first request, or its next one.
LEMMA TunnelRequestOK ==
    ASSUME NEW W \in Worlds, NEW h \in HandlerSet, NEW g \in HandlerSet, NEW w \in Seq(Unit), NEW v \in ServerSet,
           NEW k, NEW l \in {"firstAnswer", "answer"}, SessionOK(W, l, h, w, v, k),
           g.inbuf = h.inbuf, g.client = h.client, g.before = h.before,
           h.out = <<>> => Len(g.out) = 1 /\ g.out[1].name = "CONNECT",
           NEW m \in {"connect", "write", "change"}, m = "connect" => l = "firstAnswer",
           g.state \in {"ExpectResponseHeaders", "Reset"}
    PROVE  SessionOK(W, m, g, w, v, k)
<1> DEFINE u == h.inbuf \o w
<1>1. /\ Silent(h, v) /\ Unsaid(v) /\ Bodies(u) /\ h.client = <<>> /\ NotGiven(k)
      /\ l = "firstAnswer" => Untouched(W.proxy, g, w, v)
  <2>1. CASE l = "firstAnswer"
    <3>1. Untouched(W.proxy, h, w, v) /\ Starts(W.proxy, h) /\ W.proxy = "http" /\ NotGiven(k)
      BY <2>1, ZenonT(30) DEF SessionOK
    <3>2. u = <<>> /\ Len(u) = 0
      BY <3>1, JoinedEmpty, EmptySeq DEF Untouched
    <3> HIDE DEF u
    <3>3. Bodies(u)
      BY <3>2 DEF Bodies
    <3>4. QED
      BY <2>1, <3>1, <3>3, ZenonT(30) DEF Untouched, Starts, Silent, Unsaid
  <2>2. CASE l = "answer"
    <3>1. SetupOK(W.proxy, "answer", h, u, v) /\ NotGiven(k)
      BY <2>2, ZenonT(30) DEF SessionOK, Live
    <3>2. u \in Seq(Unit)
      BY Joined2, ZenonT(30) DEF HandlerSet
    <3>3. Len(u) \in Nat
      BY <3>2
    <3> HIDE DEF u
    <3>4. CASE h.state = "ExpectResponse"
      <4>1. Len(u) <= 0 /\ Silent(h, v) /\ Unsaid(v) /\ h.client = <<>>
        BY <3>1, <3>4, ZenonT(30) DEF SetupOK
      <4>2. Bodies(u)
        BY <3>3, <4>1 DEF Bodies
      <4>3. QED
        BY <2>2, <3>1, <3>4, <4>1, <4>2, ZenonT(30)
    <3>5. CASE h.state # "ExpectResponse"
      BY <2>2, <3>1, <3>5, ZenonT(30) DEF SetupOK, Waiting, HandlerSet
    <3>6. QED
      BY <3>4, <3>5, ZenonT(30)
  <2>3. QED
    BY <2>1, <2>2, ZenonT(30)
<1> HIDE DEF u
<1>2. Len(g.out) = 1 /\ g.out[1].name = "CONNECT"
  BY <1>1, ZenonT(30) DEF Silent
<1>3. Waits("CONNECT", g, u, v)
  BY <1>1, <1>2, ZenonT(30) DEF Waits, Unanswered, Silent
<1>4. SetupOK(W.proxy, m, g, u, v)
  BY <1>1, <1>3, ZenonT(30) DEF SetupOK, Waiting, Request
<1>5. QED
  BY <1>1, <1>4, ZenonT(30) DEF SessionOK, Live, u

-----------------------------------------------------------------------------
\* A handler in the last place of the setup is established and holds only
\* what is for the client.
LEMMA PrefetchPlace ==
    ASSUME NEW W \in Worlds, NEW h \in HandlerSet, NEW w \in Seq(Unit), NEW v \in ServerSet, NEW k,
           SessionOK(W, "prefetch", h, w, v, k)
    PROVE  /\ v.asked = <<>> /\ DataFrom(0, h.client) /\ DataFrom(Len(h.client), w)
           /\ v.link # "reset" => Len(h.client) + Len(w) = v.said
           /\ NotGiven(k)
<1> DEFINE u == h.inbuf \o w
<1>1. SetupOK(W.proxy, "prefetch", h, u, v) /\ NotGiven(k)
  BY ZenonT(30) DEF SessionOK, Live
<1>2. h.inbuf = <<>> => u = w
  BY JoinedEmpty, ZenonT(30)
<1> HIDE DEF u
<1>3. h.state = "Established"
  BY <1>1, ZenonT(30) DEF SetupOK, HandlerSet, Waiting
<1>4. QED
  BY <1>1, <1>2, <1>3, ZenonT(30) DEF SetupOK, Silent

\* The switch to the raw connection.
LEMMA PrefetchOK ==
    ASSUME NEW W \in Worlds, NEW h \in HandlerSet, NEW g, NEW w \in Seq(Unit), NEW v \in ServerSet,
           NEW k \in RelaySet, NEW k2 \in RelaySet, SessionOK(W, "prefetch", h, w, v, k),
           k2.pending = h.client, k2.given = k.given, k2.down = k.down
    PROVE  SessionOK(W, "relay", g, w, v, k2)
<1>1. /\ v.asked = <<>> /\ DataFrom(Len(h.client), w)
      /\ v.link # "reset" => Len(h.client) + Len(w) = v.said
      /\ NotGiven(k) /\ DataFrom(0, h.client)
  BY PrefetchPlace, ZenonT(30)
<1>2. Len(k2.given) = 0 /\ k2.down = "emit" /\ Len(h.client) \in Nat /\ Len(w) \in Nat
  BY <1>1, EmptySeq, ZenonT(30) DEF NotGiven, HandlerSet
<1>3. RelayOK(w, v, k2)
  BY <1>1, <1>2 DEF RelayOK
<1>4. DataFrom(0, k2.given) /\ Len(k2.given) % 2 = 0
  BY <1>2 DEF DataFrom
<1>5. QED
  BY <1>3, <1>4, ZenonT(30) DEF SessionOK, Live

(* The first n pieces of b have moved to the end of a.                     *)
MovesUp(a, b, n, x, y) == x = a \o SubSeq(b, 1, n) /\ y = SubSeq(b, n + 1, Len(b))

InOrder(m, a, b) == DataFrom(m, a) /\ DataFrom(m + Len(a), b)

\* What moves from the start of one stretch of data to the end of another.
LEMMA DataMoves ==
    ASSUME NEW a \in Seq(Unit), NEW b \in Seq(Unit), NEW m \in Nat, NEW n \in Nat, n <= Len(b),
           NEW x, NEW y, MovesUp(a, b, n, x, y), InOrder(m, a, b)
    PROVE  /\ x \in Seq(Unit) /\ Len(x) = Len(a) + n /\ y \in Seq(Unit) /\ InOrder(m, x, y)
           /\ Len(x) + Len(y) = Len(a) + Len(b)
<1> DEFINE p == SubSeq(b, 1, n)
           q == SubSeq(b, n + 1, Len(b))
<1>1. /\ p \in Seq(Unit) /\ Len(p) = n /\ \A i \in 1 .. n : p[i] = b[i]
      /\ q \in Seq(Unit) /\ Len(q) = Len(b) - n /\ \A i \in 1 .. Len(b) - n : q[i] = b[n + i]
  BY FirstPart, LaterPart, ZenonT(30)
<1>2. Len(a) \in Nat /\ Len(b) \in Nat
  OBVIOUS
<1> HIDE DEF p, q
<1>3. /\ a \o p \in Seq(Unit) /\ Len(a \o p) = Len(a) + Len(p)
      /\ \A i \in 1 .. Len(a) : (a \o p)[i] = a[i]
      /\ \A i \in 1 .. Len(p) : (a \o p)[Len(a) + i] = p[i]
  <2>1. p \in Seq(Unit)
    BY <1>1, ZenonT(30)
  <2>2. QED
    BY <2>1, Joined2
<1>4. ASSUME NEW i \in 1 .. Len(a \o p) PROVE (a \o p)[i] = Data(m + i)
  <2>1. CASE i \in 1 .. Len(a)
    BY <1>3, <2>1, ZenonT(30) DEF InOrder, DataFrom
  <2>2. CASE i \notin 1 .. Len(a)
    <3>1. /\ i - Len(a) \in 1 .. n /\ i = Len(a) + (i - Len(a)) /\ i - Len(a) \in 1 .. Len(b)
          /\ (m + Len(a)) + (i - Len(a)) = m + i
      BY <1>1, <1>2, <1>3, <2>2
    <3>2. b[i - Len(a)] = Data((m + Len(a)) + (i - Len(a)))
      BY <3>1, ZenonT(30) DEF InOrder, DataFrom
    <3>3. (a \o p)[Len(a) + (i - Len(a))] = p[i - Len(a)] /\ p[i - Len(a)] = b[i - Len(a)]
      BY <1>1, <1>3, <3>1, ZenonT(30)
    <3>4. QED
      BY <3>1, <3>2, <3>3, ZenonT(30)
  <2>3. QED
    BY <2>1, <2>2, ZenonT(30)
<1>5. ASSUME NEW i \in 1 .. Len(q) PROVE q[i] = Data((m + Len(a) + n) + i)
  <2>1. n + i \in 1 .. Len(b) /\ (m + Len(a)) + (n + i) = (m + Len(a) + n) + i /\ i \in 1 .. Len(b) - n
    BY <1>1, <1>2
  <2>2. b[n + i] = Data((m + Len(a)) + (n + i))
    BY <2>1, ZenonT(30) DEF InOrder, DataFrom
  <2>3. QED
    BY <1>1, <2>1, <2>2, ZenonT(30)
<1>6. DataFrom(m, a \o p) /\ DataFrom(m + Len(a) + n, q)
  BY <1>4, <1>5, ZenonT(30) DEF DataFrom
<1>7. Len(a \o p) = Len(a) + n /\ m + Len(a \o p) = m + Len(a) + n /\ Len(a \o p) + Len(q) = Len(a) + Len(b)
  BY <1>1, <1>2, <1>3
<1>8. x = a \o p /\ y = q
  BY ZenonT(30) DEF p, q, MovesUp
<1>9. QED
  BY <1>1, <1>3, <1>6, <1>7, <1>8, ZenonT(30) DEF InOrder

\* Two whole numbers of frames.
LEMMA FramesAdd ==
    ASSUME NEW a \in Nat, NEW n \in Nat, a % 2 = 0, n % 2 = 0
    PROVE  (a + n) % 2 = 0
OBVIOUS

\* What may be given goes to the client.
LEMMA EmitsOK ==
    ASSUME NEW W \in Worlds, NEW h, NEW w \in Seq(Unit), NEW v \in ServerSet,
           NEW k \in RelaySet, NEW k2 \in RelaySet, SessionOK(W, "relay", h, w, v, k), k2.down = "read",
           Len(k2.given) + Len(k2.pending) = Len(k.given) + Len(k.pending),
           DataFrom(0, k2.given), DataFrom(Len(k2.given), k2.pending),
           W.filter => Len(k2.given) % 2 = 0
    PROVE  SessionOK(W, "relay", h, w, v, k2)
<1>1. RelayOK(w, v, k)
  BY ZenonT(30) DEF SessionOK
<1>2. RelayOK(w, v, k2)
  BY <1>1, ZenonT(30) DEF RelayOK
<1>3. QED
  BY <1>2, ZenonT(30) DEF SessionOK, Live

\* More is read from the server.
LEMMA PumpReadsOK ==
    ASSUME NEW W \in Worlds, NEW h, NEW w \in Seq(Unit), NEW w2 \in Seq(Unit), NEW v \in ServerSet,
           NEW k \in RelaySet, NEW k2 \in RelaySet, SessionOK(W, "relay", h, w, v, k),
           k2.given = k.given, k2.down = "emit",
           Len(k2.given) + Len(k2.pending) + Len(w2) = Len(k.given) + Len(k.pending) + Len(w),
           DataFrom(Len(k2.given), k2.pending), DataFrom(Len(k2.given) + Len(k2.pending), w2)
    PROVE  SessionOK(W, "relay", h, w2, v, k2)
<1>1. RelayOK(w, v, k) /\ DataFrom(0, k2.given) /\ (W.filter => Len(k2.given) % 2 = 0)
  BY ZenonT(30) DEF SessionOK
<1>2. RelayOK(w2, v, k2)
  BY <1>1, ZenonT(30) DEF RelayOK
<1>3. QED
  BY <1>1, <1>2, ZenonT(30) DEF SessionOK, Live

\* The end of the server's data, and that of the client's.
LEMMA PumpEndsOK ==
    ASSUME NEW W \in Worlds, NEW h, NEW w \in Seq(Unit), NEW v \in ServerSet,
           NEW k \in RelaySet, NEW k2 \in RelaySet, SessionOK(W, "relay", h, w, v, k),
           k2.given = k.given, k2.pending = k.pending,
           \/ k2.down = k.down
           \/ k2.down = "eof" /\ w = <<>> /\ k.pending = <<>> /\ v.link = "eof"
    PROVE  SessionOK(W, "relay", h, w, v, k2)
<1>1. RelayOK(w, v, k)
  BY ZenonT(30) DEF SessionOK
<1>2. RelayOK(w, v, k2)
  BY <1>1, ZenonT(30) DEF RelayOK
<1>3. QED
  BY <1>2, ZenonT(30) DEF SessionOK, Live

\* A session whose two directions have ended has given everything.
LEMMA JoinedOK ==
    ASSUME NEW W \in Worlds, NEW h, NEW w \in Seq(Unit), NEW v \in ServerSet,
           NEW k \in RelaySet, SessionOK(W, "relay", h, w, v, k), k.down = "eof"
    PROVE  SessionOK(W, "done", h, w, v, k)
<1>1. RelayOK(w, v, k)
  BY ZenonT(30) DEF SessionOK
<1>2. Len(k.given) \in Nat
  BY DEF RelaySet
<1>3. k.pending = <<>> /\ w = <<>> /\ Len(k.given) + Len(k.pending) + Len(w) = v.said
  BY <1>1, ZenonT(30) DEF RelayOK
<1>5. Len(k.given) = v.said
  BY <1>2, <1>3
<1>4. QED
  BY <1>5, ZenonT(30) DEF SessionOK, Live

-----------------------------------------------------------------------------
\* A session with a request that has been sent waits for the reply.
LEMMA AskedPlace ==
    ASSUME NEW W \in Worlds, NEW h \in HandlerSet, NEW w \in Seq(Unit), NEW v \in ServerSet, NEW k,
           NEW l \in Live \cup {"relay"}, SessionOK(W, l, h, w, v, k), v.asked # <<>>, l # "connect"
    PROVE  /\ l \in {"write", "read", "change"} /\ h.state \in Waiting
           /\ \/ Unanswered(Request(W.proxy, h.state), h, h.inbuf \o w, v)
              \/ Blocked(Request(W.proxy, h.state), h.inbuf \o w, v)
           /\ h.client = <<>> /\ NotGiven(k) /\ Len(v.asked) = 1 /\ h.out = <<>>
<1> DEFINE u == h.inbuf \o w
<1>1. l # "relay"
  BY ZenonT(30) DEF SessionOK, RelayOK
<1>2. SetupOK(W.proxy, l, h, u, v) /\ NotGiven(k)
  BY <1>1, ZenonT(30) DEF SessionOK, Live
<1> HIDE DEF u
<1>3. ~ Silent(h, v)
  BY ZenonT(30) DEF Silent
<1>4. h.state \in Waiting
  BY <1>2, <1>3, ZenonT(30) DEF SetupOK, Waiting, HandlerSet
<1>5. l \in {"write", "read", "change"} /\ Waits(Request(W.proxy, h.state), h, u, v) /\ h.client = <<>>
  BY <1>2, <1>3, <1>4, ZenonT(30) DEF SetupOK, Answered, Waiting
<1>6. ~ Answered(Request(W.proxy, h.state), u[1].of, h, u, v)
  BY <1>3, ZenonT(30) DEF Answered
<1>7. Few(h, v)
  BY <1>5, <1>6, FewFacts, ZenonT(30) DEF Waits
<1>8. Len(v.asked) = 1 /\ h.out = <<>>
  BY <1>7, FewFacts, ZenonT(30)
<1>9. QED
  BY <1>2, <1>4, <1>5, <1>6, <1>8, ZenonT(30) DEF Waits, u

\* The pieces of a reply.
LEMMA PiecesFacts ==
    ASSUME NEW r \in Reply
    PROVE  /\ Pieces(r) \in Seq(Unit) /\ Opens(r, Pieces(r)) /\ Len(Pieces(r)) \in Nat
           /\ Len(Pieces(r)) = IF r.name = "407" THEN 2 + r.length ELSE 2
<1> DEFINE a == <<[of |-> r, part |-> "first"], [of |-> r, part |-> "end"]>>
           c == [i \in 1 .. r.length |-> [of |-> r, part |-> "body"]]
<1>1. [of |-> r, part |-> "first"] \in Unit /\ [of |-> r, part |-> "end"] \in Unit /\ [of |-> r, part |-> "body"] \in Unit
  BY ZenonT(30) DEF Unit
<1>2. a \in Seq(Unit) /\ Len(a) = 2 /\ a[1] = [of |-> r, part |-> "first"] /\ a[2] = [of |-> r, part |-> "end"]
  BY <1>1
<1>3. CASE r.name # "407"
  <2>1. Pieces(r) = a
    BY <1>2, <1>3, JoinedEmpty, ZenonT(30) DEF Pieces
  <2> HIDE DEF a
  <2>2. Opens(r, a)
    BY <1>2 DEF Opens, Place
  <2>3. QED
    BY <1>2, <1>3, <2>1, <2>2
<1>4. CASE r.name = "407"
  <2>1. r.length \in Nat
    BY <1>4, ZenonT(30) DEF Reply, Challenge
  <2>2. c \in Seq(Unit) /\ Len(c) = r.length /\ \A i \in 1 .. r.length : c[i] = [of |-> r, part |-> "body"]
    BY <1>1, <2>1
  <2>3. Pieces(r) = a \o c
    BY <1>4, ZenonT(30) DEF Pieces
  <2> HIDE DEF a, c
  <2>4. /\ a \o c \in Seq(Unit) /\ Len(a \o c) = 2 + r.length
        /\ \A i \in 1 .. 2 : (a \o c)[i] = a[i]
        /\ \A i \in 1 .. r.length : (a \o c)[2 + i] = c[i]
    <3>1. a \in Seq(Unit) /\ c \in Seq(Unit)
      BY <1>2, <2>2, ZenonT(30)
    <3>2. /\ a \o c \in Seq(Unit) /\ Len(a \o c) = Len(a) + Len(c)
          /\ \A i \in 1 .. Len(a) : (a \o c)[i] = a[i]
          /\ \A i \in 1 .. Len(c) : (a \o c)[Len(a) + i] = c[i]
      BY <3>1, Joined2
    <3>3. QED
      BY <1>2, <2>2, <3>2, ZenonT(30)
  <2>5. ASSUME NEW i \in 1 .. Len(a \o c) PROVE (a \o c)[i] = Place(r, i)
    <3>1. CASE i \in {1, 2}
      BY <1>2, <2>4, <3>1 DEF Place
    <3>2. CASE i \notin {1, 2}
      <4>1. i - 2 \in 1 .. r.length /\ i = 2 + (i - 2)
        BY <2>1, <2>4, <3>2
      <4>2. (a \o c)[2 + (i - 2)] = [of |-> r, part |-> "body"]
        BY <2>2, <2>4, <4>1, ZenonT(30)
      <4>3. QED
        BY <1>4, <3>2, <4>1, <4>2, ZenonT(30) DEF Place
    <3>3. QED
      BY <3>1, <3>2, ZenonT(30)
  <2>6. QED
    BY <1>4, <2>1, <2>3, <2>4, <2>5 DEF Opens
<1>5. QED
  BY <1>3, <1>4, ZenonT(30)

\* The server answers the request.
LEMMA AnswersOK ==
    ASSUME NEW W \in Worlds, NEW h \in HandlerSet, NEW w \in Seq(Unit), NEW v \in ServerSet, NEW v2 \in ServerSet,
           NEW k, NEW l \in Live \cup {"relay"}, l # "connect", SessionOK(W, l, h, w, v, k),
           v.asked # <<>>, v.link = "open", NEW r \in Reply, NEW q, q = v.asked[1],
           r.name \in ReplyNames(q.name), v2.asked = Tail(v.asked), v2.link # "reset", v2.said = v.said,
           v2.granted = (r.name = "200" \/ (r.name = "granted" /\ q.name # "password"))
    PROVE  SessionOK(W, l, h, w \o Pieces(r), v2, k)
<1> DEFINE b == h.inbuf
           u == b \o w
           p == Pieces(r)
           n == Request(W.proxy, h.state)
<1>1. /\ l \in {"write", "read", "change"} /\ h.state \in Waiting
      /\ Unanswered(n, h, u, v) \/ Blocked(n, u, v)
      /\ h.client = <<>> /\ NotGiven(k) /\ Len(v.asked) = 1 /\ h.out = <<>>
  BY AskedPlace, ZenonT(30)
<1>2. b \in Seq(Unit) /\ v.asked \in Seq(Query)
  BY ZenonT(30) DEF HandlerSet, ServerSet
<1>3. p \in Seq(Unit) /\ Opens(r, p) /\ Len(p) = IF r.name = "407" THEN 2 + r.length ELSE 2
  BY PiecesFacts, ZenonT(30)
<1> HIDE DEF b, p, n
<1>4. u \in Seq(Unit) /\ b \o (w \o p) = u \o p
  <2>1. b \in Seq(Unit) /\ p \in Seq(Unit)
    BY <1>2, <1>3, ZenonT(30)
  <2>2. u \in Seq(Unit)
    BY <2>1, Joined2, ZenonT(30)
  <2>3. (b \o w) \o p = b \o (w \o p)
    BY <2>1, JoinedTwice
  <2>4. QED
    BY <2>2, <2>3, ZenonT(30)
<1> HIDE DEF u
<1>5. u # <<>> => u \o p # <<>> /\ (u \o p)[1] = u[1]
  BY <1>3, <1>4, Joined2
<1>6. u = <<>> => u \o p = p
  BY <1>3, JoinedEmpty, ZenonT(30)
<1>7. Waits(n, h, u \o p, v2)
  <2>0. Few(h, v2)
    <3>1. v2.asked = <<>>
      BY <1>1, <1>2, TailOfOne, ZenonT(30)
    <3>2. Silent(h, v2)
      BY <1>1, <3>1, ZenonT(30) DEF Silent
    <3>3. QED
      BY <3>2, FewFacts, ZenonT(30)
  <2>1. CASE Blocked(n, u, v)
    BY <1>5, <2>0, <2>1, ZenonT(30) DEF Waits, Blocked
  <2>2. CASE Unanswered(n, h, u, v) /\ u # <<>>
    <3>1. n = "CONNECT" /\ u[1].part = "body"
      <4>1. Len(u) \in Nat /\ Len(u) # 0
        BY <1>4, <2>2
      <4>2. QED
        BY <2>2, <4>1 DEF Unanswered, Bodies
    <3>2. QED
      BY <1>5, <2>0, <2>2, <3>1, ZenonT(30) DEF Waits, Blocked
  <2>3. CASE Unanswered(n, h, u, v) /\ u = <<>>
    <3>1. h.out = <<>> /\ Len(v.asked) = 1 /\ q.name = n /\ Unsaid(v)
      BY <2>3, ZenonT(30) DEF Unanswered
    <3>2. v2.asked = <<>>
      BY <1>2, <3>1, TailOfOne, ZenonT(30)
    <3>3. r.name \notin {"200", "granted"} \/ n = "password" => Unsaid(v2)
      BY <3>1, ZenonT(30) DEF Unsaid, ReplyNames
    <3>4. v2.said = 0 /\ Extent(r, v2) = Len(p)
      BY <1>3, <3>1 DEF Extent, Unsaid
    <3>5. Len(p) \in Nat /\ p # <<>> /\ p[1].of = r
      BY <1>3, <3>4, EmptySeq DEF Reply, Challenge, Opens, Place
    <3>6. Answered(n, r, h, p, v2)
      <4>1. Opens(r, p) /\ r.name \in ReplyNames(n) /\ Silent(h, v2)
        BY <1>3, <3>1, <3>2, ZenonT(30) DEF Silent
      <4>2. Len(p) <= Extent(r, v2) /\ Len(p) = Extent(r, v2)
        BY <3>4, <3>5
      <4>3. QED
        BY <3>3, <4>1, <4>2, ZenonT(30) DEF Answered
    <3>7. QED
      BY <1>6, <2>3, <3>5, <3>6, ZenonT(30) DEF Waits
  <2>4. QED
    BY <1>1, <2>1, <2>2, <2>3, ZenonT(30)
<1>8. SetupOK(W.proxy, l, h, u \o p, v2)
  BY <1>1, <1>7, ZenonT(30) DEF SetupOK, Waiting, n
<1>9. QED
  BY <1>1, <1>4, <1>8, ZenonT(30) DEF SessionOK, Live, b, u, p

\* The server says something: it has agreed, so it follows its reply.
LEMMA SpeaksOK ==
    ASSUME NEW W \in Worlds, NEW h \in HandlerSet, NEW w \in Seq(Unit), NEW v \in ServerSet, NEW v2 \in ServerSet,
           NEW k \in RelaySet, NEW l \in Live \cup {"relay"}, l # "connect", SessionOK(W, l, h, w, v, k),
           v.link = "open", v.granted, NEW d \in Unit, d = Data(v.said + 1),
           v2.asked = v.asked, v2.link = v.link, v2.granted = v.granted, v2.said = v.said + 1
    PROVE  SessionOK(W, l, h, w \o <<d>>, v2, k)
<1> DEFINE b == h.inbuf
           u == b \o w
           e == <<d>>
<1>1. b \in Seq(Unit) /\ v.said \in Nat /\ Len(b) \in Nat
  BY DEF HandlerSet, ServerSet
<1>2. e \in Seq(Unit) /\ Len(e) = 1 /\ e[1] = d
  OBVIOUS
<1> HIDE DEF b, e
<1>3. u \in Seq(Unit) /\ b \o (w \o e) = u \o e
  <2>1. b \in Seq(Unit) /\ e \in Seq(Unit)
    BY <1>1, <1>2, ZenonT(30)
  <2>2. u \in Seq(Unit)
    BY <2>1, Joined2, ZenonT(30)
  <2>3. (b \o w) \o e = b \o (w \o e)
    BY <2>1, JoinedTwice
  <2>4. QED
    BY <2>2, <2>3, ZenonT(30)
<1> HIDE DEF u
<1>4. ASSUME NEW a \in Seq(Unit)
      PROVE  /\ a \o e \in Seq(Unit) /\ Len(a \o e) = Len(a) + 1 /\ a \o e # <<>>
             /\ \A i \in 1 .. Len(a) : (a \o e)[i] = a[i]
             /\ (a \o e)[Len(a) + 1] = d /\ Len(a) \in Nat
  <2>1. /\ a \o e \in Seq(Unit) /\ Len(a \o e) = Len(a) + Len(e) /\ Len(a) \in Nat
        /\ \A i \in 1 .. Len(a) : (a \o e)[i] = a[i]
        /\ \A i \in 1 .. Len(e) : (a \o e)[Len(a) + i] = e[i]
    <3>1. e \in Seq(Unit)
      BY <1>2, ZenonT(30)
    <3>2. QED
      BY <3>1, Joined2
  <2>2. Len(a \o e) = Len(a) + 1 /\ Len(a \o e) # 0
    BY <1>2, <2>1
  <2>3. a \o e # <<>>
    BY <2>2
  <2>4. QED
    BY <1>2, <2>1, <2>2, <2>3
<1>5. ~ Unsaid(v)
  BY ZenonT(30) DEF Unsaid
<1>6. ASSUME NEW a \in Seq(Unit), NEW m \in Nat, DataFrom(m, a), m + Len(a) = v.said
      PROVE  DataFrom(m, a \o e) /\ m + Len(a \o e) = v2.said
  <2>1. d = Data(m + (Len(a) + 1)) /\ m + Len(a \o e) = v2.said
    <3> DEFINE i == Len(a)
    <3>1. i \in Nat /\ Len(a \o e) = i + 1 /\ m + i = v.said
      BY <1>4, <1>6, ZenonT(30)
    <3> HIDE DEF i
    <3>2. (m + i) + 1 = m + (i + 1)
      BY <3>1
    <3>3. QED
      BY <3>1, <3>2, ZenonT(30) DEF i
  <2>2. ASSUME NEW i \in 1 .. Len(a \o e) PROVE (a \o e)[i] = Data(m + i)
    <3>1. i \in 1 .. Len(a) \/ i = Len(a) + 1
      BY <1>4
    <3>2. QED
      BY <1>4, <1>6, <2>1, <3>1, ZenonT(30) DEF DataFrom
  <2>3. QED
    BY <2>1, <2>2, ZenonT(30) DEF DataFrom
<1>7. CASE l = "relay"
  <2> DEFINE m == Len(k.given) + Len(k.pending)
  <2>1. RelayOK(w, v, k) /\ m \in Nat
    BY <1>7 DEF SessionOK, RelaySet
  <2>2. DataFrom(m, w) /\ m + Len(w) = v.said
    BY <2>1, ZenonT(30) DEF RelayOK
  <2>3. DataFrom(m, w \o e) /\ m + Len(w \o e) = v2.said
    BY <1>6, <2>1, <2>2, ZenonT(30)
  <2>4. RelayOK(w \o e, v2, k)
    BY <2>1, <2>3, ZenonT(30) DEF RelayOK
  <2>5. QED
    BY <1>7, <2>4, ZenonT(30) DEF SessionOK, Live, e
<1>8. CASE l # "relay"
  <2>1. SetupOK(W.proxy, l, h, u, v) /\ NotGiven(k)
    BY <1>8, ZenonT(30) DEF SessionOK, Live, u, b
  <2>2. Silent(h, v) => Silent(h, v2)
    BY ZenonT(30) DEF Silent
  <2>3. CASE h.state = "Established"
    <3>1. h.client \in Seq(Unit) /\ Len(h.client) \in Nat
      BY DEF HandlerSet
    <3>2. DataFrom(Len(h.client), u) /\ Len(h.client) + Len(u) = v.said
      BY <2>1, <2>3, ZenonT(30) DEF SetupOK
    <3>3. DataFrom(Len(h.client), u \o e) /\ Len(h.client) + Len(u \o e) = v2.said
      BY <1>3, <1>6, <3>1, <3>2, ZenonT(30)
    <3>4. SetupOK(W.proxy, l, h, u \o e, v2)
      BY <2>1, <2>2, <2>3, <3>3, ZenonT(30) DEF SetupOK, Waiting
    <3>5. QED
      BY <1>3, <1>8, <2>1, <3>4, ZenonT(30) DEF SessionOK, Live, b, e
  <2>4. CASE h.state # "Established"
    <3> DEFINE n == Request(W.proxy, h.state)
    <3>1. h.state \in Waiting /\ l \in {"write", "read", "change"} /\ Waits(n, h, u, v) /\ h.client = <<>>
      BY <1>5, <2>1, <2>4, ZenonT(30) DEF SetupOK, Waiting, HandlerSet, Answered
    <3> HIDE DEF n
    <3>2. ~ Unanswered(n, h, u, v)
      BY <1>5, ZenonT(30) DEF Unanswered
    <3>3. Waits(n, h, u \o e, v2)
      <4>3. CASE Blocked(n, u, v) /\ Few(h, v)
        <5>1. u # <<>> /\ (u \o e)[1] = u[1] /\ u \o e # <<>>
          BY <1>3, <1>4, <4>3, EmptySeq DEF Blocked
        <5>2. QED
          BY <4>3, <5>1, ZenonT(30) DEF Waits, Blocked, Few
      <4>4. CASE u # <<>> /\ Answered(n, u[1].of, h, u, v)
        <5> DEFINE r == u[1].of
        <5>1. /\ r.name \in {"200", "granted"} /\ n # "password" /\ Silent(h, v2) /\ r.name \in ReplyNames(n)
              /\ Opens(r, u) /\ Len(u) = 2 + v.said
          BY <1>5, <2>2, <4>4, ZenonT(30) DEF Answered, Extent
        <5>2. (u \o e)[1].of = r /\ u \o e # <<>> /\ Len(u \o e) = 2 + v2.said
          <6> DEFINE m == v.said
                     i == Len(u)
          <6>1. m \in Nat /\ i = 2 + m /\ Len(u \o e) = i + 1 /\ u \o e # <<>>
            BY <1>1, <1>3, <1>4, <5>1, ZenonT(30)
          <6> HIDE DEF m, i
          <6>2. i + 1 = 2 + (m + 1) /\ 1 \in 1 .. i
            BY <6>1
          <6>3. (u \o e)[1] = u[1]
            BY <1>3, <1>4, <6>2, ZenonT(30) DEF i
          <6>4. QED
            BY <6>1, <6>2, <6>3, ZenonT(30) DEF m
        <5> HIDE DEF r
        <5>3. Opens(r, u \o e)
          <6>1. ASSUME NEW i \in 1 .. Len(u \o e) PROVE (u \o e)[i] = Place(r, i)
            <7>1. i \in 1 .. Len(u) \/ i = Len(u) + 1
              BY <1>3, <1>4
            <7>2. CASE i \in 1 .. Len(u)
              BY <1>3, <1>4, <5>1, <7>2, ZenonT(30) DEF Opens
            <7>3. CASE i = Len(u) + 1
              <8> DEFINE m == v.said
              <8>0. m \in Nat /\ i = (2 + m) + 1
                BY <1>1, <5>1, <7>3, ZenonT(30)
              <8> HIDE DEF m
              <8>4. i # 1 /\ i # 2 /\ i - 2 = m + 1
                BY <8>0
              <8>1. i # 1 /\ i # 2 /\ i - 2 = v.said + 1
                BY <8>4, ZenonT(30) DEF m
              <8>3. (u \o e)[i] = d
                BY <1>3, <1>4, <7>3, ZenonT(30)
              <8>2. QED
                BY <5>1, <8>1, <8>3, ZenonT(30) DEF Place
            <7>4. QED
              BY <7>1, <7>2, <7>3, ZenonT(30)
          <6>2. QED
            BY <6>1, ZenonT(30) DEF Opens
        <5>4. Extent(r, v2) = 2 + v2.said
          BY <5>1, ZenonT(30) DEF Extent
        <5>5. Len(u \o e) <= Extent(r, v2) /\ Len(u \o e) = Extent(r, v2)
          BY <1>3, <1>4, <5>2, <5>4
        <5>6. Answered(n, r, h, u \o e, v2)
          BY <5>1, <5>3, <5>5, ZenonT(30) DEF Answered
        <5>7. QED
          BY <5>2, <5>6, ZenonT(30) DEF Waits, r
      <4>5. QED
        BY <3>1, <3>2, <4>3, <4>4, ZenonT(30) DEF Waits
    <3>6. SetupOK(W.proxy, l, h, u \o e, v2)
      BY <3>1, <3>3, ZenonT(30) DEF SetupOK, Waiting, n
    <3>7. QED
      BY <1>3, <1>8, <2>1, <3>6, ZenonT(30) DEF SessionOK, Live, b, e
  <2>5. QED
    BY <2>3, <2>4, ZenonT(30)
<1>9. QED
  BY <1>7, <1>8, ZenonT(30)

\* The server ends; a reset loses what is on the wire, and what is left is
\* a first part of the stream.
LEMMA ServerEndsOK ==
    ASSUME NEW W \in Worlds, NEW h \in HandlerSet, NEW w \in Seq(Unit), NEW x \in Seq(Unit),
           NEW v \in ServerSet, NEW v2 \in ServerSet,
           NEW k \in RelaySet, NEW l \in Live \cup {"relay"}, l # "connect", SessionOK(W, l, h, w, v, k),
           v.link = "open", v2.asked = v.asked, v2.granted = v.granted, v2.said = v.said,
           \/ v2.link = "eof" /\ x = w
           \/ v2.link = "reset" /\ x = <<>>
    PROVE  SessionOK(W, l, h, x, v2, k)
<1> DEFINE b == h.inbuf
           u == b \o w
           y == b \o x
<1>1. b \in Seq(Unit) /\ Len(b) \in Nat /\ v.said \in Nat
  BY DEF HandlerSet, ServerSet
<1> HIDE DEF b
<1>2. /\ u \in Seq(Unit) /\ y \in Seq(Unit) /\ Len(u) = Len(b) + Len(w) /\ Len(y) = Len(b) + Len(x)
      /\ \A i \in 1 .. Len(b) : u[i] = b[i] /\ y[i] = b[i]
  BY <1>1, Joined2
<1>3. Len(y) <= Len(u) /\ (\A i \in 1 .. Len(y) : y[i] = u[i]) /\ Len(u) \in Nat /\ Len(y) \in Nat
  <2>1. CASE x = w
    BY <1>2, <2>1
  <2>2. CASE x = <<>>
    <3>1. Len(y) = Len(b) /\ Len(w) \in Nat
      BY <1>1, <1>2, <2>2
    <3>2. QED
      BY <1>1, <1>2, <3>1
  <2>3. QED
    BY <2>1, <2>2, ZenonT(30)
<1>4. v2.link # "reset" => y = u /\ x = w
  BY ZenonT(30)
<1> HIDE DEF u, y
<1>5. /\ Unsaid(v) => Unsaid(v2)
      /\ Silent(h, v) => Silent(h, v2)
      /\ \A r : Extent(r, v2) = Extent(r, v)
  BY ZenonT(30) DEF Unsaid, Silent, Extent
<1>6. ASSUME NEW n PROVE DataFrom(n, u) => DataFrom(n, y)
  BY <1>3 DEF DataFrom
<1>7. Bodies(u) => Bodies(y)
  BY <1>3 DEF Bodies
<1>8. ASSUME NEW r PROVE Opens(r, u) => Opens(r, y)
  BY <1>3 DEF Opens
<1>9. y # <<>> => u # <<>> /\ y[1] = u[1]
  BY <1>2, <1>3, EmptySeq
<1>10. u = <<>> => y = <<>>
  BY <1>9, ZenonT(30)
<1>11. CASE l = "relay"
  <2>1. RelayOK(w, v, k)
    BY <1>11, ZenonT(30) DEF SessionOK
  <2>2. \A n : DataFrom(n, w) => DataFrom(n, x)
    BY DEF DataFrom
  <2>3. RelayOK(x, v2, k)
    BY <1>4, <2>1, <2>2, ZenonT(30) DEF RelayOK
  <2>4. QED
    BY <1>11, <2>3, ZenonT(30) DEF SessionOK, Live
<1>12. CASE l # "relay"
  <2>1. SetupOK(W.proxy, l, h, u, v) /\ NotGiven(k)
    BY <1>12, ZenonT(30) DEF SessionOK, Live, u, b
  <2>2. ASSUME NEW q, NEW r, Answered(q, r, h, u, v) PROVE Answered(q, r, h, y, v2)
    <3>1. Len(y) <= Extent(r, v2)
      BY <1>3, <1>4, <1>5, <2>2, ZenonT(30) DEF Answered, Extent
    <3>2. QED
      BY <1>4, <1>5, <1>8, <2>2, <3>1, ZenonT(30) DEF Answered
  <2>3. ASSUME NEW q, Waits(q, h, u, v) PROVE Waits(q, h, y, v2)
    <3>1. CASE Unanswered(q, h, u, v)
      BY <1>5, <1>7, <1>10, <3>1, ZenonT(30) DEF Waits, Unanswered
    <3>2. CASE u # <<>> /\ Answered(q, u[1].of, h, u, v)
      <4>1. Few(h, v2)
        BY <1>5, <3>2, FewFacts, ZenonT(30) DEF Answered
      <4>2. QED
        BY <1>4, <1>9, <2>2, <3>2, <4>1, ZenonT(30) DEF Waits, Blocked
    <3>3. CASE Blocked(q, u, v) /\ Few(h, v)
      BY <1>4, <1>9, <3>3, ZenonT(30) DEF Waits, Blocked, Few
    <3>4. QED
      BY <2>3, <3>1, <3>2, <3>3, ZenonT(30) DEF Waits
  <2>4. Len(b) >= 2 => y # <<>> /\ y[1] = u[1]
    BY <1>1, <1>2, <1>3
  <2>5. h.state \in Waiting =>
          \/ l \in {"connect", "write", "read", "change"} /\ Waits(Request(W.proxy, h.state), h, y, v2)
          \/ /\ l = "challenged" /\ h.state = "ExpectResponseHeaders" /\ Len(h.inbuf) >= 2
             /\ y[1].of.name = "407" /\ y[1].of.scheme = "Digest" /\ Answered("CONNECT", y[1].of, h, y, v2)
          \/ l \in {"scheme", "answer"} /\ h.state = "ExpectResponseHeaders" /\ Silent(h, v2) /\ Unsaid(v2) /\ Bodies(y)
    BY <1>5, <1>7, <2>1, <2>2, <2>3, <2>4, ZenonT(30) DEF SetupOK, b
  <2>6. h.state = "ExpectResponse" => h.skip \in Nat /\ (Len(u) <= h.skip => Len(y) <= h.skip)
    BY <1>3 DEF HandlerSet
  <2>7. SetupOK(W.proxy, l, h, y, v2)
    BY <1>4, <1>5, <1>6, <1>10, <2>1, <2>5, <2>6, ZenonT(30) DEF SetupOK
  <2>8. QED
    BY <1>12, <2>1, <2>7, ZenonT(30) DEF SessionOK, Live, y, b
<1>13. QED
  BY <1>11, <1>12, ZenonT(30)
=============================================================================
