---------------------------- MODULE GatewayProofs ----------------------------
(***************************************************************************)
(* Both ends of the UDP gateway.  The server's client connection, for any  *)
(* connection ids, addresses, queue size and number of generations: no     *)
(* stale reply is written, and the session map, the generations and the    *)
(* relays agree.  Then the client's connections, for any number of flows,  *)
(* connections and serial numbers and any limit of the pool: a connection  *)
(* has one user.                                                           *)
(***************************************************************************)
EXTENDS UdpGwServer, UdpGwClient, TLAPS

-----------------------------------------------------------------------------
(* A sequence is a function on the places up to its length.                *)
LEMMA SeqLength ==
    ASSUME NEW S, NEW q \in Seq(S)
    PROVE  Len(q) \in Nat /\ q \in [1 .. Len(q) -> S] /\ DOMAIN q = 1 .. Len(q)
OBVIOUS

(* What a sequence holds.                                                  *)
LEMMA SeqElement ==
    ASSUME NEW S, NEW q \in Seq(S), NEW i \in 1 .. Len(q)
    PROVE  q[i] \in S
OBVIOUS

(* The empty sequence, and the others.                                     *)
LEMMA SeqEmpty ==
    ASSUME NEW S
    PROVE  <<>> \in Seq(S) /\ Len(<<>>) = 0 /\ \A q \in Seq(S) : q # <<>> => Len(q) \in Nat \ {0}
OBVIOUS

(* A sequence followed by another one.                                     *)
LEMMA SeqJoined ==
    ASSUME NEW S, NEW q \in Seq(S), NEW r \in Seq(S)
    PROVE  /\ q \o r \in Seq(S) /\ Len(q \o r) = Len(q) + Len(r)
           /\ \A i \in 1 .. Len(q) + Len(r) : (q \o r)[i] = IF i <= Len(q) THEN q[i] ELSE r[i - Len(q)]
OBVIOUS

(* A sequence without its first element.                                   *)
LEMMA SeqTail ==
    ASSUME NEW S, NEW q \in Seq(S), q # <<>>
    PROVE  /\ Head(q) \in S /\ Tail(q) \in Seq(S) /\ Len(Tail(q)) = Len(q) - 1
           /\ \A i \in 1 .. Len(Tail(q)) : Tail(q)[i] = q[i + 1]
OBVIOUS

(* A sequence with an element appended.                                    *)
LEMMA SeqAppended ==
    ASSUME NEW S, NEW q \in Seq(S), NEW x \in S
    PROVE  /\ Append(q, x) \in Seq(S) /\ Append(q, x) # <<>> /\ Len(Append(q, x)) = Len(q) + 1
           /\ \A i \in 1 .. Len(q) : Append(q, x)[i] = q[i]
           /\ Append(q, x)[Len(q) + 1] = x
OBVIOUS

Known == 1 .. next - 1

Opening == {"resolve", "create", "first"}

ServerTypes ==
    /\ client \in {"up", "ending", "gone"}
    /\ reader \in ReaderAt
    /\ writer \in [pc : {"recv", "lock", "write"}, item : Item]
    /\ lock \in {"free", "reader", "writer"}
    /\ queue \in Seq(Item)
    /\ next \in 1 .. MaxGen + 1
    /\ generations \in [Conns -> 0 .. MaxGen]
    /\ sessions \in [Conns -> 0 .. MaxGen]
    /\ request \in [Gens -> Request]
    /\ relay \in [Gens -> {"none", "wait", "send", "cleanup", "ended"}]
    /\ stop \in SUBSET Gens

(* Who has the delivery lock, and that a dropped client has nothing in     *)
(* its hands.                                                              *)
Locks ==
    /\ (lock = "writer") <=> (writer.pc = "write")
    /\ (lock = "reader") <=> (reader.pc = "first")
    /\ client # "up" => reader = Reading /\ writer = WriterWaits /\ queue = <<>>

(* The generation of an id is the last one handed out for it, unless the   *)
(* id was closed; only generations that were handed out have a relay or    *)
(* were told to stop.                                                      *)
Latest ==
    /\ \A c \in Conns :
          /\ generations[c] # 0 => generations[c] \in Known /\ request[generations[c]].conn = c
          /\ sessions[c] # 0 => sessions[c] = generations[c]
    /\ \A c \in Conns, g \in Known :
          request[g].conn = c /\ generations[c] # 0 => g <= generations[c]
    /\ \A g \in Gens : g \notin Known => relay[g] = "none" /\ g \notin stop

(* A stamped item is for the id of its generation, and only a generation   *)
(* with a relay has data.                                                  *)
Stamped(item) ==
    item.gen # 0 => /\ item.gen \in Known /\ item.conn \in Conns
                    /\ request[item.gen].conn = item.conn
                    /\ item.kind = "data" => relay[item.gen] # "none"

Stamps ==
    /\ \A i \in 1 .. Len(queue) : Stamped(queue[i])
    /\ Stamped(writer.item)
    /\ writer.pc = "write" => Current(writer.item)

(* The reader's request: its id, the generation it works for, and what is  *)
(* true of a session that is being opened.                                 *)
Serving ==
    /\ reader.pc # "read" => reader.conn \in Conns
    /\ reader.pc \in {"lookup", "replace"} => next <= MaxGen
    /\ reader.pc = "send" => reader.kind # "data"
    /\ reader.pc # "read" /\ reader.gen # 0 =>
          reader.gen \in Known /\ request[reader.gen].conn = reader.conn
    /\ reader.pc \in Opening =>
          /\ reader.gen # 0 /\ generations[reader.conn] = reader.gen
          /\ relay[reader.gen] = "none" /\ reader.gen \notin stop
          /\ sessions[reader.conn] = IF reader.pc = "first" THEN reader.gen ELSE 0

(* A relay at work belongs to the session in the map, or was told to stop  *)
(* after its id went to a newer request or was closed.                     *)
Relays ==
    \A g \in Gens :
        /\ relay[g] # "none" => request[g].conn \in Conns
        /\ relay[g] \in {"wait", "send"} =>
              IF g \in stop THEN client = "up" => generations[Conn(g)] # g ELSE InMap(g)

ServerInv == ServerTypes /\ Locks /\ Latest /\ Stamps /\ Serving /\ Relays

-----------------------------------------------------------------------------
\* The server starts with nothing.
LEMMA ServerStarts == ServerInit => ServerInv
<1> SUFFICES ASSUME ServerInit
             PROVE  ServerInv
  BY ZenonT(30)
<1> USE UdpGwServerAssumption
<1>1. ServerTypes
  BY DEF ServerInit, ServerTypes, Reading, WriterWaits, NoItem, ReaderAt, Item, Request, Gens
<1>2. Locks /\ Stamps /\ Serving
  BY DEF ServerInit, Locks, Stamps, Serving, Stamped, Reading, WriterWaits, NoItem, Opening, Current
<1>3. Latest /\ Relays
  BY ZenonT(30) DEF ServerInit, Latest, Relays, Known, Gens
<1>4. QED
  BY <1>1, <1>2, <1>3, ZenonT(30) DEF ServerInv

\* A reader's record, field by field.
LEMMA ReaderRecord ==
    ASSUME NEW r \in ReaderAt
    PROVE  /\ r = [pc |-> r.pc, conn |-> r.conn, addr |-> r.addr, gen |-> r.gen, kind |-> r.kind]
           /\ r.pc \in {"read", "lookup", "resend", "replace", "resolve", "create", "first", "close", "send"}
           /\ r.gen \in 0 .. MaxGen
BY ZenonT(30) DEF ReaderAt

\* The reader at rest, and the writer.
LEMMA AtRest ==
    /\ Reading \in ReaderAt /\ Reading.pc = "read"
    /\ WriterWaits \in [pc : {"recv", "lock", "write"}, item : Item]
    /\ WriterWaits.pc = "recv" /\ WriterWaits.item = NoItem /\ NoItem.gen = 0 /\ NoItem \in Item
BY UdpGwServerAssumption DEF Reading, WriterWaits, NoItem, ReaderAt, Item

\* A step that only moves the reader, outside its critical section.
LEMMA ReaderMoves ==
    ASSUME ServerInv, client = "up", reader' \in ReaderAt, Serving',
           reader.pc # "first", reader'.pc # "first",
           UNCHANGED <<client, writer, lock, queue, next, generations, sessions, request, relay, stop>>
    PROVE  ServerInv'
<1>1. ServerTypes'
  BY ZenonT(30) DEF ServerInv, ServerTypes
<1>2. Locks'
  BY ZenonT(30) DEF ServerInv, Locks
<1>3. Latest' /\ Relays'
  BY ZenonT(30) DEF ServerInv, Latest, Relays, Known, Conn, InMap
<1>4. Stamps'
  BY ZenonT(30) DEF ServerInv, Stamps, Stamped, Current, Known
<1>5. QED
  BY <1>1, <1>2, <1>3, <1>4, ZenonT(30) DEF ServerInv

\* A client whose reader has a request is there.
LEMMA Busy ==
    ASSUME ServerInv, reader.pc # "read"
    PROVE  client = "up" /\ reader.conn \in Conns
BY AtRest, ZenonT(30) DEF ServerInv, ServerTypes, Locks, Serving

\* A packet that is read only occupies the reader.
LEMMA ReadStep ==
    ASSUME ServerInv, NEW c \in Conns, NEW pc \in {"lookup", "replace", "close", "send"},
           NEW addr \in Addrs \cup {NoAddr}, ReadPacket(c, pc, addr)
    PROVE  ServerInv'
<1>1. /\ reader' \in ReaderAt /\ reader'.pc = pc /\ reader'.conn = c /\ reader'.gen = 0
      /\ pc = "send" => reader'.kind = "keepalive"
  BY UdpGwServerAssumption DEF ReadPacket, ReaderAt
<1>2. Serving'
  BY <1>1, ZenonT(30) DEF ReadPacket, Serving, Opening, Known
<1>3. QED
  BY <1>1, <1>2, ReaderMoves, ZenonT(30) DEF ReadPacket

\* A session that is used again is the current one of its id.
LEMMA ReuseStep ==
    ASSUME ServerInv, Reuse
    PROVE  ServerInv'
<1>1. client = "up" /\ reader.conn \in Conns /\ reader \in ReaderAt
  BY Busy, ZenonT(30) DEF Reuse, ServerInv, ServerTypes
<1> DEFINE g == sessions[reader.conn]
<1>2. g \in 0 .. MaxGen /\ g # 0 /\ g = generations[reader.conn] /\ g \in Known /\ request[g].conn = reader.conn
  BY <1>1, ZenonT(30) DEF ServerInv, ServerTypes, Latest, Reuse
<1>3. reader' = [reader EXCEPT !.pc = "resend", !.gen = g]
  BY ZenonT(30) DEF Reuse
<1>4. reader' \in ReaderAt /\ reader'.pc = "resend" /\ reader'.conn = reader.conn /\ reader'.gen = g
  BY <1>1, <1>2, <1>3, ZenonT(30) DEF ReaderAt
<1>5. Serving'
  BY <1>1, <1>2, <1>4, ZenonT(30) DEF Serving, Reuse, Opening, Known
<1>6. QED
  BY <1>1, <1>4, <1>5, ReaderMoves, ZenonT(30) DEF Reuse

\* The reader's error path.
LEMMA FailsStep ==
    ASSUME ServerInv, reader.pc # "read", NEW g \in 0 .. MaxGen, Fails(g)
    PROVE  /\ reader' \in ReaderAt /\ reader'.pc = "send" /\ reader'.conn = reader.conn
           /\ reader'.gen = g /\ reader'.kind = "error"
BY ZenonT(30) DEF ServerInv, ServerTypes, Fails, ReaderAt

\* A datagram that cannot be sent on is answered with its session's stamp, and
\* so is a name that cannot be resolved.
LEMMA ResendStep ==
    ASSUME ServerInv, Resend \/ Resolve
    PROVE  ServerInv'
<1>1. /\ client = "up" /\ reader.conn \in Conns /\ reader \in ReaderAt /\ reader.gen \in 0 .. MaxGen
      /\ reader.pc \in {"resend", "resolve"}
  BY Busy, ReaderRecord, ZenonT(30) DEF Resend, Resolve, ServerInv, ServerTypes
<1>2. CASE reader' = Reading
  <2>1. Serving'
    BY <1>2, AtRest, ZenonT(30) DEF Serving, Opening
  <2>2. QED
    BY <1>1, <1>2, <2>1, AtRest, ReaderMoves, ZenonT(30) DEF Resend, Resolve
<1>3. CASE Fails(reader.gen)
  <2>1. /\ reader' \in ReaderAt /\ reader'.pc = "send" /\ reader'.conn = reader.conn
        /\ reader'.gen = reader.gen /\ reader'.kind = "error"
    BY <1>1, <1>3, FailsStep, ZenonT(30)
  <2>2. Serving'
    BY <1>1, <2>1, ZenonT(30) DEF Serving, Opening, ServerInv, Resend, Resolve, Known
  <2>3. QED
    BY <1>1, <2>1, <2>2, ReaderMoves, ZenonT(30) DEF Resend, Resolve
<1>4. CASE Resolve /\ reader' = [reader EXCEPT !.pc = "create"]
  <2>1. reader' \in ReaderAt /\ reader'.pc = "create" /\ reader'.conn = reader.conn /\ reader'.gen = reader.gen
    BY <1>1, <1>4, ZenonT(30) DEF ReaderAt
  <2>2. Serving'
    BY <1>1, <1>4, <2>1 DEF Serving, Opening, ServerInv, Resolve, Known
  <2>3. QED
    BY <1>1, <1>4, <2>1, <2>2, ReaderMoves, ZenonT(30) DEF Resolve
<1>5. QED
  BY <1>2, <1>3, <1>4, ZenonT(30) DEF Resend, Resolve

\* A request for another address replaces the generation.
LEMMA NoReuseStep ==
    ASSUME ServerInv, NoReuse
    PROVE  ServerInv'
<1>1. client = "up" /\ reader.conn \in Conns /\ reader \in ReaderAt
  BY Busy, ZenonT(30) DEF NoReuse, ServerInv, ServerTypes
<1>2. reader' \in ReaderAt /\ reader'.pc = "replace" /\ reader'.conn = reader.conn /\ reader'.gen = reader.gen
  BY <1>1, ZenonT(30) DEF NoReuse, ReaderAt
<1>3. Serving'
  BY <1>1, <1>2, ZenonT(30) DEF Serving, NoReuse, Opening, ServerInv, Known
<1>4. QED
  BY <1>1, <1>2, <1>3, ReaderMoves, ZenonT(30) DEF NoReuse

\* A session in the map is the current one of its id and not the one that is
\* about to be handed out.
LEMMA Mapped ==
    ASSUME ServerInv, NEW c \in Conns
    PROVE  /\ sessions[c] \in 0 .. MaxGen /\ generations[c] \in 0 .. MaxGen
           /\ Stopped(c) \in SUBSET Gens
           /\ \A g \in Stopped(c) : g \in stop \/ (g = sessions[c] /\ g = generations[c] /\ g \in Known)
           /\ stop \subseteq Stopped(c)
           /\ sessions[c] # 0 => sessions[c] \in Stopped(c)
<1>1. sessions[c] \in 0 .. MaxGen /\ generations[c] \in 0 .. MaxGen /\ stop \in SUBSET Gens
      /\ MaxGen \in Nat
  BY UdpGwServerAssumption, ZenonT(30) DEF ServerInv, ServerTypes
<1>2. sessions[c] # 0 => sessions[c] = generations[c] /\ generations[c] \in Known
  BY <1>1, ZenonT(30) DEF ServerInv, Latest
<1>3. CASE sessions[c] = 0
  BY <1>1, <1>3, ZenonT(30) DEF Stopped
<1>4. CASE sessions[c] # 0
  <2>1. Stopped(c) = stop \cup {sessions[c]} /\ sessions[c] \in Gens
    BY <1>1, <1>4 DEF Stopped, Gens
  <2>2. QED
    BY <1>1, <1>2, <1>4, <2>1, ZenonT(30)
<1>5. QED
  BY <1>3, <1>4, ZenonT(30)

\* A new generation takes the id, and the relay of the old one is stopped.
LEMMA ReplaceStep ==
    ASSUME ServerInv, ReplaceGeneration
    PROVE  ServerInv'
<1> DEFINE c == reader.conn
<1>1. /\ client = "up" /\ c \in Conns /\ reader \in ReaderAt /\ lock = "free"
      /\ next \in Gens /\ next \in 1 .. MaxGen /\ next \in 0 .. MaxGen /\ MaxGen \in Nat
  BY Busy, UdpGwServerAssumption DEF ReplaceGeneration, ServerInv, ServerTypes, Serving, Gens
<1>2. /\ next' = next + 1
      /\ generations' = [generations EXCEPT ![c] = next]
      /\ request' = [request EXCEPT ![next] = [conn |-> c, addr |-> reader.addr]]
      /\ sessions' = [sessions EXCEPT ![c] = 0]
      /\ stop' = Stopped(c)
      /\ UNCHANGED <<client, writer, lock, queue, relay, idle>>
  BY ZenonT(30) DEF ReplaceGeneration
<1>3. /\ reader' \in ReaderAt /\ reader'.conn = c /\ reader'.gen = next
      /\ \/ reader'.pc = "send" /\ reader'.kind = "error"
         \/ reader'.pc = "resolve"
  <2>1. CASE Fails(next)
    BY <1>1, <2>1, FailsStep, ZenonT(30) DEF ReplaceGeneration
  <2>2. CASE reader' = [reader EXCEPT !.pc = "resolve", !.gen = next]
    BY <1>1, <2>2, ZenonT(30) DEF ReaderAt
  <2>3. QED
    BY <2>1, <2>2, ZenonT(30) DEF ReplaceGeneration
<1>4. /\ generations \in [Conns -> 0 .. MaxGen] /\ sessions \in [Conns -> 0 .. MaxGen]
      /\ request \in [Gens -> Request] /\ stop \in SUBSET Gens
      /\ \A g \in Gens : g \in Known \/ (g \notin stop /\ relay[g] = "none")
      /\ Known = 1 .. next - 1 /\ Known' = Known \cup {next} /\ next \notin Known
  BY <1>1, <1>2 DEF ServerInv, ServerTypes, Latest, Known
<1>5. /\ request'[next].conn = c
      /\ \A g \in Known : g \in Gens /\ request'[g] = request[g]
      /\ \A g \in Gens : g # next => request'[g] = request[g]
      /\ request' \in [Gens -> Request]
  BY <1>1, <1>2, <1>4 DEF Request, ReaderAt, Gens, Known
<1>6. /\ generations'[c] = next /\ sessions'[c] = 0
      /\ \A d \in Conns : d # c => generations'[d] = generations[d] /\ sessions'[d] = sessions[d]
      /\ generations' \in [Conns -> 0 .. MaxGen] /\ sessions' \in [Conns -> 0 .. MaxGen]
  BY <1>1, <1>2, <1>4
<1>7. /\ stop' \in SUBSET Gens /\ next \notin stop' /\ stop \subseteq stop'
      /\ \A g \in stop' : g \in stop \/ (g = sessions[c] /\ g = generations[c] /\ g \in Known)
      /\ sessions[c] # 0 => sessions[c] \in stop'
  BY <1>1, <1>2, <1>4, Mapped, ZenonT(30) DEF Gens
<1>8. ServerTypes'
  BY <1>1, <1>2, <1>3, <1>5, <1>6, <1>7 DEF ServerInv, ServerTypes
<1>9. Locks'
  BY <1>1, <1>2, <1>3, ZenonT(30) DEF ServerInv, Locks, ReplaceGeneration
<1>10. Latest'
  <2>1. \A d \in Conns :
          /\ generations'[d] # 0 => generations'[d] \in Known' /\ request'[generations'[d]].conn = d
          /\ sessions'[d] # 0 => sessions'[d] = generations'[d]
    BY <1>4, <1>5, <1>6 DEF ServerInv, Latest
  <2>2. ASSUME NEW d \in Conns, NEW g \in Known', request'[g].conn = d, generations'[d] # 0
        PROVE  g <= generations'[d]
    <3>1. CASE d = c
      BY <1>1, <1>4, <1>6, <2>2, <3>1
    <3>2. CASE d # c
      <4>1. g \in Known
        BY <1>4, <1>5, <2>2, <3>2, ZenonT(30)
      <4>2. request[g].conn = d /\ generations[d] # 0 /\ generations'[d] = generations[d]
        BY <1>5, <1>6, <2>2, <3>2, <4>1, ZenonT(30)
      <4>3. QED
        BY <4>1, <4>2, ZenonT(30) DEF ServerInv, Latest
    <3>3. QED
      BY <3>1, <3>2, ZenonT(30)
  <2>3. \A g \in Gens : g \notin Known' => relay'[g] = "none" /\ g \notin stop'
    BY <1>2, <1>4, <1>7, ZenonT(30)
  <2>4. QED
    BY <2>1, <2>2, <2>3, ZenonT(30) DEF Latest
<1>11. Stamps'
  BY <1>1, <1>2, <1>4, <1>5 DEF ServerInv, Stamps, Stamped, Locks
<1>12. Serving'
  BY <1>1, <1>2, <1>3, <1>4, <1>5, <1>6, <1>7 DEF Serving, Opening
<1>13. Relays'
  <2> SUFFICES ASSUME NEW g \in Gens, relay[g] # "none"
               PROVE  /\ request'[g].conn \in Conns
                      /\ relay[g] \in {"wait", "send"} =>
                            IF g \in stop' THEN client = "up" => generations'[request'[g].conn] # g
                            ELSE sessions'[request'[g].conn] = g
    BY <1>2, ZenonT(30) DEF Relays, Conn, InMap
  <2>1. g \in Known /\ g # next /\ request'[g] = request[g] /\ request[g].conn \in Conns
    BY <1>4, <1>5, ZenonT(30) DEF ServerInv, Relays
  <2>2. CASE request[g].conn = c
    BY <1>6, <1>7, <2>1, <2>2 DEF ServerInv, Relays, Conn, InMap
  <2>3. CASE request[g].conn # c
    <3>1. g \in stop' => g \in stop
      <4>1. g # 0
        BY DEF Gens
      <4>2. QED
        BY <1>7, <2>1, <2>3, <1>1, <4>1, ZenonT(30) DEF ServerInv, Latest
    <3>2. QED
      BY <1>6, <1>7, <2>1, <2>3, <3>1 DEF ServerInv, Relays, Conn, InMap
  <2>4. QED
    BY <2>2, <2>3, ZenonT(30)
<1>14. QED
  BY <1>8, <1>9, <1>10, <1>11, <1>12, <1>13, ZenonT(30) DEF ServerInv

\* A session enters the map under the lock.
LEMMA CreateStep ==
    ASSUME ServerInv, Create
    PROVE  ServerInv'
<1>1. /\ client = "up" /\ reader.conn \in Conns /\ reader \in ReaderAt /\ reader.gen \in 0 .. MaxGen
      /\ lock = "free" /\ reader.pc = "create"
  BY Busy, ReaderRecord, ZenonT(30) DEF Create, ServerInv, ServerTypes
<1>2. CASE Fails(reader.gen) /\ UNCHANGED <<lock, sessions>>
  <2>1. /\ reader' \in ReaderAt /\ reader'.pc = "send" /\ reader'.conn = reader.conn
        /\ reader'.gen = reader.gen /\ reader'.kind = "error"
    BY <1>1, <1>2, FailsStep, ZenonT(30)
  <2>2. Serving'
    BY <1>1, <1>2, <2>1, ZenonT(30) DEF Serving, Opening, ServerInv, Create, Known
  <2>3. QED
    BY <1>1, <1>2, <2>1, <2>2, ReaderMoves, ZenonT(30) DEF Create
<1>3. CASE /\ lock' = "reader" /\ sessions' = [sessions EXCEPT ![reader.conn] = reader.gen]
           /\ reader' = [reader EXCEPT !.pc = "first"]
  <2>1. reader' \in ReaderAt /\ reader'.pc = "first" /\ reader'.conn = reader.conn /\ reader'.gen = reader.gen
    BY <1>1, <1>3, ZenonT(30) DEF ReaderAt
  <2>2. UNCHANGED <<client, writer, queue, next, generations, request, relay, stop>>
    BY ZenonT(30) DEF Create
  <2>3. /\ sessions \in [Conns -> 0 .. MaxGen] /\ sessions' \in [Conns -> 0 .. MaxGen]
        /\ sessions'[reader.conn] = reader.gen /\ sessions[reader.conn] = 0
        /\ \A d \in Conns : d # reader.conn => sessions'[d] = sessions[d]
        /\ generations[reader.conn] = reader.gen /\ relay[reader.gen] = "none" /\ reader.gen # 0
    BY <1>1, <1>3, ZenonT(30) DEF ServerInv, ServerTypes, Serving, Opening
  <2>4. ServerTypes' /\ Locks'
    BY <1>1, <1>3, <2>1, <2>2, <2>3, ZenonT(30) DEF ServerInv, ServerTypes, Locks
  <2>5. Latest' /\ Stamps'
    BY <2>2, <2>3 DEF ServerInv, Latest, Stamps, Stamped, Current, Known
  <2>6. Serving'
    BY <1>1, <2>1, <2>2, <2>3, ZenonT(30) DEF ServerInv, Serving, Opening, Known
  <2>7. Relays'
    <3> SUFFICES ASSUME NEW g \in Gens, relay[g] # "none"
                 PROVE  relay[g] \in {"wait", "send"} /\ g \notin stop => sessions'[request[g].conn] = g
      BY <2>2, ZenonT(30) DEF ServerInv, Relays, Conn, InMap
    <3>1. request[g].conn \in Conns /\ g # 0
      BY DEF ServerInv, Relays, Gens
    <3>2. QED
      BY <2>3, <3>1, ZenonT(30) DEF ServerInv, Relays, Conn, InMap
  <2>8. QED
    BY <2>4, <2>5, <2>6, <2>7, ZenonT(30) DEF ServerInv
<1>4. QED
  BY <1>2, <1>3, ZenonT(30) DEF Create

\* A relay starts for the session that was just opened, or the session leaves
\* the map with the error that is sent for it.
LEMMA FirstSendStep ==
    ASSUME ServerInv, FirstSend
    PROVE  ServerInv'
<1> DEFINE g == reader.gen
           c == reader.conn
<1>1. /\ client = "up" /\ c \in Conns /\ reader \in ReaderAt /\ g \in 0 .. MaxGen
      /\ reader.pc = "first" /\ lock = "reader" /\ writer.pc # "write"
  BY Busy, ReaderRecord, ZenonT(30) DEF FirstSend, ServerInv, ServerTypes, Locks
<1>2. /\ g # 0 /\ g \in Gens /\ g \in Known /\ request[g].conn = c
      /\ generations[c] = g /\ sessions[c] = g /\ relay[g] = "none" /\ g \notin stop
      /\ sessions \in [Conns -> 0 .. MaxGen] /\ relay \in [Gens -> {"none", "wait", "send", "cleanup", "ended"}]
  BY <1>1 DEF ServerInv, ServerTypes, Serving, Opening, Gens
<1>3. lock' = "free" /\ UNCHANGED <<client, writer, queue, next, generations, request, stop>>
  BY ZenonT(30) DEF FirstSend
<1>4. CASE reader' = Reading /\ relay' = [relay EXCEPT ![g] = "wait"] /\ UNCHANGED sessions
  <2>1. /\ relay'[g] = "wait" /\ \A h \in Gens : h # g => relay'[h] = relay[h]
        /\ relay' \in [Gens -> {"none", "wait", "send", "cleanup", "ended"}]
    BY <1>2, <1>4, ZenonT(30)
  <2>2. ServerTypes' /\ Locks'
    BY <1>1, <1>3, <1>4, <2>1, AtRest, ZenonT(30) DEF ServerInv, ServerTypes, Locks
  <2>3. Latest'
    BY <1>2, <1>3, <1>4, <2>1, ZenonT(30) DEF ServerInv, Latest, Known
  <2>4. \A h \in Gens : relay[h] # "none" => relay'[h] # "none"
    BY <2>1, ZenonT(30)
  <2>5. \A item \in Item : Stamped(item) => Stamped(item)'
    <3> SUFFICES ASSUME NEW item \in Item, Stamped(item), item.gen # 0
                 PROVE  Stamped(item)'
      BY ZenonT(30) DEF Stamped
    <3>1. item.gen \in Gens
      BY DEF Item, Gens
    <3>2. QED
      BY <1>3, <2>4, <3>1, ZenonT(30) DEF Stamped, Known
  <2>6. Stamps'
    BY <1>1, <1>3, <2>5 DEF ServerInv, ServerTypes, Stamps
  <2>7. Serving'
    BY <1>4, AtRest, ZenonT(30) DEF Serving, Opening
  <2>8. Relays'
    BY <1>2, <1>3, <1>4, <2>1, <1>1 DEF ServerInv, Relays, Conn, InMap
  <2>9. QED
    BY <2>2, <2>3, <2>6, <2>7, <2>8, ZenonT(30) DEF ServerInv
<1>5. CASE /\ Fails(g) /\ sessions' = [sessions EXCEPT ![c] = IF @ = g THEN 0 ELSE @]
           /\ UNCHANGED relay
  <2>1. /\ reader' \in ReaderAt /\ reader'.pc = "send" /\ reader'.conn = c
        /\ reader'.gen = g /\ reader'.kind = "error"
    BY <1>1, <1>5, FailsStep, ZenonT(30)
  <2>2. /\ sessions'[c] = 0 /\ \A d \in Conns : d # c => sessions'[d] = sessions[d]
        /\ sessions' \in [Conns -> 0 .. MaxGen]
    BY <1>1, <1>2, <1>5, UdpGwServerAssumption
  <2>3. ServerTypes' /\ Locks'
    BY <1>1, <1>3, <1>5, <2>1, <2>2, ZenonT(30) DEF ServerInv, ServerTypes, Locks
  <2>4. Latest' /\ Stamps'
    BY <1>1, <1>3, <1>5, <2>2 DEF ServerInv, Latest, Stamps, Stamped, Current, Known
  <2>5. Serving'
    BY <1>1, <1>2, <1>3, <2>1, ZenonT(30) DEF Serving, Opening, Known
  <2>6. Relays'
    <3> SUFFICES ASSUME NEW h \in Gens, relay[h] \in {"wait", "send"}, h \notin stop
                 PROVE  sessions'[request[h].conn] = h
      BY <1>3, <1>5, ZenonT(30) DEF ServerInv, Relays, Conn, InMap
    <3>1. request[h].conn \in Conns /\ sessions[request[h].conn] = h /\ h # g
      BY <1>2, ZenonT(30) DEF ServerInv, Relays, Conn, InMap
    <3>2. QED
      BY <1>2, <2>2, <3>1, ZenonT(30)
  <2>7. QED
    BY <2>3, <2>4, <2>5, <2>6, ZenonT(30) DEF ServerInv
<1>6. QED
  BY <1>4, <1>5, ZenonT(30) DEF FirstSend

\* A closed id has no generation, and its relay is stopped.
LEMMA CloseStep ==
    ASSUME ServerInv, CloseSession
    PROVE  ServerInv'
<1> DEFINE c == reader.conn
<1>1. /\ client = "up" /\ c \in Conns /\ lock = "free" /\ reader.pc = "close" /\ reader' = Reading
      /\ writer.pc # "write" /\ MaxGen \in Nat
      /\ UNCHANGED <<client, writer, lock, queue, next, request, relay>>
  BY Busy, UdpGwServerAssumption, ZenonT(30) DEF CloseSession, ServerInv, Locks
<1>2. /\ generations'[c] = 0 /\ sessions'[c] = 0
      /\ \A d \in Conns : d # c => generations'[d] = generations[d] /\ sessions'[d] = sessions[d]
      /\ generations' \in [Conns -> 0 .. MaxGen] /\ sessions' \in [Conns -> 0 .. MaxGen]
  BY <1>1 DEF CloseSession, ServerInv, ServerTypes
<1>3. /\ stop' \in SUBSET Gens /\ stop \subseteq stop'
      /\ \A g \in stop' : g \in stop \/ (g = sessions[c] /\ g = generations[c] /\ g \in Known)
      /\ sessions[c] # 0 => sessions[c] \in stop'
  BY <1>1, Mapped, ZenonT(30) DEF CloseSession
<1>4. ServerTypes' /\ Locks'
  BY <1>1, <1>2, <1>3, AtRest, ZenonT(30) DEF ServerInv, ServerTypes, Locks
<1>5. Latest'
  BY <1>1, <1>2, <1>3 DEF ServerInv, Latest, Known
<1>6. Stamps' /\ Serving'
  BY <1>1, AtRest, ZenonT(30) DEF ServerInv, Stamps, Stamped, Known, Serving, Opening
<1>7. Relays'
  <2> SUFFICES ASSUME NEW g \in Gens, relay[g] \in {"wait", "send"}
               PROVE  IF g \in stop' THEN client = "up" => generations'[request[g].conn] # g
                      ELSE sessions'[request[g].conn] = g
    BY <1>1, ZenonT(30) DEF ServerInv, Relays, Conn, InMap
  <2>1. request[g].conn \in Conns /\ g # 0
    BY DEF ServerInv, Relays, Gens
  <2>2. CASE request[g].conn = c
    BY <1>2, <1>3, <2>1, <2>2 DEF ServerInv, Relays, Conn, InMap
  <2>3. CASE request[g].conn # c
    <3>1. g \in stop' => g \in stop
      BY <1>1, <1>3, <2>1, <2>3 DEF ServerInv, Latest
    <3>2. QED
      BY <1>2, <1>3, <2>1, <2>3, <3>1, ZenonT(30) DEF ServerInv, Relays, Conn, InMap
  <2>4. QED
    BY <2>2, <2>3, ZenonT(30)
<1>8. QED
  BY <1>4, <1>5, <1>6, <1>7, ZenonT(30) DEF ServerInv

\* What is queued behind the others keeps every item stamped.
LEMMA Queued ==
    ASSUME ServerInv, NEW item \in Item, Stamped(item)
    PROVE  /\ Append(queue, item) \in Seq(Item)
           /\ \A i \in 1 .. Len(Append(queue, item)) : Stamped(Append(queue, item)[i])
<1>1. /\ Append(queue, item) \in Seq(Item) /\ Len(Append(queue, item)) = Len(queue) + 1 /\ Len(queue) \in Nat
      /\ \A i \in 1 .. Len(queue) : Append(queue, item)[i] = queue[i]
      /\ Append(queue, item)[Len(queue) + 1] = item
  BY SeqAppended, SeqLength DEF ServerInv, ServerTypes
<1>2. \A i \in 1 .. Len(queue) + 1 : i \in 1 .. Len(queue) \/ i = Len(queue) + 1
  BY <1>1
<1>3. QED
  BY <1>1, <1>2, ZenonT(30) DEF ServerInv, Stamps

\* An error or a keepalive is queued by the reader.
LEMMA RespondStep ==
    ASSUME ServerInv, Respond
    PROVE  ServerInv'
<1> DEFINE item == [kind |-> reader.kind, conn |-> reader.conn, gen |-> reader.gen]
<1>1. /\ client = "up" /\ reader.conn \in Conns /\ reader \in ReaderAt /\ reader.pc = "send"
      /\ reader' = Reading /\ queue' = Append(queue, item)
      /\ UNCHANGED <<client, writer, lock, next, generations, sessions, request, relay, stop>>
  BY Busy, ZenonT(30) DEF Respond, ServerInv, ServerTypes
<1>2. item \in Item /\ Stamped(item)
  BY <1>1, ZenonT(30) DEF Item, ReaderAt, Stamped, ServerInv, Serving
<1>3. queue' \in Seq(Item) /\ \A i \in 1 .. Len(queue') : Stamped(queue'[i])
  BY <1>1, <1>2, Queued, ZenonT(30)
<1>4. ServerTypes' /\ Locks'
  BY <1>1, <1>3, AtRest, ZenonT(30) DEF ServerInv, ServerTypes, Locks
<1>5. Latest' /\ Serving' /\ Relays'
  BY <1>1, AtRest, ZenonT(30) DEF ServerInv, Latest, Known, Serving, Opening, Relays, Conn, InMap
<1>6. Stamps'
  BY <1>1, <1>3, ZenonT(30) DEF ServerInv, Stamps, Stamped, Known, Current
<1>7. QED
  BY <1>4, <1>5, <1>6, ZenonT(30) DEF ServerInv

\* The writer takes an item off the queue, writes what is current under the
\* lock, and ends its write.
LEMMA WriterSteps ==
    ASSUME ServerInv, WriterStep
    PROVE  ServerInv'
<1>1. UNCHANGED <<client, reader, next, generations, sessions, request, relay, stop>>
  BY ZenonT(30) DEF WriterStep, Receive, LockAndCheck, Written
<1>2. Latest' /\ Serving' /\ Relays'
  BY <1>1, ZenonT(30) DEF ServerInv, Latest, Known, Serving, Relays, Conn, InMap
<1>3. writer \in [pc : {"recv", "lock", "write"}, item : Item] /\ queue \in Seq(Item)
  BY ZenonT(30) DEF ServerInv, ServerTypes
<1>4. CASE Receive
  <2>1. /\ queue # <<>> /\ client = "up" /\ writer.pc = "recv" /\ UNCHANGED lock
        /\ writer' = [pc |-> "lock", item |-> Head(queue)] /\ queue' = Tail(queue)
    BY <1>4, ZenonT(30) DEF Receive
  <2>2. /\ Len(queue) \in Nat \ {0} /\ Head(queue) = queue[1] /\ queue' \in Seq(Item)
        /\ Len(queue') = Len(queue) - 1
        /\ \A i \in 1 .. Len(queue) - 1 : queue'[i] = queue[i + 1]
    BY <1>3, <2>1, SeqTail, SeqEmpty, SeqLength
  <2>3. 1 \in 1 .. Len(queue) /\ \A i \in 1 .. Len(queue) - 1 : i + 1 \in 1 .. Len(queue)
    BY <2>2
  <2>4. Head(queue) \in Item /\ Stamped(Head(queue))
    BY <1>3, <2>2, <2>3 DEF ServerInv, Stamps
  <2>5. writer'.pc = "lock" /\ writer'.item = Head(queue) /\ writer' \in [pc : {"recv", "lock", "write"}, item : Item]
    BY <2>1, <2>4, ZenonT(30)
  <2>6. ServerTypes' /\ Locks'
    BY <1>1, <2>1, <2>2, <2>5, ZenonT(30) DEF ServerInv, ServerTypes, Locks
  <2>7. \A i \in 1 .. Len(queue') : Stamped(queue'[i])
    BY <2>2, <2>3, ZenonT(30) DEF ServerInv, Stamps
  <2>8. Stamps'
    BY <1>1, <2>4, <2>5, <2>7, ZenonT(30) DEF Stamps, Stamped, Known
  <2>9. QED
    BY <1>2, <2>6, <2>8, ZenonT(30) DEF ServerInv
<1>5. CASE LockAndCheck \/ Written
  <2>1. UNCHANGED queue /\ (writer' = WriterWaits \/ (writer' = [writer EXCEPT !.pc = "write"] /\ Current(writer.item)))
    BY <1>5, ZenonT(30) DEF LockAndCheck, Written
  <2>2. CASE writer' = WriterWaits
    <3>1. ServerTypes'
      BY <1>1, <1>5, <2>1, <2>2, AtRest, ZenonT(30) DEF ServerInv, ServerTypes, LockAndCheck, Written
    <3>2. Locks'
      BY <1>1, <1>3, <1>5, <2>1, <2>2, AtRest, ZenonT(30) DEF ServerInv, Locks, LockAndCheck, Written
    <3>3. Stamps'
      BY <1>1, <2>1, <2>2, AtRest, ZenonT(30) DEF ServerInv, Stamps, Stamped, Known
    <3>4. QED
      BY <1>2, <3>1, <3>2, <3>3, ZenonT(30) DEF ServerInv
  <2>3. CASE writer' # WriterWaits
    <3>1. /\ LockAndCheck /\ writer.pc = "lock" /\ lock = "free" /\ lock' = "writer"
          /\ writer' = [writer EXCEPT !.pc = "write"] /\ Current(writer.item)
      BY <1>5, <2>3, ZenonT(30) DEF LockAndCheck, Written
    <3>2. writer'.pc = "write" /\ writer'.item = writer.item /\ writer' \in [pc : {"recv", "lock", "write"}, item : Item]
      BY <1>3, <3>1, ZenonT(30)
    <3>3. client = "up"
      BY <3>1, AtRest, ZenonT(30) DEF ServerInv, ServerTypes, Locks
    <3>4. ServerTypes' /\ Locks'
      BY <1>1, <2>1, <3>1, <3>2, <3>3, ZenonT(30) DEF ServerInv, ServerTypes, Locks
    <3>5. Stamps'
      BY <1>1, <2>1, <3>1, <3>2, ZenonT(30) DEF ServerInv, Stamps, Stamped, Known, Current
    <3>6. QED
      BY <1>2, <3>4, <3>5, ZenonT(30) DEF ServerInv
  <2>4. QED
    BY <2>2, <2>3, ZenonT(30)
<1>6. QED
  BY <1>4, <1>5, ZenonT(30) DEF WriterStep

\* A relay that is not new moves on: what it changes of the map is its own
\* session, and it tells nobody else to stop.
LEMMA RelayMovesOn ==
    ASSUME ServerInv, NEW g \in Gens, relay[g] # "none",
           NEW to \in {"wait", "send", "cleanup", "ended"},
           relay' = [relay EXCEPT ![g] = to],
           UNCHANGED <<client, reader, writer, lock, next, generations, request>>,
           queue' \in Seq(Item), client # "up" => queue' = queue,
           \A i \in 1 .. Len(queue') : Stamped(queue'[i]),
           \/ UNCHANGED <<sessions, stop>> /\ (to \in {"wait", "send"} => relay[g] \in {"wait", "send"})
           \/ /\ InMap(g) /\ sessions' = Dropped(g) /\ to \in {"cleanup", "ended"}
              /\ stop' = stop \/ stop' = stop \cup {g}
           \/ UNCHANGED sessions /\ stop' = stop \cup {g} /\ to \in {"cleanup", "ended"}
    PROVE  ServerInv'
<1>1. /\ relay \in [Gens -> {"none", "wait", "send", "cleanup", "ended"}] /\ sessions \in [Conns -> 0 .. MaxGen]
      /\ stop \in SUBSET Gens /\ MaxGen \in Nat
  BY UdpGwServerAssumption, ZenonT(30) DEF ServerInv, ServerTypes
<1>2. /\ relay' \in [Gens -> {"none", "wait", "send", "cleanup", "ended"}]
      /\ relay'[g] = to /\ \A h \in Gens : h # g => relay'[h] = relay[h]
  BY <1>1, ZenonT(30)
<1>3. /\ request[g].conn \in Conns /\ g \in Known /\ g # 0
      /\ reader.pc \in Opening => reader.gen # g
  <2>1. request[g].conn \in Conns
    BY ZenonT(30) DEF ServerInv, Relays
  <2>2. g \in Known
    BY ZenonT(30) DEF ServerInv, Latest
  <2>3. g # 0
    BY <1>1 DEF Gens
  <2>4. reader.pc \in Opening => relay[reader.gen] = "none"
    BY ZenonT(30) DEF ServerInv, Serving
  <2>5. QED
    BY <2>1, <2>2, <2>3, <2>4, ZenonT(30)
<1>4. /\ stop' \in SUBSET Gens /\ stop \subseteq stop' /\ stop' \subseteq stop \cup {g}
      /\ sessions' \in [Conns -> 0 .. MaxGen]
      /\ \A c \in Conns : sessions'[c] = sessions[c] \/ (sessions[c] = g /\ sessions'[c] = 0)
      /\ g \in stop' => g \in stop \/ to \in {"cleanup", "ended"}
  BY <1>1, <1>3 DEF Dropped, InMap, Conn
<1>5. ServerTypes' /\ Locks'
  BY <1>2, <1>4, ZenonT(30) DEF ServerInv, ServerTypes, Locks
<1>6. Latest'
  BY <1>2, <1>3, <1>4, ZenonT(30) DEF ServerInv, Latest, Known
<1>7. \A item \in Item : Stamped(item) => Stamped(item)'
  <2> SUFFICES ASSUME NEW item \in Item, Stamped(item), item.gen # 0
               PROVE  Stamped(item)'
    BY ZenonT(30) DEF Stamped
  <2>1. item.gen \in Gens
    BY DEF Item, Gens
  <2>2. QED
    BY <1>2, <2>1, ZenonT(30) DEF Stamped, Known
<1>8. Stamps'
  <2>1. writer.item \in Item /\ Stamped(writer.item)
    BY ZenonT(30) DEF ServerInv, ServerTypes, Stamps
  <2>2. writer.pc = "write" => Current(writer.item)'
    BY ZenonT(30) DEF ServerInv, Stamps, Current
  <2>3. \A i \in 1 .. Len(queue') : queue'[i] \in Item
    BY SeqElement, ZenonT(30)
  <2>4. ASSUME NEW i \in 1 .. Len(queue')
        PROVE  Stamped(queue[i])'
    <3>1. PICK item \in Item : item = queue'[i]
      BY <2>3, ZenonT(30)
    <3>2. Stamped(item)
      BY <3>1, ZenonT(30)
    <3>3. Stamped(item)'
      BY <1>7, <3>2, ZenonT(30)
    <3>4. QED
      BY <3>1, <3>3, ZenonT(30) DEF Stamped
  <2>5. Stamped(writer.item)'
    <3>1. PICK item \in Item : item = writer.item
      BY <2>1, ZenonT(30)
    <3>2. Stamped(item)'
      BY <1>7, <2>1, <3>1, ZenonT(30)
    <3>3. QED
      BY <3>1, <3>2, ZenonT(30) DEF Stamped
  <2>6. QED
    BY <2>2, <2>4, <2>5, ZenonT(30) DEF Stamps
<1>9. Serving'
  <2>1. /\ reader.pc # "read" => reader.conn \in Conns
        /\ reader.pc \in Opening => /\ reader.gen \in Gens /\ sessions[reader.conn] # g
                                    /\ reader.gen # g
    BY <1>3, UdpGwServerAssumption DEF ServerInv, ServerTypes, Serving, Opening, ReaderAt, Gens
  <2>2. QED
    BY <1>2, <1>4, <2>1, ZenonT(30) DEF ServerInv, Serving, Known, Opening
<1>10. Relays'
  <2> SUFFICES ASSUME NEW h \in Gens, relay'[h] # "none"
               PROVE  /\ request[h].conn \in Conns
                      /\ relay'[h] \in {"wait", "send"} =>
                            IF h \in stop' THEN client = "up" => generations[request[h].conn] # h
                            ELSE sessions'[request[h].conn] = h
    BY ZenonT(30) DEF Relays, Conn, InMap
  <2>1. relay[h] # "none" /\ request[h].conn \in Conns
    BY <1>2, ZenonT(30) DEF ServerInv, Relays
  <2>2. CASE h # g
    BY <1>2, <1>4, <2>1, <2>2, ZenonT(30) DEF ServerInv, Relays, Conn, InMap
  <2>3. CASE h = g /\ to \in {"wait", "send"}
    BY <1>2, <1>4, <2>1, <2>3, ZenonT(30) DEF ServerInv, Relays, Conn, InMap
  <2>4. QED
    BY <1>2, <2>1, <2>2, <2>3, ZenonT(30)
<1>11. QED
  BY <1>5, <1>6, <1>8, <1>9, <1>10, ZenonT(30) DEF ServerInv

\* What is true does not depend on which relays are past their idle timeout.
LEMMA NothingMoves ==
    ASSUME ServerInv,
           UNCHANGED <<client, reader, writer, lock, queue, next, generations, sessions, request, relay, stop>>
    PROVE  ServerInv'
<1>1. ServerTypes'
  BY ZenonT(30) DEF ServerInv, ServerTypes
<1>2. Locks' /\ Latest'
  BY ZenonT(30) DEF ServerInv, Locks, Latest, Known
<1>3. Stamps'
  BY ZenonT(30) DEF ServerInv, Stamps, Known, Stamped, Current
<1>4. Serving'
  BY ZenonT(30) DEF ServerInv, Serving, Known
<1>5. Relays'
  BY ZenonT(30) DEF ServerInv, Relays, Conn, InMap
<1>6. QED
  BY <1>1, <1>2, <1>3, <1>4, <1>5, ZenonT(30) DEF ServerInv

\* Every step of a relay is such a move.
LEMMA RelaySteps ==
    ASSUME ServerInv, NEW g \in Gens, RelayStep(g) \/ GoesIdle(g)
    PROVE  ServerInv'
<1>1. queue \in Seq(Item) /\ \A i \in 1 .. Len(queue) : Stamped(queue[i])
  BY ZenonT(30) DEF ServerInv, ServerTypes, Stamps
<1>2. CASE GoesIdle(g)
  BY <1>2, NothingMoves, ZenonT(30) DEF GoesIdle
<1>3. CASE RelayReceives(g)
  <2>1. /\ relay[g] # "none" /\ relay' = [relay EXCEPT ![g] = "send"] /\ relay[g] \in {"wait", "send"}
        /\ UNCHANGED <<client, reader, writer, lock, next, generations, request, queue, sessions, stop>>
    BY <1>3, ZenonT(30) DEF RelayReceives, RelayMoves
  <2>2. QED
    BY <1>1, <2>1, RelayMovesOn, ZenonT(30)
<1>4. ASSUME NEW kind \in {"data", "error"}, RelayQueues(g, kind)
      PROVE  ServerInv'
  <2> DEFINE item == [kind |-> kind, conn |-> Conn(g), gen |-> g]
  <2>1. /\ relay[g] = "send" /\ relay' = [relay EXCEPT ![g] = "wait"] /\ queue' = Append(queue, item)
        /\ client = "up"
        /\ UNCHANGED <<client, reader, writer, lock, next, generations, request, sessions, stop>>
    BY <1>4, ZenonT(30) DEF RelayQueues, RelayMoves
  <2>2. request[g].conn \in Conns /\ g \in Known /\ g \in 0 .. MaxGen
    BY <2>1, UdpGwServerAssumption DEF ServerInv, Relays, Latest, Gens
  <2>3. item \in Item /\ Stamped(item)
    BY <2>1, <2>2, ZenonT(30) DEF Item, Stamped, Conn
  <2>4. queue' \in Seq(Item) /\ \A i \in 1 .. Len(queue') : Stamped(queue'[i])
    BY <2>1, <2>3, Queued, ZenonT(30)
  <2>5. QED
    BY <2>1, <2>4, RelayMovesOn, ZenonT(30)
<1>5. CASE RelayBreaks(g)
  <2>1. /\ relay[g] # "none" /\ relay' = [relay EXCEPT ![g] = "cleanup"]
        /\ UNCHANGED <<client, reader, writer, lock, next, generations, request, queue, sessions, stop>>
    BY <1>5, ZenonT(30) DEF RelayBreaks
  <2>2. QED
    BY <1>1, <2>1, RelayMovesOn, ZenonT(30)
<1>6. CASE RelayExpiresOnStranger(g)
  <2>1. /\ relay[g] # "none" /\ relay' = [relay EXCEPT ![g] = "cleanup"] /\ InMap(g) /\ sessions' = Dropped(g)
        /\ UNCHANGED <<client, reader, writer, lock, next, generations, request, queue, stop>>
    BY <1>6, ZenonT(30) DEF RelayExpiresOnStranger, RelayMoves
  <2>2. QED
    BY <1>1, <2>1, RelayMovesOn, ZenonT(30)
<1>7. CASE RelayTimesOut(g)
  <2>1. /\ relay[g] # "none" /\ relay' = [relay EXCEPT ![g] = "cleanup"]
        /\ \/ InMap(g) /\ sessions' = Dropped(g) /\ stop' = stop \cup {g}
           \/ UNCHANGED <<sessions, stop>>
        /\ UNCHANGED <<client, reader, writer, lock, next, generations, request, queue>>
    BY <1>7, ZenonT(30) DEF RelayTimesOut, RelayMoves
  <2>2. QED
    BY <1>1, <2>1, RelayMovesOn, ZenonT(30)
<1>8. CASE RelayCleansUp(g)
  <2>1. /\ relay[g] # "none" /\ relay' = [relay EXCEPT ![g] = "ended"]
        /\ \/ InMap(g) /\ sessions' = Dropped(g) /\ stop' = stop \cup {g}
           \/ UNCHANGED <<sessions, stop>>
        /\ UNCHANGED <<client, reader, writer, lock, next, generations, request, queue>>
    BY <1>8, ZenonT(30) DEF RelayCleansUp, RelayMoves
  <2>2. QED
    BY <1>1, <2>1, RelayMovesOn, ZenonT(30)
<1>9. QED
  BY <1>2, <1>3, <1>4, <1>5, <1>6, <1>7, <1>8, ZenonT(30) DEF RelayStep

\* The client goes: its halves are dropped, then its sessions are stopped.
LEMMA ClientSteps ==
    ASSUME ServerInv, Disconnect \/ Drain
    PROVE  ServerInv'
<1>1. CASE Disconnect
  <2>1. /\ client' = "ending" /\ reader' = Reading /\ writer' = WriterWaits /\ lock' = "free" /\ queue' = <<>>
        /\ UNCHANGED <<next, generations, sessions, request, relay, stop>>
    BY <1>1, ZenonT(30) DEF Disconnect
  <2>2. queue' \in Seq(Item) /\ Len(queue') = 0
    BY <2>1, SeqEmpty, ZenonT(30)
  <2>3. ServerTypes'
    BY <2>1, <2>2, AtRest, ZenonT(30) DEF ServerInv, ServerTypes
  <2>4. Locks'
    BY <2>1, AtRest, ZenonT(30) DEF Locks
  <2>5. Latest' /\ Relays'
    BY <2>1, ZenonT(30) DEF ServerInv, Latest, Known, Relays, Conn, InMap
  <2>6. Stamps' /\ Serving'
    BY <2>1, <2>2, AtRest DEF Stamps, Stamped, Serving, Opening
  <2>7. QED
    BY <2>3, <2>4, <2>5, <2>6, ZenonT(30) DEF ServerInv
<1>2. CASE Drain
  <2>1. /\ client = "ending" /\ client' = "gone" /\ reader = Reading /\ writer = WriterWaits
        /\ stop' = stop \cup {sessions[c] : c \in {d \in Conns : sessions[d] # 0}}
        /\ sessions' = [c \in Conns |-> 0] /\ MaxGen \in Nat
        /\ UNCHANGED <<reader, writer, lock, queue, next, generations, request, relay>>
    BY <1>2, UdpGwServerAssumption, ZenonT(30) DEF Drain, ServerInv, Locks
  <2>2. \A c \in Conns : sessions[c] # 0 => sessions[c] \in Gens /\ sessions[c] \in Known
    BY UdpGwServerAssumption DEF ServerInv, ServerTypes, Latest, Gens
  <2>3. /\ stop' \in SUBSET Gens /\ stop \subseteq stop' /\ \A g \in stop' : g \in stop \/ g \in Known
        /\ \A c \in Conns : sessions[c] # 0 => sessions[c] \in stop'
    BY <2>1, <2>2 DEF ServerInv, ServerTypes
  <2>4. sessions' \in [Conns -> 0 .. MaxGen] /\ \A c \in Conns : sessions'[c] = 0
    BY <2>1
  <2>5. ServerTypes' /\ Locks'
    BY <2>1, <2>3, <2>4, ZenonT(30) DEF ServerInv, ServerTypes, Locks
  <2>6. Latest' /\ Stamps'
    BY <2>1, <2>3, <2>4, ZenonT(30) DEF ServerInv, Latest, Known, Stamps, Stamped, Current
  <2>7. Serving'
    BY <2>1, AtRest, ZenonT(30) DEF Serving, Opening
  <2>8. Relays'
    <3> SUFFICES ASSUME NEW g \in Gens, relay[g] # "none"
                 PROVE  request[g].conn \in Conns /\ (relay[g] \in {"wait", "send"} => g \in stop')
      BY <2>1, ZenonT(30) DEF Relays, Conn, InMap
    <3>1. request[g].conn \in Conns /\ g # 0
      BY DEF ServerInv, Relays, Gens
    <3>2. QED
      BY <2>3, <3>1, ZenonT(30) DEF ServerInv, Relays, Conn, InMap
  <2>9. QED
    BY <2>5, <2>6, <2>7, <2>8, ZenonT(30) DEF ServerInv
<1>3. QED
  BY <1>1, <1>2, ZenonT(30)

\* Every step preserves the invariant.
LEMMA ServerPreserves == ServerInv /\ [ServerNext]_serverVars => ServerInv'
<1> SUFFICES ASSUME ServerInv, [ServerNext]_serverVars
             PROVE  ServerInv'
  BY ZenonT(30)
<1>1. CASE UNCHANGED serverVars
  BY <1>1, NothingMoves, ZenonT(30) DEF serverVars
<1>2. ASSUME NEW c \in Conns, NEW pc \in {"lookup", "replace", "close", "send"},
             NEW addr \in Addrs \cup {NoAddr}, ReadPacket(c, pc, addr)
      PROVE  ServerInv'
  BY <1>2, ReadStep, ZenonT(30)
<1>3. CASE ReaderStep
  BY <1>3, ReuseStep, ResendStep, NoReuseStep, ReplaceStep, CreateStep, FirstSendStep, CloseStep, RespondStep, ZenonT(30)
  DEF ReaderStep
<1>4. CASE WriterStep
  BY <1>4, WriterSteps, ZenonT(30)
<1>5. ASSUME NEW g \in Gens, RelayStep(g) \/ GoesIdle(g)
      PROVE  ServerInv'
  BY <1>5, RelaySteps, ZenonT(30)
<1>6. CASE Disconnect \/ Drain
  BY <1>6, ClientSteps, ZenonT(30)
<1>7. QED
  BY <1>1, <1>2, <1>3, <1>4, <1>5, <1>6, ZenonT(30) DEF ServerNext

\* The invariant contains the two properties.
LEMMA ServerImplies == ServerInv => NoStaleReply /\ SessionsCurrent
<1> SUFFICES ASSUME ServerInv
             PROVE  NoStaleReply /\ SessionsCurrent
  BY ZenonT(30)
<1>1. NoStaleReply
  <2> SUFFICES ASSUME writer.pc = "write", writer.item.gen # 0
               PROVE  /\ \A g \in Gens : request[g].conn = writer.item.conn /\ g < next => g <= writer.item.gen
                      /\ generations[writer.item.conn] = writer.item.gen
                      /\ writer.item.kind = "data" =>
                            ~ (reader.pc \in {"resolve", "create", "first"} /\ reader.conn = writer.item.conn)
    BY ZenonT(30) DEF NoStaleReply
  <2>1. /\ generations[writer.item.conn] = writer.item.gen /\ writer.item.conn \in Conns
        /\ writer.item.kind = "data" => relay[writer.item.gen] # "none"
    BY ZenonT(30) DEF ServerInv, Stamps, Stamped, Current
  <2>2. ASSUME NEW g \in Gens, request[g].conn = writer.item.conn, g < next
        PROVE  g <= writer.item.gen
    <3>1. g \in Known
      BY <2>2, UdpGwServerAssumption DEF Gens, Known, ServerInv, ServerTypes
    <3>2. QED
      BY <2>1, <2>2, <3>1, ZenonT(30) DEF ServerInv, Latest
  <2>3. QED
    BY <2>1, <2>2, ZenonT(30) DEF ServerInv, Serving, Opening
<1>2. SessionsCurrent
  <2>1. \A c \in Conns : sessions[c] # 0 => sessions[c] = generations[c]
    BY ZenonT(30) DEF ServerInv, Latest
  <2>2. stop \subseteq Gens
    BY ZenonT(30) DEF ServerInv, ServerTypes
  <2>3. QED
    BY <2>1, <2>2, ZenonT(30) DEF ServerInv, Relays, SessionsCurrent
<1>3. QED
  BY <1>1, <1>2, ZenonT(30)

\* The map of sessions, the generations, the relays, the queue and the lock of
\* a gateway connection agree, for any ids and any number of generations.
THEOREM ServerInvariant == ServerSpec => []ServerInv
BY ServerStarts, ServerPreserves, PTL DEF ServerSpec

\* NoStaleReply: write_to_client never writes the reply of a generation that
\* process_udp has replaced or the client has closed.
THEOREM RepliesCurrent == ServerSpec => []NoStaleReply
BY ServerInvariant, ServerImplies, PTL

\* SessionsCurrent: no relay is orphaned and none is stopped by another.
THEOREM RelaysOwned == ServerSpec => []SessionsCurrent
BY ServerInvariant, ServerImplies, PTL

-----------------------------------------------------------------------------
In(q) == {q[i] : i \in 1 .. Len(q)}

Once(q) == \A i, j \in 1 .. Len(q) : q[i] = q[j] => i = j

(* A flow's record, whatever its buffer holds.                             *)
Entry(r) == r = [pc |-> r.pc, stream |-> r.stream, acc |-> r.acc]

Holding == {"relay", "close", "store"}

PoolTypes ==
    /\ pool \in Seq(Streams) /\ Len(pool) <= MaxPool /\ free \subseteq Streams
    /\ beat = [pc |-> beat.pc, streams |-> beat.streams, stream |-> beat.stream]
    /\ beat.streams \in Seq(Streams)
    /\ IF beat.pc = "wait" THEN beat.stream \in Streams ELSE beat.stream = NoStream
    /\ flow = [f \in Flows |-> flow[f]]
    /\ \A f \in Flows :
          /\ Entry(flow[f])
          /\ IF flow[f].pc \in Holding THEN flow[f].stream \in Streams
                                       ELSE flow[f].stream = NoStream

(* The pool, the heartbeat's list, the one it probes, the ones not opened  *)
(* and the ones of the flows have nothing in common.                       *)
Apart ==
    /\ Once(pool) /\ Once(beat.streams)
    /\ In(pool) \cap In(beat.streams) = {}
    /\ free \cap (In(pool) \cup In(beat.streams)) = {}
    /\ beat.stream \notin In(pool) \cup In(beat.streams) \cup free
    /\ \A f \in Flows :
          /\ flow[f].stream \notin In(pool) \cup In(beat.streams) \cup free
          /\ flow[f].stream = beat.stream => flow[f].stream = NoStream
          /\ \A g \in Flows : flow[f].stream = flow[g].stream => f = g \/ flow[f].stream = NoStream

PoolInv == PoolTypes /\ Apart

-----------------------------------------------------------------------------
\* What stands in a sequence are members of its set.
LEMMA Members ==
    ASSUME NEW S, NEW q \in Seq(S)
    PROVE  In(q) \subseteq S
BY DEF In

\* The head of a queue without repetitions leaves it.
LEMMA HeadLeaves ==
    ASSUME NEW S, NEW q \in Seq(S), q # <<>>, Once(q)
    PROVE  /\ Head(q) \in S /\ Tail(q) \in Seq(S) /\ Len(Tail(q)) = Len(q) - 1
           /\ Once(Tail(q)) /\ Head(q) \notin In(Tail(q)) /\ Head(q) \in In(q)
           /\ In(Tail(q)) \subseteq In(q)
<1>1. /\ Len(q) \in Nat \ {0} /\ Head(q) = q[1] /\ Tail(q) \in Seq(S) /\ Len(Tail(q)) = Len(q) - 1
      /\ \A i \in 1 .. Len(q) - 1 : Tail(q)[i] = q[i + 1]
  BY SeqTail, SeqEmpty, SeqLength
<1>2. \A i \in 1 .. Len(q) - 1 : i + 1 \in 1 .. Len(q) /\ i + 1 # 1
  BY <1>1
<1>3. Once(Tail(q))
  <2> SUFFICES ASSUME NEW i \in 1 .. Len(q) - 1, NEW j \in 1 .. Len(q) - 1, Tail(q)[i] = Tail(q)[j]
               PROVE  i = j
    BY <1>1, ZenonT(30) DEF Once
  <2>1. i + 1 = j + 1
    BY <1>1, <1>2 DEF Once
  <2>2. QED
    BY <2>1
<1>4. 1 \in 1 .. Len(q)
  BY <1>1
<1>5. Head(q) \notin In(Tail(q))
  BY <1>1, <1>2, <1>4 DEF In, Once
<1>6. In(Tail(q)) \subseteq In(q) /\ Head(q) \in In(q) /\ Head(q) \in S
  BY <1>1, <1>2, <1>4 DEF In
<1>7. QED
  BY <1>1, <1>3, <1>5, <1>6, ZenonT(30)

\* One that is not there joins a queue at its end.
LEMMA Joins ==
    ASSUME NEW S, NEW q \in Seq(S), NEW s \in S, Once(q), s \notin In(q)
    PROVE  /\ Append(q, s) \in Seq(S) /\ Len(Append(q, s)) = Len(q) + 1
           /\ Once(Append(q, s)) /\ In(Append(q, s)) \subseteq In(q) \cup {s}
<1>1. /\ Append(q, s) \in Seq(S) /\ Len(Append(q, s)) = Len(q) + 1 /\ Len(q) \in Nat
      /\ \A i \in 1 .. Len(q) : Append(q, s)[i] = q[i]
      /\ Append(q, s)[Len(q) + 1] = s
  BY SeqAppended, SeqLength
<1>2. \A i \in 1 .. Len(q) + 1 : i \in 1 .. Len(q) \/ i = Len(q) + 1
  BY <1>1
<1>3. Once(Append(q, s))
  BY <1>1, <1>2, ZenonT(30) DEF Once, In
<1>4. In(Append(q, s)) \subseteq In(q) \cup {s}
  BY <1>1, <1>2, ZenonT(30) DEF In
<1>5. QED
  BY <1>1, <1>3, <1>4, ZenonT(30)

\* A connection given back is in the pool, or dropped because it does not fit.
LEMMA StoredFits ==
    ASSUME PoolInv, NEW s \in Streams, s \notin In(pool)
    PROVE  /\ Stored(s) \in Seq(Streams) /\ Len(Stored(s)) <= MaxPool
           /\ Once(Stored(s)) /\ In(Stored(s)) \subseteq In(pool) \cup {s}
<1>1. /\ pool \in Seq(Streams) /\ Once(pool) /\ Len(pool) <= MaxPool /\ Len(pool) \in Nat
      /\ MaxPool \in Nat
  BY UdpGwClientAssumption, SeqLength, ZenonT(30) DEF PoolInv, PoolTypes, Apart
<1>2. CASE Len(pool) < MaxPool
  <2>1. Stored(s) = Append(pool, s)
    BY <1>2, ZenonT(30) DEF Stored
  <2>2. Len(Append(pool, s)) = Len(pool) + 1
    BY <1>1, Joins, ZenonT(30)
  <2>3. Len(Append(pool, s)) <= MaxPool
    BY <1>1, <1>2, <2>2
  <2>4. QED
    BY <1>1, <2>1, <2>3, Joins
<1>3. CASE ~ (Len(pool) < MaxPool)
  BY <1>1, <1>3, ZenonT(30) DEF Stored
<1>4. QED
  BY <1>2, <1>3, ZenonT(30)

-----------------------------------------------------------------------------
\* A flow takes one connection, or gives its own up to the pool or drops it; the
\* heartbeat keeps what it has.
LEMMA FlowMoves ==
    ASSUME PoolInv, NEW f \in Flows, NEW r, Entry(r), flow' = [flow EXCEPT ![f] = r],
           UNCHANGED beat, pool' \in Seq(Streams), Len(pool') <= MaxPool, Once(pool'),
           free' \subseteq free,
           In(pool') \subseteq In(pool) \cup ({flow[f].stream} \cap Streams),
           IF r.pc \in Holding THEN r.stream \in Streams ELSE r.stream = NoStream,
           r.stream \in Streams => /\ r.stream \notin In(pool') \cup free'
                                   /\ r.stream \in In(pool) \cup free \cup {flow[f].stream}
    PROVE  PoolInv'
<1>1. /\ flow'[f] = r /\ flow' = [g \in Flows |-> flow'[g]]
      /\ \A g \in Flows \ {f} : flow'[g] = flow[g]
  BY ZenonT(30) DEF PoolInv, PoolTypes
<1>2. PoolTypes'
  BY <1>1, ZenonT(30) DEF PoolInv, PoolTypes, Entry
<1>3. NoStream \notin Streams /\ free \subseteq Streams /\ In(pool') \subseteq Streams
      /\ In(beat.streams) \subseteq Streams
  BY UdpGwClientAssumption, Members, ZenonT(30) DEF PoolInv, PoolTypes
<1>4. \A g \in Flows : flow[g].stream \in Streams \/ flow[g].stream = NoStream
  BY ZenonT(30) DEF PoolInv, PoolTypes
<1>5. /\ Once(beat.streams)
      /\ In(pool') \cap In(beat.streams) = {}
      /\ free' \cap (In(pool') \cup In(beat.streams)) = {}
      /\ beat.stream \notin In(pool') \cup In(beat.streams) \cup free'
  BY <1>3, <1>4 DEF PoolInv, Apart
<1>6. /\ r.stream \notin In(pool') \cup In(beat.streams) \cup free'
      /\ r.stream = beat.stream => r.stream = NoStream
      /\ \A g \in Flows \ {f} : flow[g].stream = r.stream => r.stream = NoStream
  <2>1. CASE r.stream = NoStream
    BY <1>3, <2>1, ZenonT(30)
  <2>2. CASE r.stream \in Streams
    BY <1>3, <2>2, ZenonT(30) DEF PoolInv, Apart
  <2>3. QED
    BY <2>1, <2>2, ZenonT(30)
<1>7. ASSUME NEW g \in Flows \ {f}
      PROVE  /\ flow[g].stream \notin In(pool') \cup In(beat.streams) \cup free'
             /\ flow[g].stream = beat.stream => flow[g].stream = NoStream
  BY <1>3, <1>4, ZenonT(30) DEF PoolInv, Apart
<1>8. ASSUME NEW g \in Flows, NEW h \in Flows, flow'[g].stream = flow'[h].stream
      PROVE  g = h \/ flow'[g].stream = NoStream
  BY <1>1, <1>6, <1>8, ZenonT(30) DEF PoolInv, Apart
<1>9. ASSUME NEW g \in Flows
      PROVE  /\ flow'[g].stream \notin In(pool') \cup In(beat.streams) \cup free'
             /\ flow'[g].stream = beat.stream => flow'[g].stream = NoStream
  BY <1>1, <1>6, <1>7, ZenonT(30)
<1>10. Apart'
  <2>1. beat' = beat /\ Once(pool')
    BY ZenonT(30)
  <2>2. QED
    BY <1>5, <1>8, <1>9, <2>1, ZenonT(30) DEF Apart
<1>11. QED
  BY <1>2, <1>10, ZenonT(30) DEF PoolInv

\* Steps of a flow that keep its connection, or drop it.
LEMMA FlowKeeps ==
    ASSUME PoolInv, NEW f \in Flows,
           NEW r, Entry(r), flow' = [flow EXCEPT ![f] = r], UNCHANGED <<pool, beat, free>>,
           \/ r = Ended
           \/ /\ r.stream = flow[f].stream
              /\ r.pc \in Holding <=> flow[f].pc \in Holding
    PROVE  PoolInv'
<1>1. /\ pool \in Seq(Streams) /\ Len(pool) <= MaxPool /\ Once(pool)
      /\ IF flow[f].pc \in Holding THEN flow[f].stream \in Streams ELSE flow[f].stream = NoStream
      /\ flow[f].stream \notin In(pool) \cup free
      /\ NoStream \notin Streams
  BY UdpGwClientAssumption, ZenonT(30) DEF PoolInv, PoolTypes, Apart
<1>2. IF r.pc \in Holding THEN r.stream \in Streams ELSE r.stream = NoStream
  BY <1>1 DEF Ended, Holding
<1>3. r.stream \in Streams => r.stream = flow[f].stream
  BY <1>1 DEF Ended
<1>4. QED
  BY <1>1, <1>2, <1>3, FlowMoves, ZenonT(30)

\* A flow takes the connection that waited longest.
LEMMA PopStep ==
    ASSUME PoolInv, NEW f \in Flows, Pop(f)
    PROVE  PoolInv'
<1> DEFINE r == [pc |-> "relay", stream |-> Head(pool), acc |-> <<>>]
<1>1. /\ pool # <<>> /\ pool' = Tail(pool) /\ UNCHANGED <<beat, free>>
      /\ flow' = [flow EXCEPT ![f] = r]
  BY ZenonT(30) DEF Pop, Relay
<1>2. /\ pool \in Seq(Streams) /\ Len(pool) <= MaxPool /\ Once(pool)
      /\ MaxPool \in Nat /\ Len(pool) \in Nat /\ free \cap In(pool) = {}
  BY UdpGwClientAssumption, SeqLength, ZenonT(30) DEF PoolInv, PoolTypes, Apart
<1>3. /\ Head(pool) \in Streams /\ pool' \in Seq(Streams) /\ Len(pool') = Len(pool) - 1
      /\ Once(pool') /\ Head(pool) \notin In(pool') /\ Head(pool) \in In(pool)
      /\ In(pool') \subseteq In(pool)
  BY <1>1, <1>2, HeadLeaves, ZenonT(30)
<1>4. Len(pool') <= MaxPool
  BY <1>2, <1>3
<1>5. Entry(r) /\ r.pc = "relay" /\ r.stream = Head(pool) /\ "relay" \in Holding
  BY ZenonT(30) DEF Entry, Holding
<1> HIDE DEF r
<1>6. Head(pool) \notin free'
  BY <1>1, <1>2, <1>3, ZenonT(30)
<1>7. QED
  BY <1>1, <1>3, <1>4, <1>5, <1>6, FlowMoves, ZenonT(30)

\* A flow opens a connection, or fails to.
LEMMA ConnectedStep ==
    ASSUME PoolInv, NEW f \in Flows, Connected(f)
    PROVE  PoolInv'
<1>1. UNCHANGED <<pool, beat>>
  BY ZenonT(30) DEF Connected
<1>2. CASE flow' = [flow EXCEPT ![f] = Ended] /\ UNCHANGED free
  <2>1. Entry(Ended)
    BY ZenonT(30) DEF Entry, Ended
  <2>2. QED
    BY <1>1, <1>2, <2>1, FlowKeeps, ZenonT(30)
<1>3. ASSUME NEW s \in free, free' = free \ {s}, Relay(f, s)
      PROVE  PoolInv'
  <2> DEFINE r == [pc |-> "relay", stream |-> s, acc |-> <<>>]
  <2>1. Entry(r) /\ r.pc = "relay" /\ r.stream = s /\ "relay" \in Holding
        /\ flow' = [flow EXCEPT ![f] = r]
    BY <1>3, ZenonT(30) DEF Entry, Holding, Relay
  <2>2. /\ pool \in Seq(Streams) /\ Len(pool) <= MaxPool /\ Once(pool)
        /\ s \in Streams /\ s \notin In(pool)
    BY ZenonT(30) DEF PoolInv, PoolTypes, Apart
  <2> HIDE DEF r
  <2>3. s \notin free' /\ free' \subseteq free
    BY <1>3, ZenonT(30)
  <2>4. QED
    BY <1>1, <2>1, <2>2, <2>3, FlowMoves, ZenonT(30)
<1>4. QED
  BY <1>2, <1>3, ZenonT(30) DEF Connected

\* A flow gives its connection back.
LEMMA StoreStep ==
    ASSUME PoolInv, NEW f \in Flows, Store(f)
    PROVE  PoolInv'
<1>1. /\ flow[f].pc = "store" /\ pool' = Stored(flow[f].stream)
      /\ flow' = [flow EXCEPT ![f] = Ended] /\ UNCHANGED <<beat, free>>
  BY ZenonT(30) DEF Store
<1>2. flow[f].stream \in Streams /\ flow[f].stream \notin In(pool)
  BY <1>1, ZenonT(30) DEF PoolInv, PoolTypes, Apart, Holding
<1>3. Entry(Ended) /\ Ended.stream = NoStream /\ Ended.pc \notin Holding /\ NoStream \notin Streams
  BY UdpGwClientAssumption, ZenonT(30) DEF Entry, Ended, Holding
<1>4. QED
  BY <1>1, <1>2, <1>3, StoredFits, FlowMoves, ZenonT(30)

\* Every step of a flow.
LEMMA FlowSteps ==
    ASSUME PoolInv, NEW f \in Flows, FlowStep(f)
    PROVE  PoolInv'
<1>1. Entry(flow[f]) /\ Entry(Ended)
  BY ZenonT(30) DEF PoolInv, PoolTypes, Entry, Ended
<1>2. CASE Pop(f) \/ Connected(f) \/ Store(f)
  BY <1>2, PopStep, ConnectedStep, StoreStep, ZenonT(30)
<1>3. CASE SendDatagram(f)
  BY <1>3, ZenonT(30) DEF SendDatagram, PoolInv, PoolTypes, Apart
<1>4. CASE RemoteEnd(f) \/ CloseFails(f)
  BY <1>1, <1>4, FlowKeeps, ZenonT(30) DEF RemoteEnd, CloseFails
<1>5. ASSUME NEW pc, flow' = [flow EXCEPT ![f].pc = pc], UNCHANGED <<pool, beat, free>>,
             pc \in Holding <=> flow[f].pc \in Holding
      PROVE  PoolInv'
  <2> DEFINE r == [flow[f] EXCEPT !.pc = pc]
  <2>1. Entry(r) /\ r.stream = flow[f].stream /\ r.pc = pc
    BY <1>1 DEF Entry
  <2>2. flow' = [flow EXCEPT ![f] = r]
    BY <1>5, ZenonT(30)
  <2> HIDE DEF r
  <2>3. QED
    BY <1>5, <2>1, <2>2, FlowKeeps, ZenonT(30)
<1>6. ASSUME NEW acc, flow' = [flow EXCEPT ![f].acc = acc], UNCHANGED <<pool, beat, free>>
      PROVE  PoolInv'
  <2> DEFINE r == [flow[f] EXCEPT !.acc = acc]
  <2>1. Entry(r) /\ r.stream = flow[f].stream /\ r.pc = flow[f].pc
    BY <1>1 DEF Entry
  <2>2. flow' = [flow EXCEPT ![f] = r]
    BY <1>6, ZenonT(30)
  <2> HIDE DEF r
  <2>3. QED
    BY <1>6, <2>1, <2>2, FlowKeeps, ZenonT(30)
<1>7. CASE Connect(f)
  <2>1. /\ flow' = [flow EXCEPT ![f].pc = "connect"] /\ UNCHANGED <<pool, beat, free>>
        /\ "connect" \notin Holding /\ flow[f].pc \notin Holding
    BY <1>7, ZenonT(30) DEF Connect, Holding
  <2>2. QED
    BY <1>5, <2>1, ZenonT(30)
<1>8. CASE SendClose(f)
  <2>1. /\ flow' = [flow EXCEPT ![f].pc = "store"] /\ UNCHANGED <<pool, beat, free>>
        /\ "store" \in Holding /\ flow[f].pc \in Holding
    BY <1>8, ZenonT(30) DEF SendClose, Holding
  <2>2. QED
    BY <1>5, <2>1, ZenonT(30)
<1>9. CASE ReadChunk(f)
  <2>1. /\ \E acc : flow' = [flow EXCEPT ![f].acc = acc]
        /\ UNCHANGED <<pool, beat, free>>
    BY <1>9, ZenonT(30) DEF ReadChunk
  <2>2. QED
    BY <1>6, <2>1, ZenonT(30)
<1>10. CASE HandleFrame(f)
  <2>1. /\ \/ flow' = [flow EXCEPT ![f] = Ended]
           \/ \E acc : flow' = [flow EXCEPT ![f].acc = acc]
        /\ UNCHANGED <<pool, beat, free>>
    BY <1>10, ZenonT(30) DEF HandleFrame
  <2>2. QED
    BY <1>1, <1>6, <2>1, FlowKeeps, ZenonT(30)
<1>11. CASE LocalEnd(f)
  <2>1. CASE flow[f].acc = <<>>
    <3> DEFINE r == [flow[f] EXCEPT !.pc = "close"]
    <3>1. Entry(r) /\ r.stream = flow[f].stream /\ r.pc = "close"
      BY <1>1 DEF Entry
    <3>2. /\ flow' = [flow EXCEPT ![f] = r] /\ UNCHANGED <<pool, beat, free>>
          /\ "close" \in Holding /\ flow[f].pc \in Holding
      BY <1>11, <2>1, ZenonT(30) DEF LocalEnd, Holding
    <3> HIDE DEF r
    <3>3. QED
      BY <3>1, <3>2, FlowKeeps, ZenonT(30)
  <2>2. CASE flow[f].acc # <<>>
    <3>1. flow' = [flow EXCEPT ![f] = Ended] /\ UNCHANGED <<pool, beat, free>>
      BY <1>11, <2>2, ZenonT(30) DEF LocalEnd
    <3>2. QED
      BY <1>1, <3>1, FlowKeeps, ZenonT(30)
  <2>3. QED
    BY <2>1, <2>2, ZenonT(30)
<1>12. QED
  BY <1>2, <1>3, <1>4, <1>7, <1>8, <1>9, <1>10, <1>11, ZenonT(30) DEF FlowStep

-----------------------------------------------------------------------------
\* The heartbeat moves the connections among the pool, its list and its probe.
LEMMA BeatMoves ==
    ASSUME PoolInv, UNCHANGED <<flow, free>>,
           beat' = [pc |-> beat'.pc, streams |-> beat'.streams, stream |-> beat'.stream],
           pool' \in Seq(Streams), Len(pool') <= MaxPool, Once(pool'),
           beat'.streams \in Seq(Streams), Once(beat'.streams),
           IF beat'.pc = "wait" THEN beat'.stream \in Streams ELSE beat'.stream = NoStream,
           In(pool') \cup In(beat'.streams) \cup {beat'.stream}
               \subseteq In(pool) \cup In(beat.streams) \cup {beat.stream} \cup {NoStream},
           In(pool') \cap In(beat'.streams) = {},
           beat'.stream \notin In(pool') \cup In(beat'.streams)
    PROVE  PoolInv'
<1>1. PoolTypes'
  BY ZenonT(30) DEF PoolInv, PoolTypes, Entry
<1>2. /\ NoStream \notin Streams /\ free \subseteq Streams
      /\ In(pool') \subseteq Streams /\ In(beat'.streams) \subseteq Streams
      /\ beat'.stream \in Streams \cup {NoStream}
  BY UdpGwClientAssumption, Members, ZenonT(30) DEF PoolInv, PoolTypes
<1>3. /\ free \cap (In(pool') \cup In(beat'.streams)) = {}
      /\ beat'.stream \notin free
  <2>1. free \cap (In(pool) \cup In(beat.streams)) = {} /\ beat.stream \notin free /\ NoStream \notin free
    BY <1>2, ZenonT(30) DEF PoolInv, Apart
  <2>2. NoStream \notin In(pool') \cup In(beat'.streams)
    BY <1>2, ZenonT(30)
  <2>3. QED
    BY <2>1, ZenonT(30)
<1>4. ASSUME NEW f \in Flows
      PROVE  /\ flow[f].stream \notin In(pool') \cup In(beat'.streams) \cup free
             /\ flow[f].stream = beat'.stream => flow[f].stream = NoStream
  BY <1>2, ZenonT(30) DEF PoolInv, Apart
<1>5. \A f, g \in Flows : flow[f].stream = flow[g].stream => f = g \/ flow[f].stream = NoStream
  BY ZenonT(30) DEF PoolInv, Apart
<1>6. Apart'
  BY <1>3, <1>4, <1>5, ZenonT(30) DEF Apart
<1>7. QED
  BY <1>1, <1>6, ZenonT(30) DEF PoolInv

\* Every step of the heartbeat.
LEMMA BeatSteps ==
    ASSUME PoolInv, BeatStep
    PROVE  PoolInv'
<1>1. /\ pool \in Seq(Streams) /\ Len(pool) <= MaxPool /\ Once(pool)
      /\ beat = [pc |-> beat.pc, streams |-> beat.streams, stream |-> beat.stream]
      /\ beat.streams \in Seq(Streams) /\ Once(beat.streams)
      /\ IF beat.pc = "wait" THEN beat.stream \in Streams ELSE beat.stream = NoStream
      /\ In(pool) \cap In(beat.streams) = {}
      /\ beat.stream \notin In(pool) \cup In(beat.streams)
      /\ MaxPool \in Nat /\ Len(pool) \in Nat /\ NoStream \notin Streams
      /\ In(pool) \subseteq Streams /\ In(beat.streams) \subseteq Streams
  BY UdpGwClientAssumption, SeqLength, Members, ZenonT(30) DEF PoolInv, PoolTypes, Apart
<1>2. /\ UNCHANGED <<flow, free>>
      /\ beat' = [pc |-> beat'.pc, streams |-> beat'.streams, stream |-> beat'.stream]
  BY <1>1, ZenonT(30) DEF BeatStep, BeatPops, BeatRests, BeatSkips, BeatProbes, BeatWriteFails, BeatReceives,
              BeatGivesUp, Asleep
<1>3. /\ <<>> \in Seq(Streams) /\ Once(<<>>) /\ In(<<>>) = {}
  BY SeqEmpty DEF Once, In
<1>4. beat.streams # <<>> =>
        /\ Head(beat.streams) \in Streams /\ Tail(beat.streams) \in Seq(Streams)
        /\ Once(Tail(beat.streams)) /\ Head(beat.streams) \notin In(Tail(beat.streams))
        /\ Head(beat.streams) \in In(beat.streams)
        /\ In(Tail(beat.streams)) \subseteq In(beat.streams)
  BY <1>1, HeadLeaves, ZenonT(30)
<1>5. CASE BeatPops /\ pool = <<>>
  <2>1. /\ UNCHANGED pool /\ beat'.streams = beat.streams /\ beat'.stream = beat.stream
        /\ beat'.pc = "next" /\ beat.pc # "wait"
    BY <1>1, <1>5, ZenonT(30) DEF BeatPops
  <2>2. QED
    BY <1>1, <1>2, <2>1, BeatMoves, ZenonT(30)
<1>6. CASE BeatPops /\ pool # <<>>
  <2>1. /\ pool' = Tail(pool) /\ beat'.streams = Append(beat.streams, Head(pool))
        /\ beat'.stream = beat.stream /\ beat'.pc = "collect" /\ beat.pc # "wait"
    BY <1>1, <1>6, ZenonT(30) DEF BeatPops
  <2>2. /\ Head(pool) \in Streams /\ pool' \in Seq(Streams) /\ Len(pool') = Len(pool) - 1
        /\ Once(pool') /\ Head(pool) \notin In(pool') /\ Head(pool) \in In(pool)
        /\ In(pool') \subseteq In(pool)
    BY <1>1, <1>6, <2>1, HeadLeaves, ZenonT(30)
  <2>3. /\ beat'.streams \in Seq(Streams) /\ Once(beat'.streams)
        /\ In(beat'.streams) \subseteq In(beat.streams) \cup {Head(pool)}
    BY <1>1, <2>1, <2>2, Joins
  <2>4. Len(pool') <= MaxPool
    BY <1>1, <2>2
  <2>5. /\ In(pool') \cap In(beat'.streams) = {}
        /\ beat'.stream = NoStream /\ NoStream \notin In(pool') \cup In(beat'.streams)
    BY <1>1, <2>1, <2>2, <2>3, ZenonT(30)
  <2>6. QED
    BY <1>2, <2>1, <2>2, <2>3, <2>4, <2>5, BeatMoves, ZenonT(30)
<1>7. CASE BeatRests
  <2>1. /\ UNCHANGED pool /\ beat'.streams = <<>> /\ beat'.stream = NoStream
        /\ beat'.pc = "sleep"
    BY <1>7, ZenonT(30) DEF BeatRests, Asleep
  <2>2. QED
    BY <1>1, <1>2, <1>3, <2>1, BeatMoves, ZenonT(30)
<1>8. CASE BeatSkips
  <2> DEFINE s == Head(beat.streams)
  <2>1. /\ beat.streams # <<>> /\ pool' = Stored(s) /\ beat'.streams = Tail(beat.streams)
        /\ beat'.stream = beat.stream /\ beat'.pc = "next" /\ beat.pc = "next"
    BY <1>1, <1>8, ZenonT(30) DEF BeatSkips
  <2>2. s \in Streams /\ s \notin In(pool) /\ s \notin In(beat'.streams)
    BY <1>1, <1>4, <2>1, ZenonT(30)
  <2>3. /\ pool' \in Seq(Streams) /\ Len(pool') <= MaxPool /\ Once(pool')
        /\ In(pool') \subseteq In(pool) \cup {s}
    BY <2>1, <2>2, StoredFits, ZenonT(30)
  <2> HIDE DEF s
  <2>4. /\ In(pool') \cap In(beat'.streams) = {} /\ beat'.stream = NoStream
        /\ NoStream \notin In(pool') \cup In(beat'.streams)
        /\ In(pool') \cup In(beat'.streams) \subseteq In(pool) \cup In(beat.streams)
    BY <1>1, <1>4, <2>1, <2>2, <2>3, ZenonT(30) DEF s
  <2>5. QED
    BY <1>2, <1>4, <2>1, <2>3, <2>4, BeatMoves, ZenonT(30)
<1>9. CASE BeatProbes
  <2>1. /\ beat.streams # <<>> /\ UNCHANGED pool /\ beat'.streams = Tail(beat.streams)
        /\ beat'.stream = Head(beat.streams) /\ beat'.pc = "wait"
    BY <1>9, ZenonT(30) DEF BeatProbes
  <2>2. QED
    BY <1>1, <1>2, <1>4, <2>1, BeatMoves, ZenonT(30)
<1>10. CASE BeatWriteFails
  <2>1. /\ beat.streams # <<>> /\ UNCHANGED pool
        /\ beat'.streams = Tail(beat.streams) \/ beat'.streams = <<>>
        /\ beat'.stream = NoStream /\ beat'.pc # "wait"
    BY <1>1, <1>10, ZenonT(30) DEF BeatWriteFails, Asleep
  <2>2. QED
    BY <1>1, <1>2, <1>3, <1>4, <2>1, BeatMoves, ZenonT(30)
<1>11. CASE BeatReceives
  <2> DEFINE s == beat.stream
  <2>1. /\ beat.pc = "wait" /\ s \in Streams /\ s \notin In(pool)
        /\ \/ pool' = Stored(s) /\ beat'.pc = "next" /\ beat'.stream = NoStream
           \/ UNCHANGED pool /\ beat'.pc = "next" /\ beat'.stream = NoStream
           \/ UNCHANGED <<pool, beat>>
        /\ beat'.streams = beat.streams
    BY <1>1, <1>11, ZenonT(30) DEF BeatReceives
  <2>2. CASE pool' = Stored(s) /\ beat'.pc = "next" /\ beat'.stream = NoStream
    <3>1. /\ pool' \in Seq(Streams) /\ Len(pool') <= MaxPool /\ Once(pool')
          /\ In(pool') \subseteq In(pool) \cup {s}
      BY <2>1, <2>2, StoredFits, ZenonT(30)
    <3>2. /\ In(pool') \cap In(beat'.streams) = {}
          /\ NoStream \notin In(pool') \cup In(beat'.streams)
      BY <1>1, <2>1, <3>1, ZenonT(30)
    <3>3. QED
      BY <1>1, <1>2, <2>1, <2>2, <3>1, <3>2, BeatMoves, ZenonT(30)
  <2>3. CASE UNCHANGED pool /\ beat'.pc = "next" /\ beat'.stream = NoStream
    BY <1>1, <1>2, <2>1, <2>3, BeatMoves, ZenonT(30)
  <2>4. CASE UNCHANGED <<pool, beat>>
    BY <1>1, <1>2, <2>4, BeatMoves, ZenonT(30)
  <2>5. QED
    BY <2>1, <2>2, <2>3, <2>4, ZenonT(30)
<1>12. CASE BeatGivesUp
  <2>1. /\ UNCHANGED pool /\ beat'.streams = beat.streams /\ beat'.stream = NoStream
        /\ beat'.pc = "next"
    BY <1>1, <1>12, ZenonT(30) DEF BeatGivesUp
  <2>2. QED
    BY <1>1, <1>2, <2>1, BeatMoves, ZenonT(30)
<1>13. QED
  BY <1>5, <1>6, <1>7, <1>8, <1>9, <1>10, <1>11, <1>12, ZenonT(30) DEF BeatStep

\* Every step keeps the invariant; the server touches no connection's place.
LEMMA PoolPreserves ==
    ASSUME PoolInv, [Next]_vars
    PROVE  PoolInv'
<1>1. CASE \E f \in Flows : FlowStep(f)
  BY <1>1, FlowSteps, ZenonT(30)
<1>2. CASE BeatStep
  BY <1>2, BeatSteps, ZenonT(30)
<1>3. CASE \E s \in Streams : ServerReads(s) \/ \E kind \in {"data", "error"} : ServerReplies(s, kind)
  <2>1. UNCHANGED <<pool, flow, beat, free>>
    BY <1>3, ZenonT(30) DEF ServerReads, ServerReplies
  <2>2. QED
    BY <2>1, ZenonT(30) DEF PoolInv, PoolTypes, Apart
<1>4. CASE UNCHANGED vars
  BY <1>4, ZenonT(30) DEF vars, PoolInv, PoolTypes, Apart
<1>5. QED
  BY <1>1, <1>2, <1>3, <1>4, ZenonT(30) DEF Next

\* At first no connection is open and no flow has one.
LEMMA PoolStarts == Init => PoolInv
<1> SUFFICES ASSUME Init PROVE PoolInv
  BY ZenonT(30)
<1>1. /\ <<>> \in Seq(Streams) /\ Len(<<>>) = 0 /\ Once(<<>>) /\ In(<<>>) = {}
      /\ MaxPool \in Nat /\ NoStream \notin Streams
  BY SeqEmpty, UdpGwClientAssumption DEF Once, In
<1>2. /\ \A f \in Flows : Entry(flow[f]) /\ flow[f].pc = "start" /\ flow[f].stream = NoStream
      /\ flow = [f \in Flows |-> flow[f]]
  BY ZenonT(30) DEF Init, Waiting, Entry
<1>3. /\ beat = [pc |-> beat.pc, streams |-> beat.streams, stream |-> beat.stream]
      /\ beat.pc = "sleep" /\ beat.streams = <<>> /\ beat.stream = NoStream
      /\ pool = <<>> /\ free = Streams
  BY ZenonT(30) DEF Init, Asleep
<1>4. PoolTypes
  BY <1>1, <1>2, <1>3 DEF PoolTypes, Holding
<1>5. Apart
  BY <1>1, <1>2, <1>3, ZenonT(30) DEF Apart
<1>6. QED
  BY <1>4, <1>5, ZenonT(30) DEF PoolInv

\* The inductive invariant holds in every behaviour of the client.
THEOREM PoolInvariant == Spec => []PoolInv
BY PoolStarts, PoolPreserves, PTL DEF Spec

\* The invariant says that a connection has one user.
LEMMA PoolApart == PoolInv => OneUser
<1> SUFFICES ASSUME PoolInv PROVE OneUser
  BY ZenonT(30)
<1> DEFINE q == pool \o beat.streams
<1>1. /\ pool \in Seq(Streams) /\ beat.streams \in Seq(Streams)
      /\ Len(pool) \in Nat /\ Len(beat.streams) \in Nat
  BY SeqLength, ZenonT(30) DEF PoolInv, PoolTypes
<1>2. /\ DOMAIN q = 1 .. Len(pool) + Len(beat.streams)
      /\ \A i \in DOMAIN q : IF i <= Len(pool) THEN q[i] = pool[i]
                                              ELSE q[i] = beat.streams[i - Len(pool)]
  <2>1. q \in Seq(Streams) /\ Len(q) = Len(pool) + Len(beat.streams)
    BY <1>1, SeqJoined, ZenonT(30)
  <2>2. \A i \in 1 .. Len(pool) + Len(beat.streams) :
           q[i] = IF i <= Len(pool) THEN pool[i] ELSE beat.streams[i - Len(pool)]
    BY <1>1, SeqJoined, ZenonT(30)
  <2>3. QED
    BY <2>1, <2>2, SeqLength, ZenonT(30)
<1> HIDE DEF q
<1>3. \A i \in DOMAIN q : \/ i \in 1 .. Len(pool) /\ q[i] = pool[i]
                          \/ /\ i - Len(pool) \in 1 .. Len(beat.streams)
                             /\ q[i] = beat.streams[i - Len(pool)]
  BY <1>1, <1>2
<1>4. Range(q) \subseteq In(pool) \cup In(beat.streams)
  BY <1>3, ZenonT(30) DEF Range, In
<1>5. ASSUME NEW i \in DOMAIN q, NEW j \in DOMAIN q, q[i] = q[j] PROVE i = j
  <2>1. i \in Int /\ j \in Int
    BY <1>1, <1>2
  <2>2. \A m \in 1 .. Len(pool), n \in 1 .. Len(beat.streams) : pool[m] # beat.streams[n]
    BY ZenonT(30) DEF PoolInv, Apart, In
  <2>3. CASE i \in 1 .. Len(pool) /\ q[i] = pool[i]
    <3>1. j \in 1 .. Len(pool) /\ q[j] = pool[j]
      BY <1>3, <1>5, <2>2, <2>3, ZenonT(30)
    <3>2. QED
      BY <1>5, <2>3, <3>1, ZenonT(30) DEF PoolInv, Apart, Once
  <2>4. CASE i - Len(pool) \in 1 .. Len(beat.streams) /\ q[i] = beat.streams[i - Len(pool)]
    <3>1. j - Len(pool) \in 1 .. Len(beat.streams) /\ q[j] = beat.streams[j - Len(pool)]
      BY <1>3, <1>5, <2>2, <2>4, ZenonT(30)
    <3>2. i - Len(pool) = j - Len(pool)
      BY <1>5, <2>4, <3>1, ZenonT(30) DEF PoolInv, Apart, Once
    <3>3. QED
      BY <1>1, <2>1, <3>2
  <2>5. QED
    BY <1>3, <2>3, <2>4, ZenonT(30)
<1>6. IsInjective(q)
  BY <1>5, ZenonT(30) DEF IsInjective
<1>7. ASSUME NEW s \in Streams
      PROVE  LET users == {f \in Flows : flow[f].stream = s}
                 shared == s \in Range(q) \cup {beat.stream} \cup free
             IN  /\ \A f, g \in users : f = g
                 /\ ~ (shared /\ users # {})
                 /\ s \in free \cup {beat.stream} => s \notin Range(q)
                 /\ ~ (s \in free /\ s = beat.stream)
  <2>1. s # NoStream
    BY UdpGwClientAssumption, ZenonT(30)
  <2>2. \A f, g \in Flows : flow[f].stream = s /\ flow[g].stream = s => f = g
    BY <2>1, ZenonT(30) DEF PoolInv, Apart
  <2>3. \A f \in Flows : flow[f].stream = s => s \notin Range(q) \cup {beat.stream} \cup free
    BY <1>4, <2>1, ZenonT(30) DEF PoolInv, Apart
  <2>4. /\ s \in free \cup {beat.stream} => s \notin Range(q)
        /\ ~ (s \in free /\ s = beat.stream)
    BY <1>4, ZenonT(30) DEF PoolInv, Apart
  <2>5. QED
    BY <2>2, <2>3, <2>4, ZenonT(30)
<1>8. Len(pool) <= MaxPool
  BY ZenonT(30) DEF PoolInv, PoolTypes
<1>9. QED
  BY <1>6, <1>7, <1>8, ZenonT(30) DEF OneUser, q

\* A connection is never with two flows, nor with a flow while the pool or the
\* heartbeat has it, and the pool keeps to max_connections: for any number of
\* flows and connections, wherever heartbeat_task's steps fall among theirs.
THEOREM ConnectionsUnshared == Spec => []OneUser
BY PoolInvariant, PoolApart, PTL
=============================================================================
