---------------------------- MODULE UdpGwServer ----------------------------
(***************************************************************************)
(* One client connection of the UDP gateway server.  The reader handles    *)
(* the client's packets one at a time; every connection id has at most one *)
(* relay session, whose task queues the destination's replies; the writer  *)
(* takes replies off the bounded queue and writes them to the client.  A   *)
(* reply is stamped with the generation of the request that opened its     *)
(* session, and the delivery lock orders a change of generation against a  *)
(* write.  Clocks are abstract: a session may become idle at any moment    *)
(* and activity makes it fresh again.                                      *)
(***************************************************************************)
EXTENDS Naturals, Sequences

CONSTANTS
    Conns,       \* connection ids the client uses
    Addrs,       \* request addresses
    NoAddr,      \* a request without a usable address or payload
    NoConn,      \* no connection id
    QueueSize,   \* capacity of the outbound channel
    MaxGen       \* bound on the generations handed out

ASSUME UdpGwServerAssumption ==
    /\ NoAddr \notin Addrs
    /\ NoConn \notin Conns
    /\ QueueSize \in Nat \ {0}
    /\ MaxGen \in Nat

VARIABLES
    client,       \* "up", "ending" (its halves are dropped), "gone" (drained)
    reader,       \* where the reader is and the request it handles
    writer,       \* where the writer is and the item in its hands
    lock,         \* holder of delivery_lock
    queue,        \* the outbound channel
    next,         \* NEXT_GENERATION
    generations,  \* the generation map, 0 for an absent entry
    sessions,     \* the session map, by generation, 0 for an absent entry
    request,      \* the request that opened each generation
    relay,        \* the relay task of each generation
    stop,         \* the generations whose stop token is cancelled
    idle          \* the generations past their idle timeout

serverVars == <<client, reader, writer, lock, queue, next, generations, sessions,
                request, relay, stop, idle>>

Gens == 1 .. MaxGen

Request == [conn : Conns \cup {NoConn}, addr : Addrs \cup {NoAddr}]

Item == [kind : {"data", "error", "keepalive"}, conn : Conns \cup {NoConn}, gen : 0 .. MaxGen]

ReaderAt == [pc : {"read", "lookup", "resend", "replace", "resolve", "create",
                   "first", "close", "send"},
             conn : Conns \cup {NoConn}, addr : Addrs \cup {NoAddr}, gen : 0 .. MaxGen,
             kind : {"data", "error", "keepalive"}]

Reading ==
    [pc |-> "read", conn |-> NoConn, addr |-> NoAddr, gen |-> 0, kind |-> "data"]

NoItem == [kind |-> "keepalive", conn |-> NoConn, gen |-> 0]

WriterWaits == [pc |-> "recv", item |-> NoItem]

ServerInit ==
    /\ client = "up"
    /\ reader = Reading
    /\ writer = WriterWaits
    /\ lock = "free"
    /\ queue = <<>>
    /\ next = 1
    /\ generations = [c \in Conns |-> 0]
    /\ sessions = [c \in Conns |-> 0]
    /\ request = [g \in Gens |-> [conn |-> NoConn, addr |-> NoAddr]]
    /\ relay = [g \in Gens |-> "none"]
    /\ stop = {}
    /\ idle = {}

-----------------------------------------------------------------------------
(* The reader: process_client_udp_req and process_udp.                     *)

(* The rest of the reader's error path: the error is stamped with gen.     *)
Fails(gen) == reader' = [reader EXCEPT !.pc = "send", !.addr = NoAddr, !.gen = gen,
                                        !.kind = "error"]

(* A packet is read.  One without an address, over the MTU or with unknown *)
(* flags only replaces the generation and is answered with an error.       *)
ReadPacket(c, pc, addr) ==
    /\ client = "up" /\ reader.pc = "read"
    /\ pc \in {"lookup", "replace"} => next <= MaxGen
    /\ (pc = "lookup") <=> (addr # NoAddr)
    /\ reader' = [pc |-> pc, conn |-> c, addr |-> addr, gen |-> 0,
                  kind |-> IF pc = "send" THEN "keepalive" ELSE "data"]
    /\ UNCHANGED <<client, writer, lock, queue, next, generations, sessions,
                   request, relay, stop, idle>>

(* The fast path: the session of this request address is used again.       *)
Reuse ==
    /\ reader.pc = "lookup"
    /\ LET g == sessions[reader.conn]
       IN  /\ g # 0
           /\ request[g].addr = reader.addr
           /\ idle' = idle \ {g}
           /\ reader' = [reader EXCEPT !.pc = "resend", !.gen = g]
    /\ UNCHANGED <<client, writer, lock, queue, next, generations, sessions,
                   request, relay, stop>>

Resend ==
    /\ reader.pc = "resend"
    /\ reader' = Reading \/ Fails(reader.gen)
    /\ UNCHANGED <<client, writer, lock, queue, next, generations, sessions,
                   request, relay, stop, idle>>

NoReuse ==
    /\ reader.pc = "lookup"
    /\ LET g == sessions[reader.conn] IN g # 0 => request[g].addr # reader.addr
    /\ reader' = [reader EXCEPT !.pc = "replace"]
    /\ UNCHANGED <<client, writer, lock, queue, next, generations, sessions,
                   request, relay, stop, idle>>

(* The session of c leaves the map and its relay is told to stop.          *)
Stopped(c) == IF sessions[c] = 0 THEN stop ELSE stop \cup {sessions[c]}

ReplaceGenerationUnlocked ==
    /\ reader.pc = "replace"
    /\ next' = next + 1
    /\ generations' = [generations EXCEPT ![reader.conn] = next]
    /\ request' = [request EXCEPT ![next] = [conn |-> reader.conn, addr |-> reader.addr]]
    /\ sessions' = [sessions EXCEPT ![reader.conn] = 0]
    /\ stop' = Stopped(reader.conn)
    /\ IF reader.addr = NoAddr
       THEN Fails(next)
       ELSE reader' = [reader EXCEPT !.pc = "resolve", !.gen = next]
    /\ UNCHANGED <<client, writer, lock, queue, relay, idle>>

ReplaceGeneration ==
    /\ reader.pc = "replace" /\ lock = "free"
    /\ next' = next + 1
    /\ generations' = [generations EXCEPT ![reader.conn] = next]
    /\ request' = [request EXCEPT ![next] = [conn |-> reader.conn, addr |-> reader.addr]]
    /\ sessions' = [sessions EXCEPT ![reader.conn] = 0]
    /\ stop' = Stopped(reader.conn)
    /\ IF reader.addr = NoAddr
       THEN Fails(next)
       ELSE reader' = [reader EXCEPT !.pc = "resolve", !.gen = next]
    /\ UNCHANGED <<client, writer, lock, queue, relay, idle>>

Resolve ==
    /\ reader.pc = "resolve"
    /\ reader' = [reader EXCEPT !.pc = "create"] \/ Fails(reader.gen)
    /\ UNCHANGED <<client, writer, lock, queue, next, generations, sessions,
                   request, relay, stop, idle>>

(* Under the lock: a socket is bound and the session enters the map; when  *)
(* there is no socket the lock is released by the error return.            *)
Create ==
    /\ reader.pc = "create" /\ lock = "free"
    /\ \/ /\ lock' = "reader"
          /\ sessions' = [sessions EXCEPT ![reader.conn] = reader.gen]
          /\ reader' = [reader EXCEPT !.pc = "first"]
       \/ Fails(reader.gen) /\ UNCHANGED <<lock, sessions>>
    /\ UNCHANGED <<client, writer, queue, next, generations, request, relay,
                   stop, idle>>

(* The first datagram; only a session whose datagram left gets a relay.    *)
FirstSendFailingLocked ==
    /\ reader.pc = "first"
    /\ \/ /\ reader' = Reading
          /\ lock' = "free"
          /\ relay' = [relay EXCEPT ![reader.gen] = "wait"]
          /\ UNCHANGED sessions
       \/ /\ Fails(reader.gen)
          /\ sessions' = [sessions EXCEPT ![reader.conn] = IF @ = reader.gen THEN 0 ELSE @]
          /\ UNCHANGED <<lock, relay>>
    /\ UNCHANGED <<client, writer, queue, next, generations, request, stop, idle>>

FirstSend ==
    /\ reader.pc = "first"
    /\ lock' = "free"
    /\ \/ /\ reader' = Reading
          /\ relay' = [relay EXCEPT ![reader.gen] = "wait"]
          /\ UNCHANGED sessions
       \/ /\ Fails(reader.gen)
          /\ sessions' = [sessions EXCEPT ![reader.conn] = IF @ = reader.gen THEN 0 ELSE @]
          /\ UNCHANGED relay
    /\ UNCHANGED <<client, writer, queue, next, generations, request, stop, idle>>

CloseSession ==
    /\ reader.pc = "close" /\ lock = "free"
    /\ generations' = [generations EXCEPT ![reader.conn] = 0]
    /\ sessions' = [sessions EXCEPT ![reader.conn] = 0]
    /\ stop' = Stopped(reader.conn)
    /\ reader' = Reading
    /\ UNCHANGED <<client, writer, lock, queue, next, request, relay, idle>>

(* send_error_response and send_keepalive_response wait for queue space.   *)
Respond ==
    /\ reader.pc = "send" /\ Len(queue) < QueueSize
    /\ queue' = Append(queue, [kind |-> reader.kind, conn |-> reader.conn,
                               gen |-> reader.gen])
    /\ reader' = Reading
    /\ UNCHANGED <<client, writer, lock, next, generations, sessions, request,
                   relay, stop, idle>>

-----------------------------------------------------------------------------
(* The writer: write_to_client.                                            *)

Receive ==
    /\ client = "up" /\ writer.pc = "recv" /\ queue # <<>>
    /\ writer' = [pc |-> "lock", item |-> Head(queue)]
    /\ queue' = Tail(queue)
    /\ UNCHANGED <<client, reader, lock, next, generations, sessions, request,
                   relay, stop, idle>>

Current(item) == item.gen # 0 => generations[item.conn] = item.gen

LockAndCheck ==
    /\ writer.pc = "lock" /\ lock = "free"
    /\ IF Current(writer.item)
       THEN lock' = "writer" /\ writer' = [writer EXCEPT !.pc = "write"]
       ELSE writer' = WriterWaits /\ UNCHANGED lock
    /\ UNCHANGED <<client, reader, queue, next, generations, sessions, request,
                   relay, stop, idle>>

Written ==
    /\ writer.pc = "write"
    /\ writer' = WriterWaits
    /\ lock' = "free"
    /\ UNCHANGED <<client, reader, queue, next, generations, sessions, request,
                   relay, stop, idle>>

-----------------------------------------------------------------------------
(* The relay task of generation g.                                         *)

Conn(g) == request[g].conn

InMap(g) == sessions[Conn(g)] = g

Dropped(g) == [sessions EXCEPT ![Conn(g)] = 0]

RelayMoves(g, from, to) == relay[g] = from /\ relay' = [relay EXCEPT ![g] = to]

(* The destination answered.                                               *)
RelayReceives(g) ==
    /\ g \notin stop
    /\ RelayMoves(g, "wait", "send")
    /\ idle' = idle \ {g}
    /\ UNCHANGED <<client, reader, writer, lock, queue, next, generations,
                   sessions, request, stop>>

(* The reply, or an error in place of an oversized one, is queued.         *)
RelayQueues(g, kind) ==
    /\ g \notin stop /\ client = "up" /\ Len(queue) < QueueSize
    /\ RelayMoves(g, "send", "wait")
    /\ queue' = Append(queue, [kind |-> kind, conn |-> Conn(g), gen |-> g])
    /\ UNCHANGED <<client, reader, writer, lock, next, generations, sessions,
                   request, stop, idle>>

RelayBreaksWaiting(g) ==
    /\ relay[g] = "wait"
    /\ relay' = [relay EXCEPT ![g] = "cleanup"]
    /\ UNCHANGED <<client, reader, writer, lock, queue, next, generations,
                   sessions, request, stop, idle>>

(* Replaced or closed; the receiver is gone; the socket failed.            *)
RelayBreaks(g) ==
    /\ \/ g \in stop /\ relay[g] \in {"wait", "send"}
       \/ client # "up" /\ relay[g] = "send"
       \/ relay[g] = "wait"
    /\ relay' = [relay EXCEPT ![g] = "cleanup"]
    /\ UNCHANGED <<client, reader, writer, lock, queue, next, generations,
                   sessions, request, stop, idle>>

(* A packet of another source, after which an idle session expires.        *)
RelayExpiresOnStranger(g) ==
    /\ RelayMoves(g, "wait", "cleanup")
    /\ g \notin stop /\ InMap(g) /\ g \in idle
    /\ sessions' = Dropped(g)
    /\ UNCHANGED <<client, reader, writer, lock, queue, next, generations,
                   request, stop, idle>>

(* A second without packets: an idle session expires, and a relay whose    *)
(* session is no longer in the map ends.                                   *)
RelayTimesOut(g) ==
    /\ RelayMoves(g, "wait", "cleanup")
    /\ g \notin stop
    /\ InMap(g) => g \in idle
    /\ IF InMap(g)
       THEN sessions' = Dropped(g) /\ stop' = stop \cup {g}
       ELSE UNCHANGED <<sessions, stop>>
    /\ UNCHANGED <<client, reader, writer, lock, queue, next, generations,
                   request, idle>>

RelayCleansUpAny(g) ==
    /\ RelayMoves(g, "cleanup", "ended")
    /\ sessions' = Dropped(g)
    /\ stop' = Stopped(Conn(g))
    /\ UNCHANGED <<client, reader, writer, lock, queue, next, generations,
                   request, idle>>

RelayCleansUp(g) ==
    /\ RelayMoves(g, "cleanup", "ended")
    /\ IF InMap(g)
       THEN sessions' = Dropped(g) /\ stop' = stop \cup {g}
       ELSE UNCHANGED <<sessions, stop>>
    /\ UNCHANGED <<client, reader, writer, lock, queue, next, generations,
                   request, idle>>

(* udp_timeout passes without activity on the session.                     *)
GoesIdle(g) ==
    /\ relay[g] = "wait" /\ g \notin idle
    /\ idle' = idle \cup {g}
    /\ UNCHANGED <<client, reader, writer, lock, queue, next, generations,
                   sessions, request, relay, stop>>

-----------------------------------------------------------------------------
(* The client task: run.                                                   *)

(* End of input, inactivity, a failed or timed-out write or a shutdown end *)
(* the select: both halves are dropped wherever they are.                  *)
Disconnect ==
    /\ client = "up"
    /\ client' = "ending"
    /\ reader' = Reading
    /\ writer' = WriterWaits
    /\ lock' = "free"
    /\ queue' = <<>>
    /\ UNCHANGED <<next, generations, sessions, request, relay, stop, idle>>

Drain ==
    /\ client = "ending"
    /\ client' = "gone"
    /\ stop' = stop \cup {sessions[c] : c \in {d \in Conns : sessions[d] # 0}}
    /\ sessions' = [c \in Conns |-> 0]
    /\ UNCHANGED <<reader, writer, lock, queue, next, generations, request,
                   relay, idle>>

-----------------------------------------------------------------------------
ReaderStep ==
    \/ Reuse \/ Resend \/ NoReuse \/ ReplaceGeneration \/ Resolve \/ Create
    \/ FirstSend \/ CloseSession \/ Respond

WriterStep == Receive \/ LockAndCheck \/ Written

RelayStep(g) ==
    \/ RelayReceives(g)
    \/ \E kind \in {"data", "error"} : RelayQueues(g, kind)
    \/ RelayBreaks(g)
    \/ RelayExpiresOnStranger(g)
    \/ RelayTimesOut(g)
    \/ RelayCleansUp(g)

ServerNext ==
    \/ \E c \in Conns, pc \in {"lookup", "replace", "close", "send"},
          addr \in Addrs \cup {NoAddr} : ReadPacket(c, pc, addr)
    \/ ReaderStep
    \/ WriterStep
    \/ \E g \in Gens : RelayStep(g) \/ GoesIdle(g)
    \/ Disconnect
    \/ Drain

ServerSpec == ServerInit /\ [][ServerNext]_serverVars

(* Tasks that can run do run; tokio's mutex and its bounded channel serve  *)
(* their waiters in order, so a waiter that finds them free again and      *)
(* again gets its turn.                                                    *)
Fairness ==
    /\ WF_serverVars(Reuse) /\ WF_serverVars(Resend) /\ WF_serverVars(NoReuse)
    /\ WF_serverVars(Resolve) /\ WF_serverVars(FirstSend)
    /\ SF_serverVars(ReplaceGeneration) /\ SF_serverVars(Create) /\ SF_serverVars(CloseSession)
    /\ SF_serverVars(Respond)
    /\ WF_serverVars(Receive) /\ SF_serverVars(LockAndCheck) /\ WF_serverVars(Written)
    /\ WF_serverVars(Drain)
    /\ \A g \in Gens :
          /\ WF_serverVars(relay[g] = "send" /\ RelayBreaks(g))
          /\ WF_serverVars(g \in stop /\ RelayBreaks(g))
          /\ WF_serverVars(RelayTimesOut(g))
          /\ WF_serverVars(RelayCleansUp(g))

ServerFairSpec == ServerSpec /\ Fairness

-----------------------------------------------------------------------------
(* A reply being written answers the newest request the server has         *)
(* accepted for its connection id: not one that a later request replaced   *)
(* or that the client closed, and nothing while the new destination is     *)
(* still being resolved ("queued responses from the old destination cannot *)
(* be written while resolving").  write_to_client checks the generation    *)
(* and then writes across an await; process_udp replaces it meanwhile.     *)
NoStaleReply ==
    (writer.pc = "write" /\ writer.item.gen # 0) =>
        LET item == writer.item
        IN  /\ \A g \in Gens : request[g].conn = item.conn /\ g < next => g <= item.gen
            /\ generations[item.conn] = item.gen
            /\ item.kind = "data" =>
                  ~ (/\ reader.pc \in {"resolve", "create", "first"}
                     /\ reader.conn = item.conn)

(* The session map holds only the newest generation of each id, and a      *)
(* relay that still accepts replies belongs to the session in the map: no  *)
(* relay is orphaned by a replacement, an idle expiry, a failed send or    *)
(* the disconnection of the client, whichever of them race.  Conversely,   *)
(* while the client is there a working relay is told to stop only after a  *)
(* newer request or a close took its id, never by another relay that ends  *)
(* late.                                                                   *)
SessionsCurrent ==
    /\ \A c \in Conns : sessions[c] # 0 => sessions[c] = generations[c]
    /\ \A g \in Gens :
          relay[g] \in {"wait", "send"} /\ g \notin stop => InMap(g)
    /\ \A g \in stop :
          client = "up" /\ relay[g] \in {"wait", "send"} => generations[Conn(g)] # g

(* A request is always finished: the reader never waits for ever for the   *)
(* delivery lock or for room in the queue that the writer empties under    *)
(* the same lock.                                                          *)
ReaderProgress == (reader.pc # "read") ~> (reader.pc = "read")

(* After the client is gone every relay task ends, even one that was       *)
(* blocked on a full queue, so its socket is released.                     *)
RelaysEnd == \A g \in Gens : (client = "gone") ~> (relay[g] \in {"none", "ended"})
=============================================================================
