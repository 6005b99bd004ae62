---------------------------- MODULE UdpGwClient ----------------------------
(***************************************************************************)
(* The client side of the UDP gateway: flows take a TCP connection to the  *)
(* gateway server from a pool or open one, exchange frames over it under a *)
(* fresh serial number, and give it back; the heartbeat empties the pool,  *)
(* probes the connections that were idle and gives those back.             *)
(*                                                                         *)
(* A connection is two byte streams.  The one from the server is modelled  *)
(* by pieces, two to a frame, so that a read may end inside a frame.  The  *)
(* server is external here: it handles frames in order, replies for the    *)
(* ids that are open, and answers a keepalive once.                        *)
(***************************************************************************)
EXTENDS Naturals, Sequences, Functions

CONSTANTS
    Flows,        \* UDP flows of the TUN
    Streams,      \* TCP connections that may be opened
    NoFlow, NoStream,
    SerialSpace,  \* number of serial numbers (2^16 in the code)
    MaxPool,      \* max_connections
    MaxFrames     \* bound on the frames under way in each direction

ASSUME UdpGwClientAssumption ==
    /\ NoFlow \notin Flows /\ NoStream \notin Streams
    /\ SerialSpace \in Nat \ {0}
    /\ MaxPool \in Nat /\ MaxFrames \in Nat

VARIABLES
    pool,     \* server_connections
    serial,   \* SERIAL_NUMBER
    number,   \* the serial number of each connection
    flow,     \* each flow's progress, connection and unread pieces
    beat,     \* the heartbeat's progress, its connections and the one it probes
    free,     \* connections not opened yet
    up,       \* frames to the server, per connection
    down,     \* pieces from the server, per connection
    open,     \* per connection the ids open at the server, with their flow
    fault     \* history: what a reader met that it should not

vars == <<pool, serial, number, flow, beat, free, up, down, open, fault>>

Serials == 0 .. SerialSpace - 1

Kinds == {"data", "error", "keepalive", "close"}

(* Every frame remembers, as history, the flow it is about.                *)
Frame == [kind : Kinds, id : Serials, flow : Flows \cup {NoFlow}]

Piece == [part : {"head", "tail"}, frame : Frame]

Pieces(frame) == <<[part |-> "head", frame |-> frame], [part |-> "tail", frame |-> frame]>>

Whole(pieces) == Len(pieces) >= 2

Waiting == [pc |-> "start", stream |-> NoStream, acc |-> <<>>]

Ended == [pc |-> "ended", stream |-> NoStream, acc |-> <<>>]

Asleep == [pc |-> "sleep", streams |-> <<>>, stream |-> NoStream]

Init ==
    /\ pool = <<>>
    /\ serial = 1 % SerialSpace
    /\ number = [s \in Streams |-> 0]
    /\ flow = [f \in Flows |-> Waiting]
    /\ beat = Asleep
    /\ free = Streams
    /\ up = [s \in Streams |-> <<>>]
    /\ down = [s \in Streams |-> <<>>]
    /\ open = [s \in Streams |-> {}]
    /\ fault = "none"

-----------------------------------------------------------------------------
(* The pool.                                                               *)

(* A fresh serial number, which wraps at the end of its range.             *)
Rotate(s) ==
    /\ number' = [number EXCEPT ![s] = serial]
    /\ serial' = (serial + 1) % SerialSpace

(* A connection that does not fit in the pool is dropped.                  *)
Stored(s) == IF Len(pool) < MaxPool THEN Append(pool, s) ELSE pool

Send(s, kind, f) ==
    up' = [up EXCEPT ![s] = Append(@, [kind |-> kind, id |-> number[s], flow |-> f])]

-----------------------------------------------------------------------------
(* A flow: handle_udp_gateway_session.                                     *)

Relay(f, s) == flow' = [flow EXCEPT ![f] = [pc |-> "relay", stream |-> s, acc |-> <<>>]]

Pop(f) ==
    /\ flow[f].pc = "start" /\ pool # <<>>
    /\ pool' = Tail(pool)
    /\ Rotate(Head(pool))
    /\ Relay(f, Head(pool))
    /\ UNCHANGED <<beat, free, up, down, open, fault>>

(* Nothing pooled: the flow opens a connection and negotiates it, or fails.*)
Connect(f) ==
    /\ flow[f].pc = "start" /\ pool = <<>>
    /\ flow' = [flow EXCEPT ![f].pc = "connect"]
    /\ UNCHANGED <<pool, serial, number, beat, free, up, down, open, fault>>

Connected(f) ==
    /\ flow[f].pc = "connect"
    /\ \/ \E s \in free : free' = free \ {s} /\ Rotate(s) /\ Relay(f, s)
       \/ flow' = [flow EXCEPT ![f] = Ended] /\ UNCHANGED <<free, number, serial>>
    /\ UNCHANGED <<pool, beat, up, down, open, fault>>

SendDatagram(f) ==
    /\ flow[f].pc = "relay"
    /\ Len(up[flow[f].stream]) < MaxFrames
    /\ Send(flow[f].stream, "data", f)
    /\ UNCHANGED <<pool, serial, number, flow, beat, free, down, open, fault>>

(* One read takes any part of what has arrived into the flow's buffer.     *)
ReadChunk(f) ==
    LET s == flow[f].stream
    IN  /\ flow[f].pc = "relay" /\ ~ Whole(flow[f].acc)
        /\ \E n \in 1 .. Len(down[s]) :
              /\ flow' = [flow EXCEPT ![f].acc = @ \o SubSeq(down[s], 1, n)]
              /\ down' = [down EXCEPT ![s] = SubSeq(@, n + 1, Len(@))]
        /\ UNCHANGED <<pool, serial, number, beat, free, up, open, fault>>

IsOursUnchecked(f, frame) == TRUE

IsOurs(f, frame) == frame.id = number[flow[f].stream]

(* What a frame read at the head of pieces is wrong about, for flow f.     *)
Misread(f, pieces) ==
    LET frame == Head(pieces).frame
    IN  CASE Head(pieces).part = "tail" -> "desynchronized"
          [] frame.kind = "keepalive" /\ f # NoFlow -> "keepalive"
          [] frame.kind = "data" /\ f # NoFlow /\ IsOurs(f, frame) /\ frame.flow # f -> "foreign"
          [] OTHER -> fault

(* A frame out of the buffer: a reply of this serial number goes to the    *)
(* application; an error or a late reply is skipped; a keepalive or a      *)
(* close ends the flow and its connection.                                 *)
HandleFrame(f) ==
    LET frame == Head(flow[f].acc).frame
    IN  /\ flow[f].pc = "relay" /\ Whole(flow[f].acc)
        /\ fault' = Misread(f, flow[f].acc)
        /\ flow' = IF frame.kind \in {"keepalive", "close"}
                   THEN [flow EXCEPT ![f] = Ended]
                   ELSE [flow EXCEPT ![f].acc = SubSeq(@, 3, Len(@))]
        /\ UNCHANGED <<pool, serial, number, beat, free, up, down, open>>

(* The application's side ended, or took no more data: the connection is   *)
(* reusable when nothing of an unread frame is left in the buffer.         *)
LocalEnd(f) ==
    /\ flow[f].pc = "relay"
    /\ flow' = [flow EXCEPT ![f] = IF @.acc = <<>> THEN [@ EXCEPT !.pc = "close"] ELSE Ended]
    /\ UNCHANGED <<pool, serial, number, beat, free, up, down, open, fault>>

(* A failed send, or a receive that failed or timed out.                   *)
RemoteEnd(f) ==
    /\ flow[f].pc = "relay"
    /\ flow' = [flow EXCEPT ![f] = Ended]
    /\ UNCHANGED <<pool, serial, number, beat, free, up, down, open, fault>>

SendCloseStoringFirst(f) ==
    /\ flow[f].pc = "close"
    /\ Len(up[flow[f].stream]) < MaxFrames
    /\ Send(flow[f].stream, "close", f)
    /\ pool' = Stored(flow[f].stream)
    /\ flow' = [flow EXCEPT ![f].pc = "store"]
    /\ UNCHANGED <<serial, number, beat, free, down, open, fault>>

SendClose(f) ==
    /\ flow[f].pc = "close"
    /\ Len(up[flow[f].stream]) < MaxFrames
    /\ Send(flow[f].stream, "close", f)
    /\ flow' = [flow EXCEPT ![f].pc = "store"]
    /\ UNCHANGED <<pool, serial, number, beat, free, down, open, fault>>

CloseFails(f) ==
    /\ flow[f].pc = "close"
    /\ flow' = [flow EXCEPT ![f] = Ended]
    /\ UNCHANGED <<pool, serial, number, beat, free, up, down, open, fault>>

Store(f) ==
    /\ flow[f].pc = "store"
    /\ pool' = Stored(flow[f].stream)
    /\ flow' = [flow EXCEPT ![f] = Ended]
    /\ UNCHANGED <<serial, number, beat, free, up, down, open, fault>>

-----------------------------------------------------------------------------
(* The heartbeat: heartbeat_task.                                          *)

(* It takes the connections out of the pool one at a time.                 *)
BeatPops ==
    /\ beat.pc \in {"sleep", "collect"}
    /\ IF pool = <<>>
       THEN beat' = [beat EXCEPT !.pc = "next"] /\ UNCHANGED pool
       ELSE /\ pool' = Tail(pool)
            /\ beat' = [beat EXCEPT !.pc = "collect", !.streams = Append(@, Head(pool))]
    /\ UNCHANGED <<serial, number, flow, free, up, down, open, fault>>

BeatRests ==
    /\ beat.pc = "next" /\ beat.streams = <<>>
    /\ beat' = Asleep
    /\ UNCHANGED <<pool, serial, number, flow, free, up, down, open, fault>>

(* A recently used connection goes straight back.                          *)
BeatSkips ==
    /\ beat.pc = "next" /\ beat.streams # <<>>
    /\ pool' = Stored(Head(beat.streams))
    /\ beat' = [beat EXCEPT !.streams = Tail(@)]
    /\ UNCHANGED <<serial, number, flow, free, up, down, open, fault>>

BeatProbes ==
    /\ beat.pc = "next" /\ beat.streams # <<>>
    /\ Len(up[Head(beat.streams)]) < MaxFrames
    /\ Send(Head(beat.streams), "keepalive", NoFlow)
    /\ beat' = [pc |-> "wait", streams |-> Tail(beat.streams), stream |-> Head(beat.streams)]
    /\ UNCHANGED <<pool, serial, number, flow, free, down, open, fault>>

(* A keepalive that cannot be written drops the connection; an address     *)
(* that cannot be read ends the task and drops them all.                   *)
BeatWriteFails ==
    /\ beat.pc = "next" /\ beat.streams # <<>>
    /\ \/ beat' = [beat EXCEPT !.streams = Tail(@)]
       \/ beat' = [Asleep EXCEPT !.pc = "dead"]
    /\ UNCHANGED <<pool, serial, number, flow, free, up, down, open, fault>>

(* Late replies and errors are skipped until the keepalive comes back.     *)
BeatReceives ==
    LET s == beat.stream
        frame == Head(down[s]).frame
    IN  /\ beat.pc = "wait" /\ Whole(down[s])
        /\ fault' = Misread(NoFlow, down[s])
        /\ down' = [down EXCEPT ![s] = SubSeq(@, 3, Len(@))]
        /\ CASE frame.kind = "keepalive" ->
                    /\ pool' = Stored(s)
                    /\ beat' = [beat EXCEPT !.pc = "next", !.stream = NoStream]
             [] frame.kind = "close" ->
                    beat' = [beat EXCEPT !.pc = "next", !.stream = NoStream] /\ UNCHANGED pool
             [] OTHER -> UNCHANGED <<beat, pool>>
        /\ UNCHANGED <<serial, number, flow, free, up, open>>

BeatGivesUp ==
    /\ beat.pc = "wait"
    /\ beat' = [beat EXCEPT !.pc = "next", !.stream = NoStream]
    /\ UNCHANGED <<pool, serial, number, flow, free, up, down, open, fault>>

-----------------------------------------------------------------------------
(* The gateway server, as far as a client sees it.                         *)

ServerReads(s) ==
    /\ up[s] # <<>>
    /\ LET frame == Head(up[s])
       IN  CASE frame.kind = "data" ->
                   /\ open' = [open EXCEPT ![s] =
                         {o \in @ : o.id # frame.id} \cup {[id |-> frame.id, flow |-> frame.flow]}]
                   /\ UNCHANGED down
             [] frame.kind = "close" ->
                   /\ open' = [open EXCEPT ![s] = {o \in @ : o.id # frame.id}]
                   /\ UNCHANGED down
             [] OTHER ->
                   /\ Len(down[s]) < 2 * MaxFrames
                   /\ down' = [down EXCEPT ![s] = @ \o Pieces(frame)]
                   /\ UNCHANGED open
    /\ up' = [up EXCEPT ![s] = Tail(@)]
    /\ UNCHANGED <<pool, serial, number, flow, beat, free, fault>>

ServerReplies(s, kind) ==
    /\ Len(down[s]) < 2 * MaxFrames - 1
    /\ \E o \in open[s] :
          down' = [down EXCEPT ![s] = @ \o Pieces([kind |-> kind, id |-> o.id, flow |-> o.flow])]
    /\ UNCHANGED <<pool, serial, number, flow, beat, free, up, open, fault>>

-----------------------------------------------------------------------------
FlowStep(f) ==
    \/ Pop(f) \/ Connect(f) \/ Connected(f) \/ SendDatagram(f) \/ ReadChunk(f)
    \/ HandleFrame(f) \/ LocalEnd(f) \/ RemoteEnd(f) \/ SendClose(f)
    \/ CloseFails(f) \/ Store(f)

BeatStep ==
    \/ BeatPops \/ BeatRests \/ BeatSkips \/ BeatProbes \/ BeatWriteFails
    \/ BeatReceives \/ BeatGivesUp

Next ==
    \/ \E f \in Flows : FlowStep(f)
    \/ BeatStep
    \/ \E s \in Streams : ServerReads(s) \/ \E kind \in {"data", "error"} : ServerReplies(s, kind)

Spec == Init /\ [][Next]_vars

-----------------------------------------------------------------------------
(* A reader never starts inside a frame: a connection goes back to the     *)
(* pool only at a frame boundary, although a flow's read may be cancelled  *)
(* at any byte ("the next reader would start mid-stream").  And a flow     *)
(* hands its application only replies to its own datagrams, never the late *)
(* ones to the flow that used the connection before it, which are still on *)
(* the way when the connection is reused; nor does it meet the answer to a *)
(* heartbeat probe ("should not received keepalive"): a probed connection  *)
(* returns to the pool only after its answer was read.                     *)
OwnReplies == fault = "none"

(* A connection has one user at a time: it is in the pool once, with the   *)
(* heartbeat, with one flow, or not opened.  The pool keeps to its limit.  *)
OneUser ==
    /\ Len(pool) <= MaxPool
    /\ IsInjective(pool \o beat.streams)
    /\ \A s \in Streams :
          LET users == {f \in Flows : flow[f].stream = s}
              shared == s \in Range(pool \o beat.streams) \cup {beat.stream} \cup free
          IN  /\ \A f, g \in users : f = g
              /\ ~ (shared /\ users # {})
              /\ s \in free \cup {beat.stream} => s \notin Range(pool \o beat.streams)
              /\ ~ (s \in free /\ s = beat.stream)
=============================================================================
