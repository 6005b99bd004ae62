---------------------------- MODULE QueryOrigins ----------------------------
(***************************************************************************)
(* Which application asked a DNS question, on Windows                      *)
(* (dns_routing/windows.rs).  All questions reach the tunnel from the      *)
(* shared resolver service; an event trace says who asked it first.  The   *)
(* event reaches the program through buffers, so before a question's       *)
(* origin is looked up a checkpoint is written to the same stream and      *)
(* awaited: everything before it was recorded.  Askers share checkpoints, *)
(* give up after a second while the blocking write and flush go on, and a  *)
(* trace whose first checkpoint does not come back is replaced.            *)
(***************************************************************************)
EXTENDS Naturals, Sequences, SequencesExt, FiniteSets

CONSTANTS
    Lookups,     \* questions applications ask
    Subject,     \* the name and type each is about
    MaxOrigins,  \* MAX_ORIGINS
    MaxTraces,   \* bound: how often a trace is started
    TraceWorlds, \* the questions asked, the traces started and what may go wrong
    Starter,     \* the caller that checks a trace it started
    NoCaller     \* a free flush slot

ASSUME QueryOriginsAssumption ==
    /\ Starter \notin Lookups /\ NoCaller \notin Lookups \cup {Starter}
    /\ MaxOrigins \in Nat \ {0} /\ MaxTraces \in Nat \ {0}
    /\ TraceWorlds \subseteq [questions : SUBSET Lookups, traces : 1 .. MaxTraces,
                             mishaps : SUBSET {"lost", "slow", "fails"}]

Traces == 1 .. MaxTraces

Askers == Lookups \cup {Starter}

VARIABLES
    around,     \* the case considered
    emitted,    \* the questions, in the order they were asked
    traces,     \* each trace: "absent", "live", "gone"
    enabled,    \* the traces that get the resolver's events
    stream,     \* each trace's events that were not delivered yet
    lossy,      \* the traces that report lost events
    missing,    \* history: the questions whose event a trace did not get
    origins,    \* State::queries, the most recent last
    delivered,  \* State::delivered
    sequence,   \* Trace::sequence
    slot,       \* who holds Trace::flush_slot
    jobs,       \* the blocking checkpoints: trace, number, what comes next
    calls,      \* the callers of synchronize
    chosen      \* the trace in the QueryOrigins cell, 0 if none

originVars == <<around, emitted, traces, enabled, stream, lossy, missing, origins, delivered,
                sequence, slot, jobs, calls, chosen>>

Idle == [at |-> "idle", trace |-> 0, observed |-> 0, number |-> 0]

OriginInit ==
    /\ around \in TraceWorlds
    /\ emitted = <<>> /\ enabled = {} /\ lossy = {} /\ jobs = {} /\ chosen = 0
    /\ traces = [t \in Traces |-> "absent"]
    /\ stream = [t \in Traces |-> <<>>]
    /\ missing = [t \in Traces |-> {}]
    /\ origins = [t \in Traces |-> <<>>]
    /\ delivered = [t \in Traces |-> 0]
    /\ sequence = [t \in Traces |-> 0]
    /\ slot = [t \in Traces |-> NoCaller]
    /\ calls = [c \in Askers |-> Idle]

Becomes(c, at) == calls' = [calls EXCEPT ![c] = [Idle EXCEPT !.at = at, !.trace = calls[c].trace]]

(* A call without an origin leaves the decision to the socket's owner.     *)
Failed(c) == IF c = Starter THEN [calls[c] EXCEPT !.at = "failed"] ELSE [Idle EXCEPT !.at = "unattributed"]

Freed(c) == [t \in Traces |-> IF slot[t] = c THEN NoCaller ELSE slot[t]]

Logged(recipients, e) ==
    [t \in Traces |-> IF t \in recipients THEN Append(stream[t], e) ELSE stream[t]]

LiveTraces == {t \in Traces : traces[t] = "live"}

-----------------------------------------------------------------------------
(* An application asks; its event goes to every trace that is enabled.     *)
ApplicationAsks(q) ==
    /\ q \in around.questions \ Range(emitted)
    /\ emitted' = Append(emitted, q)
    /\ stream' = Logged(LiveTraces \cap enabled, [kind |-> "question", of |-> q])
    /\ missing' = [t \in Traces |-> IF t \in LiveTraces \cap enabled THEN missing[t] ELSE missing[t] \cup {q}]
    /\ UNCHANGED <<around, traces, enabled, lossy, origins, delivered, sequence, slot, jobs, calls, chosen>>

(* Buffers run over: an event is gone and the trace says so from then on.  *)
EventLost(t) ==
    /\ "lost" \in around.mishaps /\ t \in LiveTraces \ lossy
    /\ \E i \in 1 .. Len(stream[t]) :
          /\ stream' = [stream EXCEPT ![t] = RemoveAt(@, i)]
          /\ missing' = [missing EXCEPT ![t] =
                IF stream[t][i].kind = "question" THEN @ \cup {stream[t][i].of} ELSE @]
    /\ lossy' = lossy \cup {t}
    /\ UNCHANGED <<around, emitted, traces, enabled, origins, delivered, sequence, slot, jobs, calls, chosen>>

(* A provider callback that outlasted the deadline of EnableTraceEx2.      *)
ProviderEnabled(t) ==
    /\ t \in LiveTraces \ enabled
    /\ enabled' = enabled \cup {t}
    /\ UNCHANGED <<around, emitted, traces, stream, lossy, missing, origins, delivered, sequence, slot, jobs,
                   calls, chosen>>

-----------------------------------------------------------------------------
(* State::record: the most recent caller of a name.  A full table loses    *)
(* what expired, else its oldest entry, also when the name is in it.       *)
Record(entries, q) ==
    LET kept == SelectSeq(entries, LAMBDA e : ~ e.expired)
        room == IF Len(entries) < MaxOrigins THEN entries
                ELSE IF Len(kept) < MaxOrigins THEN kept
                ELSE Tail(kept)
    IN  Append(SelectSeq(room, LAMBDA e : Subject[e.of] # Subject[q]), [of |-> q, expired |-> FALSE])

(* Mutant: a checkpoint of another trace counts as this one's.             *)
AwaitedOfAny(t, e) == e.number

(* The marker a trace waits for has its own id.                            *)
Awaited(t, e) == IF e.of = t THEN e.number ELSE 0

Maximum(m, n) == IF m < n THEN n ELSE m

(* The consumer thread's callback, in the order of the stream.             *)
Event(t) ==
    /\ t \in LiveTraces /\ stream[t] # <<>>
    /\ LET e == Head(stream[t])
       IN  IF e.kind = "question"
           THEN /\ origins' = [origins EXCEPT ![t] = Record(@, e.of)]
                /\ UNCHANGED delivered
           ELSE /\ delivered' = [delivered EXCEPT ![t] = Maximum(@, Awaited(t, e))]
                /\ UNCHANGED origins
    /\ stream' = [stream EXCEPT ![t] = Tail(@)]
    /\ UNCHANGED <<around, emitted, traces, enabled, lossy, missing, sequence, slot, jobs, calls, chosen>>

-----------------------------------------------------------------------------
(* synchronize: the sequence number is read before the slot is awaited.    *)
(* Without a trace, nobody is known to have asked.                         *)
Bypass(q) ==
    /\ q \in Range(emitted) /\ calls[q].at = "idle"
    /\ calls' = [calls EXCEPT ![q] =
          IF chosen = 0 THEN [@ EXCEPT !.at = "unattributed"]
          ELSE [@ EXCEPT !.at = "lock", !.trace = chosen, !.observed = sequence[chosen]]]
    /\ UNCHANGED <<around, emitted, traces, enabled, stream, lossy, missing, origins, delivered, sequence,
                   slot, jobs, chosen>>

(* A checkpoint issued after the call began fences it too.                 *)
Shares(c) == delivered[calls[c].trace] > calls[c].observed

TakeSlot(c) ==
    LET t == calls[c].trace
    IN  /\ calls[c].at = "lock" /\ slot[t] = NoCaller
        /\ IF Shares(c)
           THEN Becomes(c, "fenced") /\ UNCHANGED <<sequence, slot, jobs>>
           ELSE /\ sequence' = [sequence EXCEPT ![t] = @ + 1]
                /\ slot' = [slot EXCEPT ![t] = c]
                /\ calls' = [calls EXCEPT ![c] = [@ EXCEPT !.at = "checkpoint", !.observed = 0,
                                                         !.number = sequence[t] + 1]]
                /\ jobs' = jobs \cup {[trace |-> t, number |-> sequence[t] + 1, next |-> "write"]}
        /\ UNCHANGED <<around, emitted, traces, enabled, stream, lossy, missing, origins, delivered, chosen>>

(* The blocking task has ended; its caller may have given up before.       *)
Joins(j, ok) ==
    LET waiting == {c \in Askers : /\ calls[c].at = "checkpoint" /\ calls[c].trace = j.trace
                                    /\ calls[c].number = j.number}
    IN  /\ calls' = [c \in Askers |-> IF c \notin waiting THEN calls[c]
                                       ELSE IF ok THEN [calls[c] EXCEPT !.at = "wait"]
                                       ELSE Failed(c)]
        /\ slot' = [t \in Traces |-> IF slot[t] \in waiting /\ ~ ok THEN NoCaller ELSE slot[t]]

(* checkpoint: the marker goes to every live trace, for all of them enable *)
(* the same provider; flushing reports whether events were lost.           *)
WriteMarker(j) ==
    /\ j \in jobs /\ j.next = "write"
    /\ jobs' = (jobs \ {j}) \cup {[j EXCEPT !.next = "flush"]}
    /\ stream' = Logged(LiveTraces, [kind |-> "marker", of |-> j.trace, number |-> j.number])
    /\ UNCHANGED <<around, emitted, traces, enabled, lossy, missing, origins, delivered, sequence, slot,
                   calls, chosen>>

Flush(j) ==
    /\ j \in jobs /\ j.next = "flush"
    /\ jobs' = jobs \ {j}
    /\ Joins(j, j.trace \notin lossy)
    /\ UNCHANGED <<around, emitted, traces, enabled, stream, lossy, missing, origins, delivered, sequence, chosen>>

(* EventWrite or ControlTraceW fails.                                      *)
CheckpointFails(j) ==
    /\ "fails" \in around.mishaps /\ j \in jobs
    /\ jobs' = jobs \ {j}
    /\ Joins(j, FALSE)
    /\ UNCHANGED <<around, emitted, traces, enabled, stream, lossy, missing, origins, delivered, sequence, chosen>>

SeesDelivery(c) ==
    /\ calls[c].at = "wait" /\ delivered[calls[c].trace] >= calls[c].number
    /\ Becomes(c, "fenced") /\ slot' = Freed(c)
    /\ UNCHANGED <<around, emitted, traces, enabled, stream, lossy, missing, origins, delivered, sequence,
                   jobs, chosen>>

(* The timeout of a second around synchronize drops the call: the slot is  *)
(* free again, the blocking task is not stopped.                           *)
GivesUp(c) ==
    /\ calls[c].at \in {"lock", "checkpoint", "wait"}
    /\ calls' = [calls EXCEPT ![c] = Failed(c)] /\ slot' = Freed(c)
    /\ UNCHANGED <<around, emitted, traces, enabled, stream, lossy, missing, origins, delivered, sequence,
                   jobs, chosen>>

(* State::pid, after the fence.                                            *)
LookUp(q) ==
    /\ calls[q].at = "fenced"
    /\ LET known == \E e \in Range(origins[calls[q].trace]) : Subject[e.of] = Subject[q] /\ ~ e.expired
       IN  calls' = [calls EXCEPT ![q] = [Idle EXCEPT !.at = IF known THEN "attributed" ELSE "unattributed"]]
    /\ UNCHANGED <<around, emitted, traces, enabled, stream, lossy, missing, origins, delivered, sequence,
                   slot, jobs, chosen>>

Emitted(q) == CHOOSE i \in 1 .. Len(emitted) : emitted[i] = q

Over(q) == calls[q].at \in {"attributed", "unattributed"}

(* ORIGIN_TTL, half a minute, is far longer than a call may take: an entry *)
(* expires only once the calls for it and for what came before are over.   *)
OriginExpires(t) ==
    /\ \E i \in 1 .. Len(origins[t]) :
          /\ ~ origins[t][i].expired
          /\ \A k \in 1 .. Emitted(origins[t][i].of) : Over(emitted[k])
          /\ \A k \in 1 .. i - 1 : origins[t][k].expired
          /\ origins' = [origins EXCEPT ![t][i].expired = TRUE]
    /\ UNCHANGED <<around, emitted, traces, enabled, stream, lossy, missing, delivered, sequence, slot, jobs,
                   calls, chosen>>

-----------------------------------------------------------------------------
(* start_trace, at once and then every START_RETRY_INTERVAL: a trace that  *)
(* starts is checked by one synchronize before it is published.            *)
StartTrace(t) ==
    /\ chosen = 0 /\ calls[Starter].at \in {"idle", "failed"}
    /\ t <= around.traces /\ traces[t] = "absent" /\ \A u \in 1 .. t - 1 : traces[u] # "absent"
    /\ \/ /\ traces' = [traces EXCEPT ![t] = "live"]
          /\ calls' = [calls EXCEPT ![Starter] = [Idle EXCEPT !.at = "lock", !.trace = t]]
          /\ enabled' \in {enabled \cup {t}} \cup (IF "slow" \in around.mishaps THEN {enabled} ELSE {})
       \/ /\ "fails" \in around.mishaps
          /\ traces' = [traces EXCEPT ![t] = "gone"]
          /\ UNCHANGED <<calls, enabled>>
    /\ UNCHANGED <<around, emitted, stream, lossy, missing, origins, delivered, sequence, slot, jobs, chosen>>

PublishTrace ==
    /\ calls[Starter].at = "fenced"
    /\ chosen' = calls[Starter].trace
    /\ Becomes(Starter, "done")
    /\ UNCHANGED <<around, emitted, traces, enabled, stream, lossy, missing, origins, delivered, sequence,
                   slot, jobs>>

(* The last reference goes: the failed starter's, or that of a checkpoint  *)
(* still running for it.                                                   *)
DropTrace(t) ==
    /\ t \in LiveTraces /\ chosen # t /\ \A j \in jobs : j.trace # t
    /\ calls[Starter].trace = t => calls[Starter].at = "failed"
    /\ traces' = [traces EXCEPT ![t] = "gone"]
    /\ stream' = [stream EXCEPT ![t] = <<>>]
    /\ origins' = [origins EXCEPT ![t] = <<>>]
    /\ delivered' = [delivered EXCEPT ![t] = 0]
    /\ UNCHANGED <<around, emitted, enabled, lossy, missing, sequence, slot, jobs, calls, chosen>>

-----------------------------------------------------------------------------
OriginNext ==
    \/ \E q \in Lookups : ApplicationAsks(q) \/ Bypass(q) \/ LookUp(q)
    \/ \E t \in Traces :
          \/ EventLost(t) \/ ProviderEnabled(t) \/ Event(t) \/ OriginExpires(t)
          \/ StartTrace(t) \/ DropTrace(t)
    \/ \E c \in Askers : TakeSlot(c) \/ SeesDelivery(c) \/ GivesUp(c)
    \/ \E j \in jobs : WriteMarker(j) \/ Flush(j) \/ CheckpointFails(j)
    \/ PublishTrace

OriginSpec == OriginInit /\ [][OriginNext]_originVars

-----------------------------------------------------------------------------
(* When synchronize succeeds for a question, the event of the application  *)
(* that asked it, or of one that asked the same later, has been recorded;  *)
(* or so many newer ones were that the table is full of them.  So an older *)
(* caller's rule is not applied to the question, whichever checkpoint      *)
(* fenced it and whatever checkpoints of abandoned calls and abandoned     *)
(* traces are still being delivered.  A trace that did not get the event   *)
(* cannot know.                                                            *)
Fence ==
    \A q \in Lookups :
        LET t == calls[q].trace
        IN  calls[q].at = "fenced" /\ q \notin missing[t] =>
              \/ \E e \in Range(origins[t]) :
                    Subject[e.of] = Subject[q] /\ Emitted(e.of) >= Emitted(q) /\ ~ e.expired
              \/ /\ Len(origins[t]) = MaxOrigins
                 /\ \A e \in Range(origins[t]) : Emitted(e.of) > Emitted(q)
=============================================================================
