------------------------------ MODULE Sessions ------------------------------
(***************************************************************************)
(* The forwarding loop of src/lib.rs (run_with_preselected_egress): how    *)
(* captured flows are admitted, counted, run as tasks of one JoinSet, and  *)
(* stopped.                                                                *)
(*                                                                         *)
(* The loop runs on one task.  Sessions run on other worker threads, so    *)
(* the two relaxed counter updates of try_acquire and the two of           *)
(* SessionPermit::drop interleave with everything else.                    *)
(***************************************************************************)
EXTENDS Naturals, FiniteSets

CONSTANTS
    Sessions,       \* flows; an identifier is reused once its task is reaped
    Background,     \* heartbeat, pool maintenance, reporter: tasks without permit
    MaxSessions,    \* args.max_sessions
    ExitOnFatal,    \* args.exit_on_fatal_error
    NoSession

Protocols == {"tcp", "udp"}
Tasks == Sessions \cup Background

ASSUME SessionsAssumption ==
    /\ IsFiniteSet(Sessions)
    /\ IsFiniteSet(Background)
    /\ Sessions \cap Background = {}
    /\ MaxSessions \in Nat
    /\ ExitOnFatal \in BOOLEAN
    /\ NoSession \notin Sessions

VARIABLES
    token,      \* shutdown_token is cancelled
    loop,       \* where the accept loop is
    accepted,   \* the flow the accept loop is admitting, or NoSession
    task,       \* state of each task
    protocol,   \* protocol of each flow
    total,      \* SessionCounts.total
    count,      \* SessionCounts.tcp and .udp
    aborted,    \* abort_all was called
    result,     \* forwarding_result
    active      \* active_sessions, what the run returns

counters == <<total, count>>
vars == <<token, loop, accepted, task, protocol, total, count, aborted, result,
          active>>

(***************************************************************************)
(* A task is "idle" (no flow), "admitted" (total taken, protocol count and *)
(* spawn to come), "running", "releasing" (its permit gave the protocol    *)
(* count back), "finished" (its output is kept by the JoinSet).            *)
(***************************************************************************)
TaskStates == {"idle", "admitted", "running", "releasing", "finished"}

\* What managed_tasks holds.
Managed == {t \in Tasks : task[t] \in {"running", "releasing", "finished"}}
Finished == {t \in Tasks : task[t] = "finished"}

Init ==
    /\ token = FALSE
    /\ loop = "reap"
    /\ accepted = NoSession
    /\ task = [t \in Tasks |-> IF t \in Background THEN "running" ELSE "idle"]
    /\ protocol \in [Sessions -> {"tcp"}]
    /\ total = 0
    /\ count = [p \in Protocols |-> 0]
    /\ aborted = FALSE
    /\ result = "none"
    /\ active = 0

-----------------------------------------------------------------------------
(* The accept loop.                                                        *)

\* try_join_next, until nothing is finished.
ReapOne(t) ==
    /\ loop = "reap"
    /\ task[t] = "finished"
    /\ task' = [task EXCEPT ![t] = "idle"]
    /\ UNCHANGED <<token, loop, accepted, protocol, counters, aborted, result, active>>

ReapDone ==
    /\ loop = "reap"
    /\ Finished = {}
    /\ loop' = "select"
    /\ UNCHANGED <<token, accepted, task, protocol, counters, aborted, result, active>>

Break(outcome) ==
    /\ loop' = "broken"
    /\ result' = outcome

\* Mutant of SelectShutdown: the loop waits for its sessions to leave.
SelectShutdownGraceful ==
    /\ loop = "select"
    /\ token
    /\ total = 0
    /\ Break("ok")
    /\ UNCHANGED <<token, accepted, task, protocol, counters, aborted, active>>

SelectShutdown ==
    /\ loop = "select"
    /\ token
    /\ Break("ok")
    /\ UNCHANGED <<token, accepted, task, protocol, counters, aborted, active>>

\* ip_stack.accept() fails: the device is gone.
SelectError ==
    /\ loop = "select"
    /\ Break("err")
    /\ UNCHANGED <<token, accepted, task, protocol, counters, aborted, active>>

\* A TCP or UDP flow; the branches of other transports only "continue".
SelectStream(s, p) ==
    /\ loop = "select"
    /\ task[s] = "idle"
    /\ accepted' = s
    /\ protocol' = [protocol EXCEPT ![s] = p]
    /\ loop' = "admit"
    /\ UNCHANGED <<token, task, counters, aborted, result, active>>

SelectOther ==
    /\ loop = "select"
    /\ loop' = "reap"
    /\ UNCHANGED <<token, accepted, task, protocol, counters, aborted, result, active>>

\* Mutant of TryAcquire: one session too many.
TryAcquireOffByOne ==
    /\ loop = "admit"
    /\ total <= MaxSessions
    /\ total' = total + 1
    /\ task' = [task EXCEPT ![accepted] = "admitted"]
    /\ loop' = "count"
    /\ UNCHANGED <<token, accepted, protocol, count, aborted, result, active>>

\* try_acquire: total.try_update.
TryAcquire ==
    /\ loop = "admit"
    /\ total < MaxSessions
    /\ total' = total + 1
    /\ task' = [task EXCEPT ![accepted] = "admitted"]
    /\ loop' = "count"
    /\ UNCHANGED <<token, accepted, protocol, count, aborted, result, active>>

\* The limit is reached: the flow is dropped, or the run ends.
Refuse ==
    /\ loop = "admit"
    /\ total >= MaxSessions
    /\ IF ExitOnFatal THEN Break("ok") ELSE loop' = "reap" /\ UNCHANGED result
    /\ accepted' = NoSession
    /\ UNCHANGED <<token, task, protocol, counters, aborted, active>>

\* try_acquire: protocol_count().fetch_add, then the task is spawned.
Spawn ==
    /\ loop = "count"
    /\ count' = [count EXCEPT ![protocol[accepted]] = @ + 1]
    /\ task' = [task EXCEPT ![accepted] = "running"]
    /\ accepted' = NoSession
    /\ loop' = "reap"
    /\ UNCHANGED <<token, protocol, total, aborted, result, active>>

-----------------------------------------------------------------------------
(* Shutdown.                                                               *)

\* Somebody cancels the token.
Cancel ==
    /\ ~token
    /\ token' = TRUE
    /\ UNCHANGED <<loop, accepted, task, protocol, counters, aborted, result, active>>

\* Mutant of AbortAll: the tasks are aborted and not awaited.
AbortAllWithoutJoin ==
    /\ loop = "broken"
    /\ active' = total
    /\ loop' = "done"
    /\ aborted' = TRUE
    /\ UNCHANGED <<token, accepted, task, protocol, counters, result>>

\* active_sessions is read, then every remaining task is aborted.
AbortAll ==
    /\ loop = "broken"
    /\ active' = total
    /\ IF Managed = {} THEN loop' = "done" /\ UNCHANGED aborted
                       ELSE loop' = "join" /\ aborted' = TRUE
    /\ UNCHANGED <<token, accepted, task, protocol, counters, result>>

\* join_next
JoinOne(t) ==
    /\ loop = "join"
    /\ task[t] = "finished"
    /\ task' = [task EXCEPT ![t] = "idle"]
    /\ UNCHANGED <<token, loop, accepted, protocol, counters, aborted, result, active>>

JoinDone ==
    /\ loop = "join"
    /\ Managed = {}
    /\ loop' = "done"
    /\ UNCHANGED <<token, accepted, task, protocol, counters, aborted, result, active>>

-----------------------------------------------------------------------------
(* The tasks.                                                              *)

\* SessionPermit::drop, first half.
DropPermit(s) ==
    /\ task[s] = "running"
    /\ count' = [count EXCEPT ![protocol[s]] = @ - 1]
    /\ task' = [task EXCEPT ![s] = "releasing"]
    /\ UNCHANGED <<token, loop, accepted, protocol, total, aborted, result, active>>

\* The session returns by itself.
SessionEnds(s) == ~aborted /\ DropPermit(s)

\* The session is cancelled at its next await and its locals are dropped.
SessionCancelled(s) == aborted /\ DropPermit(s)

\* SessionPermit::drop, second half; then the task is finished.
SessionReleased(s) ==
    /\ task[s] = "releasing"
    /\ total' = total - 1
    /\ task' = [task EXCEPT ![s] = "finished"]
    /\ UNCHANGED <<token, loop, accepted, protocol, count, aborted, result, active>>

\* A background task sees the token, fails, or is cancelled.
BackgroundEnds(b) ==
    /\ task[b] = "running"
    /\ task' = [task EXCEPT ![b] = "finished"]
    /\ UNCHANGED <<token, loop, accepted, protocol, counters, aborted, result, active>>

\* The run returned.
Done == loop = "done" /\ UNCHANGED vars

LoopStep ==
    \/ \E t \in Tasks : ReapOne(t) \/ JoinOne(t)
    \/ ReapDone \/ SelectShutdown \/ TryAcquire \/ Refuse \/ Spawn
    \/ AbortAll \/ JoinDone

SessionStep(s) == SessionCancelled(s) \/ SessionReleased(s)

Next ==
    \/ LoopStep
    \/ SelectError \/ SelectOther
    \/ \E s \in Sessions, p \in Protocols : SelectStream(s, p)
    \/ Cancel
    \/ \E s \in Sessions : SessionEnds(s) \/ SessionStep(s)
    \/ \E b \in Background : BackgroundEnds(b)
    \/ Done

Spec == Init /\ [][Next]_vars

(***************************************************************************)
(* The runtime polls a task that is ready, and a cancelled task at its     *)
(* next await; a session that is not cancelled may run forever.  select!   *)
(* polls its branches in random order, so a cancelled token that stays     *)
(* cancelled is eventually chosen even if flows keep coming.               *)
(***************************************************************************)
Fairness ==
    /\ WF_vars(LoopStep)
    /\ SF_vars(SelectShutdown)
    /\ \A s \in Sessions : WF_vars(SessionStep(s))
    /\ \A b \in Background : WF_vars((token \/ aborted) /\ BackgroundEnds(b))

FairSpec == Spec /\ Fairness

-----------------------------------------------------------------------------
(* Properties.                                                             *)

TypeOK ==
    /\ token \in BOOLEAN
    /\ loop \in {"reap", "select", "admit", "count", "broken", "join", "done"}
    /\ accepted \in Sessions \cup {NoSession}
    /\ task \in [Tasks -> TaskStates]
    /\ protocol \in [Sessions -> Protocols]
    /\ total \in Nat
    /\ count \in [Protocols -> Nat]
    /\ aborted \in BOOLEAN
    /\ result \in {"none", "ok", "err"}
    /\ active \in Nat

\* A permit is counted in total from try_update to the second half of its drop,
\* and in its protocol's count strictly inside that interval.
Holders == {s \in Sessions : task[s] \in {"admitted", "running", "releasing"}}
CountedAs(p) == {s \in Sessions : task[s] = "running" /\ protocol[s] = p}

\* In every interleaving of admissions, drops and cancellations the counters are
\* exactly the permits that exist and max_sessions is never exceeded; in
\* particular no fetch_sub wraps below zero (SessionCounts, SessionPermit).
CountersExact ==
    /\ total = Cardinality(Holders)
    /\ \A p \in Protocols : count[p] = Cardinality(CountedAs(p))
    /\ total <= MaxSessions

\* When the run returns, and network teardown follows, no task of it is left and
\* every permit was given back ("await their cancellation before route and DNS
\* teardown begins").
NothingSurvives ==
    loop = "done" => Managed = {} /\ total = 0 /\ \A p \in Protocols : count[p] = 0

\* Once the token is cancelled the run returns, whatever its sessions wait for.
ShutdownEnds == token ~> loop = "done"
=============================================================================
