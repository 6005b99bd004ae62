--------------------------- MODULE ProcessPolicy ----------------------------
(***************************************************************************)
(* Process bypass: src/process_bypass.rs (the list of names an embedder    *)
(* may replace at any time), src/process/mod.rs (who owns a captured flow, *)
(* looked up in the OS socket table behind a shared cache, and the policy  *)
(* pinned to the flow) and run_until_process_policy_change of src/lib.rs.  *)
(*                                                                         *)
(* An application stands for its identity chain; a flow has the local port *)
(* of the socket it came from.  The socket table belongs to the operating  *)
(* system: ports are closed and bound again at any time.                   *)
(***************************************************************************)
EXTENDS Naturals, FiniteSets

CONSTANTS
    Flows,          \* captured flows; reused once the relay has ended
    Apps,
    Ports,
    NoApp,          \* nobody owns the port, or the owner is not known
    NoFlow,
    InitialNames,   \* the bypass list when the run starts
    TableFails,     \* may reading the OS socket table fail?
    MaxUpdates      \* bound on set_names calls that change the list

ASSUME ProcessPolicyAssumption ==
    /\ NoApp \notin Apps
    /\ NoFlow \notin Flows
    /\ InitialNames \subseteq Apps
    /\ TableFails \in BOOLEAN
    /\ MaxUpdates \in Nat

VARIABLES
    names,      \* ProcessBypass.names
    revision,   \* ProcessBypass.changes
    pending,    \* set_names calls between the write and send_modify
    owner,      \* the OS socket table: who has bound each port
    cache,      \* the matcher's Cache: [entries, covers]
    job,        \* the blocking lookup holding lookup_slot: [flow, walk]
    flow,       \* each captured flow
    since       \* history: the owners of a flow's port since it was captured

policy == <<names, revision, pending>>
vars == <<names, revision, pending, owner, cache, job, flow, since>>

Owner == Apps \cup {NoApp}

(***************************************************************************)
(* cache.covers is fetched_at: the flows whose requested_at it is not      *)
(* before.  job.walk is "no" lookup, "ready" (slot taken), "walking" (the  *)
(* timestamp is taken) or "read"; job.covers and job.entries are what that *)
(* walk will store, job.flow is NoFlow when its task was cancelled.        *)
(***************************************************************************)
NoJob == [flow |-> NoFlow, walk |-> "no", covers |-> {},
          entries |-> [p \in Ports |-> NoApp]]
NoFlowState == [pc |-> "idle", port |-> CHOOSE p \in Ports : TRUE, seen |-> 0,
                identity |-> NoApp, bypass |-> FALSE]

\* ProcessMatcher::new gives no matcher for an empty list.
HasMatcher == InitialNames # {}

Init ==
    /\ names = InitialNames
    /\ revision = 0
    /\ pending = 0
    /\ owner \in [Ports -> Owner]
    /\ cache = [entries |-> [p \in Ports |-> NoApp], covers |-> {}]
    /\ job = NoJob
    /\ flow = [f \in Flows |-> NoFlowState]
    /\ since = [f \in Flows |-> {}]

Matches(app) == app \in names

-----------------------------------------------------------------------------
(* set_names                                                               *)

\* The list is replaced under its lock ...
SetNames(list) ==
    /\ revision + pending < MaxUpdates
    /\ list # names
    /\ names' = list
    /\ pending' = pending + 1
    /\ UNCHANGED <<revision, owner, cache, job, flow, since>>

\* ... and the change is announced after the lock is released.
SendModify ==
    /\ pending > 0
    /\ pending' = pending - 1
    /\ revision' = revision + 1
    /\ UNCHANGED <<names, owner, cache, job, flow, since>>

-----------------------------------------------------------------------------
(* The operating system.                                                   *)

\* A socket is closed, or its port is bound.
Rebind(p, app) ==
    /\ owner[p] # app
    /\ owner[p] = NoApp \/ app = NoApp
    /\ owner' = [owner EXCEPT ![p] = app]
    /\ since' = [f \in Flows |-> IF flow[f].pc # "idle" /\ flow[f].port = p
                                 THEN since[f] \cup {app} ELSE since[f]]
    /\ UNCHANGED <<policy, cache, job, flow>>

\* A packet of an application reaches the TUN and its session task is spawned.
Capture(f, p) ==
    /\ flow[f].pc = "idle"
    /\ owner[p] # NoApp
    /\ flow' = [flow EXCEPT ![f] = [NoFlowState EXCEPT !.pc = "captured", !.port = p]]
    /\ since' = [since EXCEPT ![f] = {owner[p]}]
    /\ UNCHANGED <<policy, owner, cache, job>>

-----------------------------------------------------------------------------
(* match_session                                                           *)

\* The task subscribes and takes requested_at; without a matcher it has no policy.
Subscribe(f) ==
    /\ flow[f].pc = "captured"
    /\ flow' = [flow EXCEPT ![f].pc = IF HasMatcher THEN "waiting" ELSE "identified",
                            ![f].seen = revision]
    /\ UNCHANGED <<policy, owner, cache, job, since>>

\* acquire_owned, then spawn_blocking.
TakeSlot(f) ==
    /\ flow[f].pc = "waiting"
    /\ job = NoJob
    /\ job' = [NoJob EXCEPT !.flow = f, !.walk = "ready"]
    /\ flow' = [flow EXCEPT ![f].pc = "lookup"]
    /\ UNCHANGED <<policy, owner, cache, since>>

\* The flows that have taken requested_at by now.
Requested == {f \in Flows : flow[f].pc \in {"waiting", "lookup"}}

Cleared == [p \in Ports |-> NoApp]

\* refresh: snapshot_started_at.
StartWalk ==
    /\ job.walk = "ready"
    /\ job.flow \notin cache.covers
    /\ job' = [job EXCEPT !.walk = "walking", !.covers = Requested]
    /\ UNCHANGED <<policy, owner, cache, flow, since>>

\* Mutant of ReadTable: after a failure the older entries stay.
ReadTableKeepingEntries ==
    /\ job.walk = "walking"
    /\ \E entries \in {owner} \cup (IF TableFails THEN {cache.entries} ELSE {}) :
          job' = [job EXCEPT !.walk = "read", !.entries = entries]
    /\ UNCHANGED <<policy, owner, cache, flow, since>>

\* refresh: the table is read, or reading it fails and the entries are cleared.
ReadTable ==
    /\ job.walk = "walking"
    /\ \E entries \in {owner} \cup (IF TableFails THEN {Cleared} ELSE {}) :
          job' = [job EXCEPT !.walk = "read", !.entries = entries]
    /\ UNCHANGED <<policy, owner, cache, flow, since>>

\* The cache after the refresh of the running job, or as it is if it needed none.
Refreshed == IF job.walk = "read"
             THEN [entries |-> job.entries, covers |-> job.covers] ELSE cache

\* refresh ends and identities_in_cache looks the flow up, all under the cache's
\* lock; the job ends and gives the slot back.
Identify ==
    /\ job.walk = "read" \/ (job.walk = "ready" /\ job.flow \in cache.covers)
    /\ cache' = Refreshed
    /\ flow' = [f \in Flows |->
                  IF f = job.flow
                  THEN [flow[f] EXCEPT !.pc = "identified",
                                       !.identity = cache'.entries[flow[f].port]]
                  ELSE flow[f]]
    /\ job' = NoJob
    /\ UNCHANGED <<policy, owner, since>>

\* The bypass decision; the relay starts.
Decide(f) ==
    /\ flow[f].pc = "identified"
    /\ flow' = [flow EXCEPT ![f].pc = "relaying",
                            ![f].bypass = HasMatcher /\ Matches(flow[f].identity)]
    /\ UNCHANGED <<policy, owner, cache, job, since>>

-----------------------------------------------------------------------------
(* wait_for_routing_change                                                 *)

\* Mutant of Wake: the change is seen and not acted upon.
WakeIgnored(f) ==
    /\ HasMatcher
    /\ flow[f].pc = "relaying"
    /\ flow[f].seen # revision
    /\ flow' = [flow EXCEPT ![f].seen = revision]
    /\ UNCHANGED <<policy, owner, cache, job, since>>

\* changed() returns and marks the revision as seen.
Wake(f) ==
    /\ HasMatcher
    /\ flow[f].pc = "relaying"
    /\ flow[f].seen # revision
    /\ flow' = [flow EXCEPT ![f].pc = "woken", ![f].seen = revision]
    /\ UNCHANGED <<policy, owner, cache, job, since>>

\* A flow is over: its task forgets it, and no snapshot covers its next use.
Forget(f) ==
    /\ flow' = [flow EXCEPT ![f] = NoFlowState]
    /\ since' = [since EXCEPT ![f] = {}]
    /\ cache' = [cache EXCEPT !.covers = @ \ {f}]

\* Mutant of Recheck: only a session that should now bypass is reset.
RecheckOneWay(f) ==
    /\ flow[f].pc = "woken"
    /\ IF Matches(flow[f].identity) /\ ~flow[f].bypass
       THEN Forget(f)
       ELSE /\ flow' = [flow EXCEPT ![f].pc = "relaying"]
            /\ UNCHANGED <<cache, since>>
    /\ UNCHANGED <<policy, owner, job>>

\* The decision is taken again: the relay is reset if it changed.
Recheck(f) ==
    /\ flow[f].pc = "woken"
    /\ IF Matches(flow[f].identity) # flow[f].bypass
       THEN Forget(f)
       ELSE /\ flow' = [flow EXCEPT ![f].pc = "relaying"]
            /\ UNCHANGED <<cache, since>>
    /\ UNCHANGED <<policy, owner, job>>

\* The relay ends by itself.
RelayEnds(f) ==
    /\ flow[f].pc \in {"relaying", "woken"}
    /\ Forget(f)
    /\ UNCHANGED <<policy, owner, job>>

\* Mutant of Cancelled: the slot goes with the task, the job goes on.
CancelledLeavingSlot(f) ==
    /\ flow[f].pc \in {"captured", "waiting", "lookup", "identified"}
    /\ Forget(f)
    /\ job' = IF job.flow = f THEN [job EXCEPT !.flow = NoFlow, !.walk = "lost"] ELSE job
    /\ UNCHANGED <<policy, owner>>

\* The task is cancelled before it relays; a lookup job that runs keeps the slot.
Cancelled(f) ==
    /\ flow[f].pc \in {"captured", "waiting", "lookup", "identified"}
    /\ Forget(f)
    /\ job' = [job EXCEPT !.flow = IF @ = f THEN NoFlow ELSE @, !.covers = @ \ {f}]
    /\ UNCHANGED <<policy, owner>>

JobStep == StartWalk \/ ReadTable \/ Identify

Next ==
    \/ \E list \in SUBSET Apps : SetNames(list)
    \/ SendModify
    \/ \E p \in Ports, app \in Owner : Rebind(p, app)
    \/ \E f \in Flows, p \in Ports : Capture(f, p)
    \/ \E f \in Flows : Subscribe(f) \/ TakeSlot(f) \/ Decide(f) \/ Wake(f)
                        \/ Recheck(f) \/ RelayEnds(f) \/ Cancelled(f)
    \/ JobStep

Spec == Init /\ [][Next]_vars

(***************************************************************************)
(* Ready tasks and blocking jobs run; set_names returns; the semaphore is  *)
(* first come, first served, so a waiting task gets the slot in the end.   *)
(***************************************************************************)
Fairness ==
    /\ WF_vars(SendModify)
    /\ WF_vars(JobStep)
    /\ \A f \in Flows :
          /\ WF_vars(Subscribe(f)) /\ WF_vars(Decide(f))
          /\ WF_vars(Wake(f)) /\ WF_vars(Recheck(f))
          /\ SF_vars(TakeSlot(f))

FairSpec == Spec /\ Fairness

-----------------------------------------------------------------------------
(* Properties.                                                             *)

\* A flow is never given the identity of an application that had its port only
\* before it was captured, although lookups share one snapshot and a walk of the
\* table may fail ("without allowing a time-based stale-cache window", "Never
\* reuse an older positive match after a refresh failure").
FreshIdentity ==
    \A f \in Flows : flow[f].identity # NoApp => flow[f].identity \in since[f]

\* No policy update is missed: a relay that has seen the latest revision follows
\* the list in effect, even if the update raced its lookup ("Subscribe before
\* lookup so an update racing it cannot be missed").
NoMissedUpdate ==
    \A f \in Flows :
       /\ HasMatcher
       /\ flow[f].pc = "relaying"
       /\ pending = 0
       /\ flow[f].seen = revision
       => (flow[f].bypass <=> Matches(flow[f].identity))

\* A relay that disagrees with the list is reset or the list comes round to it.
StaleRelayEnds ==
    \A f \in Flows :
       (flow[f].pc = "relaying" /\ (flow[f].bypass # Matches(flow[f].identity)))
         ~> (flow[f].pc # "relaying" \/ (flow[f].bypass = Matches(flow[f].identity)))

\* A captured flow is decided or gone in the end: no cancelled lookup keeps the
\* only slot from the others ("Keep ownership in the OS job after cancellation").
LookupEnds ==
    \A f \in Flows : flow[f].pc \in {"captured", "waiting", "lookup"}
                       ~> flow[f].pc \notin {"captured", "waiting", "lookup"}
=============================================================================
