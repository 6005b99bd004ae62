----------------------------- MODULE UdpBypass -----------------------------
(***************************************************************************)
(* The pool of physical UDP sockets for bypassed processes (Windows).  An  *)
(* endpoint stands for one application socket and is shared by its flows,  *)
(* one per peer.  Opening a flow and the periodic maintenance both read    *)
(* the system's table of socket owners in a blocking job and apply what    *)
(* they read, serialized by one permit; they retire endpoints whose owner  *)
(* or interface changed, idle ones, and, under pressure, unused ones.      *)
(***************************************************************************)
EXTENDS Naturals, FiniteSets

CONSTANTS
    Flows, Sources, Peers, Interfaces,
    Owners,        \* owners of application sockets
    None,          \* no owner, source, peer or flow
    Limit,         \* limit on the pooled endpoints
    PeerQueue,     \* PEER_QUEUE
    MaxEndpoints,  \* bound on the endpoints ever opened
    MaxChanges     \* bound on changes of the owner table, egress and policy

ASSUME UdpBypassAssumption ==
    /\ None \notin Flows \cup Sources \cup Peers \cup Owners
    /\ "maintain" \notin Flows \cup {None} /\ IsFiniteSet(Sources)
    /\ Limit \in Nat /\ PeerQueue \in Nat /\ MaxEndpoints \in Nat /\ MaxChanges \in Nat
    /\ Interfaces # {}

VARIABLES
    table,      \* external: the owner of each application socket
    egress,     \* the physical interface in use
    bypassed,   \* the owners the policy bypasses
    changes,    \* changes of the three above so far
    permit,     \* who took owner_lookup: a flow, "maintain", or None
    job,        \* each caller's blocking read of the owner table
    keeper,     \* the maintenance task
    failing,    \* owner_failure_since: "no", "grace", "over"
    endpoints,  \* the pooled endpoint of each source, 0 for none
    endpoint,   \* every endpoint opened so far
    opened,     \* how many
    idle,       \* endpoints without activity for IDLE_TIMEOUT
    flow,       \* each flow's progress
    newest      \* history: the latest owner table that was read and applied

vars == <<table, egress, bypassed, changes, permit, job, keeper, failing,
          endpoints, endpoint, opened, idle, flow, newest>>

world == <<table, egress, bypassed, changes>>

Ends == 1 .. MaxEndpoints

Callers == Flows \cup {"maintain"}

NoRoutes == [p \in Peers |-> None]

NoEndpoint == [source |-> None, owner |-> None, interface |-> None, closed |-> TRUE,
               why |-> "never", routes |-> NoRoutes, receiver |-> "ended"]

NoFlow == [pc |-> "start", source |-> None, peer |-> None, owner |-> None,
           end |-> 0, queued |-> 0]

NoJob == [state |-> "none", owners |-> [s \in Sources |-> None], stamp |-> 0]

Init ==
    /\ table \in [Sources -> Owners]
    /\ egress \in Interfaces
    /\ bypassed = Owners
    /\ changes = 0
    /\ permit = None
    /\ job = [c \in Callers |-> NoJob]
    /\ keeper = "sleep"
    /\ failing = "no"
    /\ endpoints = [s \in Sources |-> 0]
    /\ endpoint = [e \in Ends |-> NoEndpoint]
    /\ opened = 0
    /\ idle = {}
    /\ flow = [f \in Flows |-> NoFlow]
    /\ newest = [owners |-> table, stamp |-> 0]

-----------------------------------------------------------------------------
(* The world: sockets change hands, the default route and policy change.   *)
Rebind(s, o) ==
    /\ changes < MaxChanges /\ table[s] # o
    /\ table' = [table EXCEPT ![s] = o]
    /\ changes' = changes + 1
    /\ UNCHANGED <<egress, bypassed, permit, job, keeper, failing, endpoints,
                   endpoint, opened, idle, flow, newest>>

EgressChanges(i) ==
    /\ changes < MaxChanges /\ egress # i
    /\ egress' = i
    /\ changes' = changes + 1
    /\ UNCHANGED <<table, bypassed, permit, job, keeper, failing, endpoints,
                   endpoint, opened, idle, flow, newest>>

PolicyChanges(o) ==
    /\ changes < MaxChanges /\ o \in bypassed
    /\ bypassed' = bypassed \ {o}
    /\ changes' = changes + 1
    /\ UNCHANGED <<table, egress, permit, job, keeper, failing, endpoints,
                   endpoint, opened, idle, flow, newest>>

-----------------------------------------------------------------------------
(* Endpoints.                                                              *)

ClosedKeepingOpen(es, why) ==
    [e \in Ends |-> IF e \in es THEN [endpoint[e] EXCEPT !.routes = NoRoutes] ELSE endpoint[e]]

(* close cancels the endpoint and clears its routes, whose senders drop.   *)
Closed(es, why) ==
    [e \in Ends |-> IF e \in es /\ ~ endpoint[e].closed
                    THEN [endpoint[e] EXCEPT !.closed = TRUE, !.why = why, !.routes = NoRoutes]
                    ELSE endpoint[e]]

Pooled == {endpoints[s] : s \in Sources} \ {0}

Expired(e) == endpoint[e].closed \/ (endpoint[e].routes = NoRoutes /\ e \in idle)

(* What maintain_with retires, from the owners read, if they were.         *)
Retired(known, owners, unknown) ==
    {e \in Pooled :
        \/ ~ (unknown \/ (known /\ owners[endpoint[e].source] = endpoint[e].owner))
        \/ endpoint[e].interface # egress
        \/ Expired(e)}

Reason(e) == IF Expired(e) THEN "idle" ELSE "changed"

(* The outcome of maintain_with on the endpoints and on the pool.          *)
Maintained(retired) ==
    [e \in Ends |-> IF e \in retired THEN Closed({e}, Reason(e))[e] ELSE endpoint[e]]

Remaining(retired) == [s \in Sources |-> IF endpoints[s] \in retired THEN 0 ELSE endpoints[s]]

-----------------------------------------------------------------------------
(* The owner lookup shared by open and maintain.                           *)

Start(f, s, p) ==
    /\ flow[f].pc = "start"
    /\ table[s] \in bypassed
    /\ flow' = [flow EXCEPT ![f] = [@ EXCEPT !.pc = "permit", !.source = s, !.peer = p,
                                             !.owner = table[s]]]
    /\ UNCHANGED <<world, permit, job, keeper, failing, endpoints, endpoint,
                   opened, idle, newest>>

AcquireForOpen(f) ==
    /\ flow[f].pc = "permit" /\ permit = None
    /\ permit' = f
    /\ job' = [job EXCEPT ![f].state = "reading"]
    /\ flow' = [flow EXCEPT ![f].pc = "read"]
    /\ UNCHANGED <<world, keeper, failing, endpoints, endpoint, opened, idle, newest>>

AcquireForMaintain ==
    /\ keeper = "sleep" /\ permit = None
    /\ permit' = "maintain"
    /\ job' = [job EXCEPT !["maintain"].state = "reading"]
    /\ keeper' = "read"
    /\ UNCHANGED <<world, failing, endpoints, endpoint, opened, idle, flow, newest>>

ReadOwnersReleasing(c) ==
    /\ job[c].state = "reading"
    /\ \E state \in {"read", "failed"} :
          job' = [job EXCEPT ![c] = [state |-> state, owners |-> table, stamp |-> changes]]
    /\ permit' = None
    /\ UNCHANGED <<world, keeper, failing, endpoints, endpoint, opened, idle,
                   flow, newest>>

(* The blocking job reads the table, or fails.                             *)
ReadOwners(c) ==
    /\ job[c].state = "reading"
    /\ \E state \in {"read", "failed"} :
          job' = [job EXCEPT ![c] = [state |-> state, owners |-> table, stamp |-> changes]]
    /\ UNCHANGED <<world, permit, keeper, failing, endpoints, endpoint, opened,
                   idle, flow, newest>>

(* A flow dropped while its job runs leaves the permit with the job, which *)
(* gives it back when it ends.                                             *)
CancelOpen(f) ==
    /\ flow[f].pc \in {"permit", "read"}
    /\ flow' = [flow EXCEPT ![f].pc = "ended"]
    /\ CASE job[f].state = "none" -> UNCHANGED <<permit, job>>
         [] job[f].state = "reading" ->
               job' = [job EXCEPT ![f].state = "orphan"] /\ UNCHANGED permit
         [] OTHER -> permit' = None /\ job' = [job EXCEPT ![f] = NoJob]
    /\ UNCHANGED <<world, keeper, failing, endpoints, endpoint, opened, idle, newest>>

OrphanEnds(c) ==
    /\ job[c].state = "orphan"
    /\ job' = [job EXCEPT ![c] = NoJob]
    /\ permit' = None
    /\ UNCHANGED <<world, keeper, failing, endpoints, endpoint, opened, idle,
                   flow, newest>>

(* The caller has applied what it read and returns.                        *)
Return(c) == permit' = None /\ job' = [job EXCEPT ![c] = NoJob]

HasRead(c) == job[c].state \in {"read", "failed"}

FailingAfterRestarting(known) == IF known THEN "no" ELSE "grace"

FailingAfter(known) ==
    IF known THEN "no" ELSE IF failing = "no" THEN "grace" ELSE failing

(* What caller c read becomes the pool's view.                             *)
Applied(c) ==
    /\ failing' = FailingAfter(job[c].state = "read")
    /\ newest' = IF job[c].state = "read" /\ job[c].stamp >= newest.stamp
                 THEN [owners |-> job[c].owners, stamp |-> job[c].stamp] ELSE newest

RetiredBy(c) ==
    LET known == job[c].state = "read"
    IN  Retired(known, job[c].owners, FailingAfter(known) = "grace")

Maintain ==
    /\ keeper = "read" /\ HasRead("maintain")
    /\ endpoint' = Maintained(RetiredBy("maintain"))
    /\ endpoints' = Remaining(RetiredBy("maintain"))
    /\ Applied("maintain")
    /\ keeper' = "sleep"
    /\ Return("maintain")
    /\ UNCHANGED <<world, opened, idle, flow>>

(* OWNER_FAILURE_GRACE passes.                                             *)
GraceEnds ==
    /\ failing = "grace"
    /\ failing' = "over"
    /\ UNCHANGED <<world, permit, job, keeper, endpoints, endpoint, opened,
                   idle, flow, newest>>

-----------------------------------------------------------------------------
(* Opening a flow: open and open_with, after maintain_with.                *)

OpenFails(f) == flow' = [flow EXCEPT ![f].pc = "ended"]

EvictableAny(ends, pool) == {pool[s] : s \in Sources} \ {0}

(* The endpoints that may make room for a new one.                         *)
Evictable(ends, pool) == {e \in {pool[s] : s \in Sources} \ {0} : ends[e].routes = NoRoutes}

(* A route is never taken from the flow that has it.                       *)
Register(f, ends, e) ==
    IF ends[e].routes[flow[f].peer] # None
    THEN OpenFails(f) /\ endpoint' = ends
    ELSE /\ flow' = [flow EXCEPT ![f].pc = "relay", ![f].end = e]
         /\ endpoint' = [ends EXCEPT ![e].routes[flow[f].peer] = f]

NewEndpoint(f) ==
    [source |-> flow[f].source, owner |-> flow[f].owner, interface |-> egress,
     closed |-> FALSE, why |-> "open", routes |-> NoRoutes, receiver |-> "running"]

Full(pool) == Cardinality({t \in Sources : pool[t] # 0}) >= Limit

(* The endpoint of the flow's source, opened when there is none.           *)
Join(f, ends, pool) ==
    LET s == flow[f].source
        e == opened + 1
    IN  \/ /\ pool[s] # 0
           /\ Register(f, ends, pool[s])
           /\ idle' = idle \ {pool[s]}
           /\ endpoints' = pool
           /\ UNCHANGED opened
        \/ /\ pool[s] = 0 /\ Full(pool) /\ Evictable(ends, pool) = {}
           /\ OpenFails(f)
           /\ endpoint' = ends /\ endpoints' = pool
           /\ UNCHANGED <<opened, idle>>
        \/ /\ pool[s] = 0 /\ e <= MaxEndpoints
           /\ \E old \in IF Full(pool) THEN Evictable(ends, pool) ELSE {0} :
                 LET rest == [t \in Sources |-> IF pool[t] = old THEN 0 ELSE pool[t]]
                     shut == IF old = 0 THEN ends
                             ELSE [ends EXCEPT ![old].closed = TRUE, ![old].why = "idle",
                                               ![old].routes = NoRoutes]
                 IN  \/ /\ Register(f, [shut EXCEPT ![e] = NewEndpoint(f)], e)
                        /\ endpoints' = [rest EXCEPT ![s] = e]
                        /\ opened' = e
                        /\ UNCHANGED idle
                     \/ /\ OpenFails(f)                         \* bind failed
                        /\ endpoint' = shut /\ endpoints' = rest
                        /\ UNCHANGED <<opened, idle>>

(* maintain_with, the checks of the owner and policy, and open_with; the   *)
(* egress watch is borrowed throughout.                                    *)
Open(f) ==
    LET ends == Maintained(RetiredBy(f))
        pool == Remaining(RetiredBy(f))
        current == /\ job[f].state = "read"
                   /\ job[f].owners[flow[f].source] = flow[f].owner
                   /\ flow[f].owner \in bypassed
    IN  /\ flow[f].pc = "read" /\ HasRead(f)
        /\ IF current
           THEN Join(f, ends, pool)
           ELSE /\ OpenFails(f)
                /\ endpoint' = ends /\ endpoints' = pool
                /\ UNCHANGED <<opened, idle>>
        /\ Applied(f)
        /\ Return(f)
        /\ UNCHANGED <<world, keeper>>

-----------------------------------------------------------------------------
(* An open endpoint.                                                       *)

(* The receive task: a datagram of a contacted peer is queued to its flow, *)
(* unless the queue or the byte budget is exhausted.                       *)
ReceiveFrom(e, p) ==
    LET f == endpoint[e].routes[p]
    IN  /\ endpoint[e].receiver = "running" /\ ~ endpoint[e].closed
        /\ f # None /\ flow[f].queued < PeerQueue
        /\ flow' = [flow EXCEPT ![f].queued = @ + 1]
        /\ idle' = idle \ {e}
        /\ UNCHANGED <<world, permit, job, keeper, failing, endpoints,
                       endpoint, opened, newest>>

(* Its end: the endpoint was closed, the policy changed or the socket      *)
(* failed; it then closes the endpoint.                                    *)
ReceiverEnds(e) ==
    /\ endpoint[e].receiver = "running"
    /\ endpoint' = [Closed({e}, "changed") EXCEPT ![e].receiver = "ended"]
    /\ UNCHANGED <<world, permit, job, keeper, failing, endpoints, opened,
                   idle, flow, newest>>

GoesIdle(e) ==
    /\ e \notin idle /\ ~ endpoint[e].closed
    /\ idle' = idle \cup {e}
    /\ UNCHANGED <<world, permit, job, keeper, failing, endpoints, endpoint,
                   opened, flow, newest>>

-----------------------------------------------------------------------------
(* A flow's relay.  A reply is injected under the endpoint's lock, unless  *)
(* the endpoint is closed.                                                 *)
Inject(f) ==
    /\ flow[f].pc = "relay" /\ flow[f].queued > 0
    /\ ~ endpoint[flow[f].end].closed
    /\ flow' = [flow EXCEPT ![f].queued = @ - 1]
    /\ UNCHANGED <<world, permit, job, keeper, failing, endpoints, endpoint,
                   opened, idle, newest>>

SendOut(f) ==
    /\ flow[f].pc = "relay" /\ ~ endpoint[flow[f].end].closed
    /\ idle' = idle \ {flow[f].end}
    /\ UNCHANGED <<world, permit, job, keeper, failing, endpoints, endpoint,
                   opened, flow, newest>>

(* The relay ends, with its endpoint or by itself, and drops its route.    *)
FlowEnds(f) ==
    /\ flow[f].pc = "relay"
    /\ flow' = [flow EXCEPT ![f].pc = "ended", ![f].queued = 0]
    /\ endpoint' = [endpoint EXCEPT ![flow[f].end].routes[flow[f].peer] = None]
    /\ UNCHANGED <<world, permit, job, keeper, failing, endpoints, opened,
                   idle, newest>>

-----------------------------------------------------------------------------
FlowStep(f) ==
    \/ \E s \in Sources, p \in Peers : Start(f, s, p)
    \/ AcquireForOpen(f) \/ CancelOpen(f) \/ Open(f)
    \/ Inject(f) \/ SendOut(f) \/ FlowEnds(f)

EndpointStep(e) ==
    \/ \E p \in Peers : ReceiveFrom(e, p)
    \/ ReceiverEnds(e) \/ GoesIdle(e)

Next ==
    \/ \E s \in Sources, o \in Owners : Rebind(s, o)
    \/ \E i \in Interfaces : EgressChanges(i)
    \/ \E o \in Owners : PolicyChanges(o)
    \/ \E c \in Callers : ReadOwners(c) \/ OrphanEnds(c)
    \/ AcquireForMaintain \/ Maintain \/ GraceEnds
    \/ \E f \in Flows : FlowStep(f)
    \/ \E e \in Ends : EndpointStep(e)

Spec == Init /\ [][Next]_vars

(* The blocking job ends, the maintenance task comes round, a waiter for   *)
(* the permit gets it in its turn, and time passes.                        *)
Fairness ==
    /\ \A c \in Callers : WF_vars(ReadOwners(c)) /\ WF_vars(OrphanEnds(c))
    /\ SF_vars(AcquireForMaintain) /\ WF_vars(Maintain)
    /\ WF_vars(GraceEnds)
    /\ \A f \in Flows : WF_vars(Open(f)) /\ SF_vars(AcquireForOpen(f))
    /\ \A e \in Ends :
          /\ WF_vars(endpoint[e].closed /\ ReceiverEnds(e))
          /\ WF_vars(endpoint[e].owner \notin bypassed /\ ReceiverEnds(e))

FairSpec == Spec /\ Fairness

-----------------------------------------------------------------------------
Live(e) == ~ endpoint[e].closed

(* An application socket has at most one live endpoint, the pooled one, so *)
(* "queued replies must not escape after a new owner replaces this         *)
(* socket": a flow of a replaced endpoint injects and sends nothing.  And  *)
(* a flow on a live endpoint has the route of its peer: no other open      *)
(* steals it and no other flow's drop removes it.                          *)
OneLiveEndpoint ==
    /\ \A e \in Ends : Live(e) => endpoints[endpoint[e].source] = e
    /\ \A f \in Flows :
          (flow[f].pc = "relay" /\ Live(flow[f].end)) =>
             endpoint[flow[f].end].routes[flow[f].peer] = f

(* Idle expiry and eviction spare the endpoints with flows: "active flows  *)
(* must never silently move to a different physical source port"; and yet  *)
(* the pool never holds more than its limit.                               *)
ActiveSpared ==
    /\ \A f \in Flows : flow[f].pc = "relay" => endpoint[flow[f].end].why # "idle"
    /\ Cardinality(Pooled) <= Limit

(* A live endpoint belongs to the owner in the newest table that was read  *)
(* and applied: no table read earlier is applied after it, which the       *)
(* permit kept through the application is for.                             *)
OwnerOfNewestTable ==
    \A e \in Ends : Live(e) => newest.owners[endpoint[e].source] = endpoint[e].owner

(* An endpoint whose socket changed hands is closed in the end, even when  *)
(* the owner table cannot be read, unless the socket changes back.         *)
ForeignRetired ==
    \A e \in Ends :
       (Live(e) /\ table[endpoint[e].source] # endpoint[e].owner) ~>
          (~ Live(e) \/ table[endpoint[e].source] = endpoint[e].owner)
=============================================================================
