--------------------------- MODULE PhysicalProofs ---------------------------
(***************************************************************************)
(* The sessions that leave by the physical network.  The pool of physical  *)
(* UDP sockets, for any flows, application sockets, peers, owners and      *)
(* limit: an application socket has one live endpoint, of the owner in the *)
(* newest table, and idle expiry spares its flows.  DNS over TCP for any   *)
(* id space, any limit and any questions: an answer is for a request that  *)
(* waits for it, and the transaction limit bounds the channel to the       *)
(* upstream task.  Then the search of the physical resolvers, for any      *)
(* resolvers and any questions: it ends with the first reply there is, and *)
(* fails only when no resolver has one.                                    *)
(***************************************************************************)
EXTENDS DnsOverTcp, PhysicalDns, UdpBypass, FiniteSetTheorems, WellFoundedInduction, TLAPS

-----------------------------------------------------------------------------
(* The pool of physical UDP sockets.                                       *)
EndRecord ==
    [source : Sources \cup {None}, owner : Owners \cup {None}, interface : Interfaces \cup {None},
     closed : BOOLEAN, why : {"never", "open", "idle", "changed"},
     routes : [Peers -> Flows \cup {None}], receiver : {"running", "ended"}]

FlowRecord ==
    [pc : {"start", "permit", "read", "relay", "ended"}, source : Sources \cup {None},
     peer : Peers \cup {None}, owner : Owners \cup {None}, end : 0 .. MaxEndpoints, queued : Nat]

JobRecord ==
    [state : {"none", "reading", "read", "failed", "orphan"},
     owners : [Sources -> Owners \cup {None}], stamp : Nat]

BypassTypes ==
    /\ table \in [Sources -> Owners] /\ egress \in Interfaces /\ changes \in Nat
    /\ permit \in Callers \cup {None}
    /\ job \in [Callers -> JobRecord]
    /\ endpoints \in [Sources -> 0 .. MaxEndpoints]
    /\ endpoint \in [Ends -> EndRecord]
    /\ opened \in 0 .. MaxEndpoints
    /\ flow \in [Flows -> FlowRecord]
    /\ newest \in [owners : [Sources -> Owners \cup {None}], stamp : Nat]

(* The permit is with the caller whose job runs or whose result is not     *)
(* applied yet, so no table older than the newest is ever applied.         *)
Serialized ==
    /\ \A c \in Callers : (permit = c) <=> (job[c].state # "none")
    /\ \A c \in Callers : HasRead(c) => newest.stamp <= job[c].stamp /\ job[c].stamp <= changes
    /\ newest.stamp <= changes

(* The pool of n endpoints opened so far: a pooled endpoint is of its      *)
(* source, a live one is pooled, of the owner of its source and was never  *)
(* closed, a closed one has no routes.                                     *)
PoolFits(ends, pool, n, owners) ==
    /\ \A s \in Sources : pool[s] # 0 => pool[s] \in 1 .. n /\ ends[pool[s]].source = s
    /\ \A e \in Ends :
          ~ ends[e].closed => /\ e <= n /\ ends[e].source \in Sources /\ ends[e].why = "open"
                              /\ pool[ends[e].source] = e
                              /\ owners[ends[e].source] = ends[e].owner
    /\ \A e \in Ends : ends[e].closed => ends[e].routes = NoRoutes
    /\ Cardinality({s \in Sources : pool[s] # 0}) <= Limit

(* A relaying flow has its route unless its endpoint was closed, and that  *)
(* was not for idleness.                                                   *)
FlowsFit(ends, n) ==
    \A f \in Flows :
        /\ flow[f].pc \in {"permit", "read", "relay"} => flow[f].source \in Sources /\ flow[f].peer \in Peers
        /\ flow[f].pc = "relay" =>
              /\ flow[f].end \in 1 .. n /\ ends[flow[f].end].why # "idle"
              /\ ends[flow[f].end].closed \/ ends[flow[f].end].routes[flow[f].peer] = f

BypassInv ==
    /\ BypassTypes /\ Serialized
    /\ PoolFits(endpoint, endpoints, opened, newest.owners)
    /\ FlowsFit(endpoint, opened)

-----------------------------------------------------------------------------
\* A number below a bound is a natural number.
LEMMA Below ==
    ASSUME NEW m \in Nat, NEW n \in 0 .. m
    PROVE  n \in Nat
OBVIOUS

\* The next number to give, below a bound.
LEMMA NextNumber ==
    ASSUME NEW n \in Nat, NEW m \in Nat, n + 1 <= m
    PROVE  /\ n + 1 \in Nat /\ n + 1 # 0 /\ ~ (n + 1 <= n) /\ n + 1 \in 1 .. n + 1
           /\ n + 1 \in 1 .. m /\ n + 1 \in 0 .. m
OBVIOUS

\* The pool starts empty.
LEMMA BypassStarts == Init => BypassInv
<1> SUFFICES ASSUME Init
             PROVE  BypassInv
  BY ZenonT(30)
<1>0. /\ None \notin Flows /\ "maintain" \notin Flows \cup {None}
      /\ Limit \in Nat /\ MaxEndpoints \in Nat
  BY UdpBypassAssumption, ZenonT(30)
<1>1. NoRoutes \in [Peers -> Flows \cup {None}] /\ [s \in Sources |-> None] \in [Sources -> Owners \cup {None}]
  BY ZenonT(30) DEF NoRoutes
<1>2. NoEndpoint \in EndRecord /\ NoEndpoint.closed /\ NoEndpoint.routes = NoRoutes
  BY <1>1, ZenonT(30) DEF NoEndpoint, EndRecord
<1>3. NoFlow \in FlowRecord /\ NoFlow.pc = "start"
  BY <1>0 DEF NoFlow, FlowRecord
<1>4. NoJob \in JobRecord /\ NoJob.state = "none"
  BY <1>1, ZenonT(30) DEF NoJob, JobRecord
<1>5. newest \in [owners : [Sources -> Owners \cup {None}], stamp : Nat] /\ newest.stamp = 0
  BY ZenonT(30) DEF Init
<1>6. BypassTypes
  BY <1>0, <1>2, <1>3, <1>4, <1>5 DEF Init, BypassTypes
<1>7. Serialized
  BY <1>0, <1>4, <1>5 DEF Init, Serialized, HasRead, Callers
<1> DEFINE occupied == {s \in Sources : endpoints[s] # 0}
<1>8. occupied = {}
  BY ZenonT(30) DEF Init
<1> HIDE DEF occupied
<1>9. Cardinality(occupied) <= Limit
  BY <1>0, <1>8, FS_EmptySet
<1>10. \A e \in Ends : endpoint[e] = NoEndpoint
  BY ZenonT(30) DEF Init
<1>11. \A s \in Sources : endpoints[s] = 0
  BY ZenonT(30) DEF Init
<1>12. PoolFits(endpoint, endpoints, opened, newest.owners)
  BY <1>2, <1>9, <1>10, <1>11, ZenonT(30) DEF PoolFits, occupied
<1>13. FlowsFit(endpoint, opened)
  BY <1>3, ZenonT(30) DEF Init, FlowsFit
<1>14. QED
  BY <1>6, <1>7, <1>12, <1>13, ZenonT(30) DEF BypassInv

\* Steps that leave the endpoints, the pool and its view of the owners alone,
\* and the relaying flows on their endpoints.
LEMMA FlowsKept ==
    ASSUME BypassInv, BypassTypes', Serialized',
           UNCHANGED <<endpoints, endpoint, opened, newest>>,
           \A f \in Flows :
              /\ flow'[f].pc \in {"permit", "read", "relay"} => flow'[f].source \in Sources /\ flow'[f].peer \in Peers
              /\ flow'[f].pc = "relay" => /\ flow[f].pc = "relay" /\ flow'[f].end = flow[f].end
                                          /\ flow'[f].peer = flow[f].peer
    PROVE  BypassInv'
<1>1. PoolFits(endpoint, endpoints, opened, newest.owners)'
  BY ZenonT(30) DEF BypassInv, PoolFits
<1>2. FlowsFit(endpoint, opened)'
  BY ZenonT(30) DEF BypassInv, FlowsFit
<1>3. QED
  BY <1>1, <1>2, ZenonT(30) DEF BypassInv

\* The same, with the flows as they were.
LEMMA Untouched ==
    ASSUME BypassInv, BypassTypes', Serialized',
           UNCHANGED <<endpoints, endpoint, opened, newest, flow>>
    PROVE  BypassInv'
BY FlowsKept, ZenonT(30) DEF BypassInv, FlowsFit

\* Nor does the permit move, or its job.
LEMMA StillSerialized ==
    ASSUME BypassInv, UNCHANGED <<permit, job, newest>>, changes' \in Nat, changes <= changes'
    PROVE  Serialized'
<1>1. newest.stamp \in Nat /\ changes \in Nat /\ newest.stamp <= changes
  BY ZenonT(30) DEF BypassInv, BypassTypes, Serialized
<1>2. newest'.stamp <= changes'
  BY <1>1
<1>3. \A c \in Callers : HasRead(c) => job[c].stamp \in Nat /\ job[c].stamp <= changes'
  BY <1>1 DEF BypassInv, BypassTypes, JobRecord, Serialized
<1>4. QED
  BY <1>2, <1>3, ZenonT(30) DEF BypassInv, Serialized, HasRead

\* Sockets change hands, the default route and the policy change, a grace
\* period ends, endpoints become idle or active.
LEMMA WorldSteps ==
    ASSUME BypassInv,
           \/ \E s \in Sources, o \in Owners : Rebind(s, o)
           \/ \E i \in Interfaces : EgressChanges(i)
           \/ \E o \in Owners : PolicyChanges(o)
           \/ GraceEnds
           \/ \E e \in Ends : GoesIdle(e)
           \/ \E f \in Flows : SendOut(f)
    PROVE  BypassInv'
<1>1. /\ UNCHANGED <<permit, job, newest, endpoints, endpoint, opened, flow>>
      /\ changes' = changes \/ changes' = changes + 1
      /\ egress' = egress \/ egress' \in Interfaces
  BY ZenonT(30) DEF Rebind, EgressChanges, PolicyChanges, GraceEnds, GoesIdle, SendOut, world
<1>2. changes \in Nat /\ table \in [Sources -> Owners]
  BY ZenonT(30) DEF BypassInv, BypassTypes
<1>3. changes' \in Nat /\ changes <= changes'
  BY <1>1, <1>2
<1>4. table' \in [Sources -> Owners]
  BY <1>2, ZenonT(30) DEF Rebind, EgressChanges, PolicyChanges, GraceEnds, GoesIdle, SendOut, world
<1>5. BypassTypes'
  BY <1>1, <1>3, <1>4, ZenonT(30) DEF BypassInv, BypassTypes
<1>6. QED
  BY <1>1, <1>3, <1>5, StillSerialized, Untouched, ZenonT(30)

\* A flow starts: it has a source and a peer.
LEMMA StartStep ==
    ASSUME BypassInv, NEW f \in Flows, NEW s \in Sources, NEW p \in Peers, Start(f, s, p)
    PROVE  BypassInv'
<1>1. /\ UNCHANGED <<table, egress, changes, permit, job, newest, endpoints, endpoint, opened>>
      /\ flow[f] \in FlowRecord /\ flow \in [Flows -> FlowRecord] /\ table[s] \in Owners /\ changes \in Nat
  BY ZenonT(30) DEF Start, world, BypassInv, BypassTypes
<1> DEFINE r == [flow[f] EXCEPT !.pc = "permit", !.source = s, !.peer = p, !.owner = table[s]]
<1>2. r \in FlowRecord /\ r.pc = "permit" /\ r.source = s /\ r.peer = p
  BY <1>1, ZenonT(30) DEF FlowRecord
<1>3. flow' = [flow EXCEPT ![f] = r]
  BY ZenonT(30) DEF Start
<1> HIDE DEF r
<1>4. flow' \in [Flows -> FlowRecord] /\ flow'[f] = r /\ \A g \in Flows : g # f => flow'[g] = flow[g]
  BY <1>1, <1>2, <1>3, ZenonT(30)
<1>5. BypassTypes'
  BY <1>1, <1>4, ZenonT(30) DEF BypassInv, BypassTypes
<1>6. \A g \in Flows :
         /\ flow'[g].pc \in {"permit", "read", "relay"} => flow'[g].source \in Sources /\ flow'[g].peer \in Peers
         /\ flow'[g].pc = "relay" => /\ flow[g].pc = "relay" /\ flow'[g].end = flow[g].end
                                     /\ flow'[g].peer = flow[g].peer
  BY <1>2, <1>4, ZenonT(30) DEF BypassInv, FlowsFit
<1>7. Serialized'
  BY <1>1, StillSerialized
<1>8. QED
  BY <1>1, <1>5, <1>6, <1>7, FlowsKept, ZenonT(30)

\* A flow whose place in the lookup changes keeps its socket and peer.
LEMMA FlowMoves ==
    ASSUME BypassInv, NEW f \in Flows, NEW pc \in {"read", "ended"},
           flow[f].pc \in {"permit", "read"}, flow' = [flow EXCEPT ![f].pc = pc]
    PROVE  /\ flow' \in [Flows -> FlowRecord]
           /\ \A g \in Flows :
                /\ flow'[g].pc \in {"permit", "read", "relay"} => flow'[g].source \in Sources /\ flow'[g].peer \in Peers
                /\ flow'[g].pc = "relay" => /\ flow[g].pc = "relay" /\ flow'[g].end = flow[g].end
                                            /\ flow'[g].peer = flow[g].peer
<1>1. flow \in [Flows -> FlowRecord] /\ flow[f] \in FlowRecord
  BY ZenonT(30) DEF BypassInv, BypassTypes
<1> DEFINE r == [flow[f] EXCEPT !.pc = pc]
<1>2. r \in FlowRecord /\ r.pc = pc /\ r.source = flow[f].source /\ r.peer = flow[f].peer
  BY <1>1, ZenonT(30) DEF FlowRecord
<1>3. flow' = [flow EXCEPT ![f] = r]
  BY ZenonT(30)
<1> HIDE DEF r
<1>4. flow' \in [Flows -> FlowRecord] /\ flow'[f] = r /\ \A g \in Flows : g # f => flow'[g] = flow[g]
  BY <1>1, <1>2, <1>3, ZenonT(30)
<1>5. QED
  BY <1>2, <1>4 DEF BypassInv, FlowsFit

\* The permit is taken, by a caller that then runs its job.
LEMMA AcquireSteps ==
    ASSUME BypassInv, AcquireForMaintain \/ \E f \in Flows : AcquireForOpen(f)
    PROVE  BypassInv'
<1>1. PICK c \in Callers :
         /\ permit = None /\ permit' = c /\ job' = [job EXCEPT ![c].state = "reading"]
         /\ \/ UNCHANGED flow
            \/ c \in Flows /\ flow[c].pc = "permit" /\ flow' = [flow EXCEPT ![c].pc = "read"]
  BY ZenonT(30) DEF AcquireForMaintain, AcquireForOpen, Callers
<1>2. UNCHANGED <<table, egress, changes, newest, endpoints, endpoint, opened>>
  BY ZenonT(30) DEF AcquireForMaintain, AcquireForOpen, world
<1>3. /\ job \in [Callers -> JobRecord] /\ job[c] \in JobRecord /\ c # None
      /\ \A d \in Callers : job[d].state = "none"
  BY <1>1, UdpBypassAssumption DEF BypassInv, BypassTypes, Serialized, Callers
<1> DEFINE r == [job[c] EXCEPT !.state = "reading"]
<1>4. r \in JobRecord /\ r.state = "reading"
  BY <1>3, ZenonT(30) DEF JobRecord
<1>5. job' = [job EXCEPT ![c] = r]
  BY <1>1, ZenonT(30)
<1> HIDE DEF r
<1>6. job' \in [Callers -> JobRecord] /\ job'[c] = r /\ \A d \in Callers : d # c => job'[d] = job[d]
  BY <1>3, <1>4, <1>5, ZenonT(30)
<1>7. Serialized'
  BY <1>1, <1>2, <1>3, <1>4, <1>6, ZenonT(30) DEF BypassInv, Serialized, HasRead
<1>8. CASE UNCHANGED flow
  <2>1. BypassTypes'
    BY <1>1, <1>2, <1>6, <1>8, ZenonT(30) DEF BypassInv, BypassTypes
  <2>2. QED
    BY <1>2, <1>7, <1>8, <2>1, Untouched, ZenonT(30)
<1>9. CASE c \in Flows /\ flow[c].pc = "permit" /\ flow' = [flow EXCEPT ![c].pc = "read"]
  <2>1. BypassTypes'
    BY <1>1, <1>2, <1>6, <1>9, FlowMoves, ZenonT(30) DEF BypassInv, BypassTypes
  <2>2. QED
    BY <1>2, <1>7, <1>9, <2>1, FlowMoves, FlowsKept, ZenonT(30)
<1>10. QED
  BY <1>1, <1>8, <1>9, ZenonT(30)

\* The job reads the table as it is now, and nothing newer has been applied.
LEMMA ReadStep ==
    ASSUME BypassInv, NEW c \in Callers, ReadOwners(c)
    PROVE  BypassInv'
<1>1. PICK state \in {"read", "failed"} :
         job' = [job EXCEPT ![c] = [state |-> state, owners |-> table, stamp |-> changes]]
  BY ZenonT(30) DEF ReadOwners
<1>2. UNCHANGED <<table, egress, changes, permit, newest, endpoints, endpoint, opened, flow>>
  BY ZenonT(30) DEF ReadOwners, world
<1>3. /\ job \in [Callers -> JobRecord] /\ table \in [Sources -> Owners] /\ changes \in Nat
      /\ newest.stamp <= changes /\ permit = c
  BY ZenonT(30) DEF BypassInv, BypassTypes, Serialized, ReadOwners
<1> DEFINE r == [state |-> state, owners |-> table, stamp |-> changes]
<1>4. r \in JobRecord /\ r.state # "none" /\ r.stamp = changes
  BY <1>3, ZenonT(30) DEF JobRecord
<1>5. job' = [job EXCEPT ![c] = r]
  BY <1>1, ZenonT(30)
<1> HIDE DEF r
<1>6. job' \in [Callers -> JobRecord] /\ job'[c] = r /\ \A d \in Callers : d # c => job'[d] = job[d]
  BY <1>3, <1>4, <1>5, ZenonT(30)
<1>7. Serialized'
  BY <1>2, <1>3, <1>4, <1>6 DEF BypassInv, Serialized, HasRead
<1>8. BypassTypes'
  BY <1>2, <1>6, ZenonT(30) DEF BypassInv, BypassTypes
<1>9. QED
  BY <1>2, <1>7, <1>8, Untouched, ZenonT(30)

\* The permit comes back with the end of its caller's job.
LEMMA Returned ==
    ASSUME BypassInv, NEW c \in Callers, permit = c, Return(c)
    PROVE  /\ permit' = None /\ job' \in [Callers -> JobRecord]
           /\ \A d \in Callers : (permit' = d) <=> (job'[d].state # "none")
           /\ \A d \in Callers : job'[d].state = "none"
<1>1. NoJob \in JobRecord /\ NoJob.state = "none"
  BY ZenonT(30) DEF NoJob, JobRecord
<1>2. /\ job \in [Callers -> JobRecord] /\ job' = [job EXCEPT ![c] = NoJob] /\ permit' = None
      /\ \A d \in Callers : d # c => job[d].state = "none"
      /\ \A d \in Callers : d # None
  BY UdpBypassAssumption DEF BypassInv, BypassTypes, Serialized, Return, Callers
<1>3. job' \in [Callers -> JobRecord] /\ \A d \in Callers : job'[d] = IF d = c THEN NoJob ELSE job[d]
  BY <1>1, <1>2, ZenonT(30)
<1>4. QED
  BY <1>1, <1>2, <1>3, ZenonT(30)

\* A flow that is dropped while it waits, and the end of the job it leaves.
LEMMA CancelSteps ==
    ASSUME BypassInv, (\E f \in Flows : CancelOpen(f)) \/ (\E c \in Callers : OrphanEnds(c))
    PROVE  BypassInv'
<1>1. UNCHANGED <<table, egress, changes, newest, endpoints, endpoint, opened>>
  BY ZenonT(30) DEF CancelOpen, OrphanEnds, world
<1>2. ASSUME NEW c \in Callers, OrphanEnds(c)
      PROVE  BypassInv'
  <2>1. permit = c /\ Return(c) /\ UNCHANGED flow
    BY <1>2, ZenonT(30) DEF OrphanEnds, Return, BypassInv, Serialized
  <2>2. BypassTypes' /\ Serialized'
    BY <1>1, <2>1, Returned, ZenonT(30) DEF BypassInv, BypassTypes, Serialized, HasRead
  <2>3. QED
    BY <1>1, <2>1, <2>2, Untouched, ZenonT(30)
<1>3. ASSUME NEW f \in Flows, CancelOpen(f)
      PROVE  BypassInv'
  <2>1. flow[f].pc \in {"permit", "read"} /\ flow' = [flow EXCEPT ![f].pc = "ended"] /\ f \in Callers
    BY <1>3, ZenonT(30) DEF CancelOpen, Callers
  <2>2. /\ permit' \in Callers \cup {None} /\ job' \in [Callers -> JobRecord] /\ Serialized'
    <3>1. CASE job[f].state = "none"
      <4>1. UNCHANGED <<permit, job>>
        BY <1>3, <3>1, ZenonT(30) DEF CancelOpen
      <4>2. QED
        BY <1>1, <4>1, ZenonT(30) DEF BypassInv, BypassTypes, Serialized, HasRead
    <3>2. CASE job[f].state = "reading"
      <4>1. /\ UNCHANGED permit /\ job' = [job EXCEPT ![f].state = "orphan"]
            /\ job \in [Callers -> JobRecord] /\ job[f] \in JobRecord
        BY <1>3, <2>1, <3>2, ZenonT(30) DEF CancelOpen, BypassInv, BypassTypes
      <4> DEFINE r == [job[f] EXCEPT !.state = "orphan"]
      <4>2. r \in JobRecord /\ r.state = "orphan" /\ job' = [job EXCEPT ![f] = r]
        BY <4>1, ZenonT(30) DEF JobRecord
      <4> HIDE DEF r
      <4>3. job' \in [Callers -> JobRecord] /\ job'[f] = r /\ \A d \in Callers : d # f => job'[d] = job[d]
        BY <2>1, <4>1, <4>2, ZenonT(30)
      <4>4. QED
        BY <1>1, <2>1, <3>2, <4>1, <4>2, <4>3, ZenonT(30) DEF BypassInv, BypassTypes, Serialized, HasRead
    <3>3. CASE job[f].state \notin {"none", "reading"}
      <4>1. permit = f /\ Return(f)
        BY <1>3, <2>1, <3>3, ZenonT(30) DEF CancelOpen, Return, BypassInv, Serialized
      <4>2. QED
        BY <1>1, <2>1, <4>1, Returned, ZenonT(30) DEF BypassInv, Serialized, HasRead
    <3>4. QED
      BY <3>1, <3>2, <3>3, ZenonT(30)
  <2>3. BypassTypes'
    BY <1>1, <2>1, <2>2, FlowMoves, ZenonT(30) DEF BypassInv, BypassTypes
  <2>4. QED
    BY <1>1, <2>1, <2>2, <2>3, FlowMoves, FlowsKept, ZenonT(30)
<1>4. QED
  BY <1>2, <1>3, ZenonT(30)

\* An endpoint retired by a caller that has read the owners is closed and keeps
\* its identity; one that has flows is not retired for idleness, and what stays
\* in the pool is live and of the owner that was read.
LEMMA RetiredEnds ==
    ASSUME BypassInv, NEW c \in Callers
    PROVE  /\ Maintained(RetiredBy(c)) \in [Ends -> EndRecord]
           /\ Remaining(RetiredBy(c)) \in [Sources -> 0 .. MaxEndpoints]
           /\ \A e \in Ends :
                LET r == Maintained(RetiredBy(c))[e]
                IN  /\ r.source = endpoint[e].source
                    /\ r.closed <=> endpoint[e].closed \/ e \in RetiredBy(c)
                    /\ r.closed => r.routes = NoRoutes
                    /\ ~ r.closed => r = endpoint[e]
                    /\ r.why = "idle" => endpoint[e].why = "idle" \/ endpoint[e].routes = NoRoutes
           /\ \A s \in Sources :
                Remaining(RetiredBy(c))[s] = IF endpoints[s] \in RetiredBy(c) THEN 0 ELSE endpoints[s]
           /\ \A e \in Pooled \ RetiredBy(c) :
                /\ ~ endpoint[e].closed
                /\ job[c].state = "read" => job[c].owners[endpoint[e].source] = endpoint[e].owner
<1> DEFINE R == RetiredBy(c)
           m == Maintained(R)
<1>0. MaxEndpoints \in Nat
  BY UdpBypassAssumption, ZenonT(30)
<1>1. /\ endpoint \in [Ends -> EndRecord] /\ endpoints \in [Sources -> 0 .. MaxEndpoints]
      /\ NoRoutes \in [Peers -> Flows \cup {None}]
      /\ \A e \in Ends : endpoint[e].closed => endpoint[e].routes = NoRoutes
  BY ZenonT(30) DEF BypassInv, BypassTypes, PoolFits, NoRoutes
<1>2. Remaining(R) \in [Sources -> 0 .. MaxEndpoints]
  BY <1>0, <1>1 DEF Remaining
<1>3. \A s \in Sources : Remaining(R)[s] = IF endpoints[s] \in R THEN 0 ELSE endpoints[s]
  BY ZenonT(30) DEF Remaining
<1>4. \A e \in Pooled \ R :
         /\ ~ endpoint[e].closed
         /\ job[c].state = "read" => job[c].owners[endpoint[e].source] = endpoint[e].owner
  BY ZenonT(30) DEF RetiredBy, Retired, Expired, FailingAfter
<1> HIDE DEF R
<1>5. ASSUME NEW e \in Ends
      PROVE  /\ m[e] \in EndRecord /\ m[e].source = endpoint[e].source
             /\ m[e].closed <=> endpoint[e].closed \/ e \in R
             /\ m[e].closed => m[e].routes = NoRoutes
             /\ ~ m[e].closed => m[e] = endpoint[e]
             /\ m[e].why = "idle" => endpoint[e].why = "idle" \/ endpoint[e].routes = NoRoutes
  <2>1. endpoint[e] \in EndRecord
    BY <1>1, ZenonT(30)
  <2>2. CASE e \notin R \/ endpoint[e].closed
    <3>1. m[e] = endpoint[e]
      BY <2>2, ZenonT(30) DEF Maintained, Closed
    <3>2. QED
      BY <1>1, <2>1, <2>2, <3>1, ZenonT(30)
  <2>3. CASE e \in R /\ ~ endpoint[e].closed
    <3>1. m[e] = [endpoint[e] EXCEPT !.closed = TRUE, !.why = Reason(e), !.routes = NoRoutes]
      BY <2>3, ZenonT(30) DEF Maintained, Closed
    <3>2. Reason(e) \in {"idle", "changed"} /\ (Reason(e) = "idle" => endpoint[e].routes = NoRoutes)
      BY <2>3, ZenonT(30) DEF Reason, Expired
    <3>3. /\ m[e] \in EndRecord /\ m[e].source = endpoint[e].source
          /\ m[e].closed /\ m[e].routes = NoRoutes /\ m[e].why = Reason(e)
      BY <1>1, <2>1, <3>1, <3>2, ZenonT(30) DEF EndRecord
    <3>4. QED
      BY <2>3, <3>2, <3>3, ZenonT(30)
  <2>4. QED
    BY <2>2, <2>3, ZenonT(30)
<1>6. m \in [Ends -> EndRecord]
  BY <1>5, ZenonT(30) DEF Maintained
<1>7. QED
  BY <1>2, <1>3, <1>4, <1>5, <1>6, ZenonT(30) DEF R

\* What a caller applies is not older than what was applied before.
LEMMA Settled ==
    ASSUME BypassInv, NEW c \in Callers, HasRead(c), Applied(c), Return(c), UNCHANGED world
    PROVE  /\ newest' \in [owners : [Sources -> Owners \cup {None}], stamp : Nat]
           /\ job[c].state = "read" => newest'.owners = job[c].owners
           /\ job[c].state # "read" => newest' = newest
           /\ permit' \in Callers \cup {None} /\ job' \in [Callers -> JobRecord]
           /\ Serialized'
<1>1. permit = c
  BY ZenonT(30) DEF BypassInv, Serialized, HasRead
<1>2. /\ permit' = None /\ job' \in [Callers -> JobRecord]
      /\ \A d \in Callers : (permit' = d) <=> (job'[d].state # "none")
      /\ \A d \in Callers : job'[d].state = "none"
  BY <1>1, Returned, ZenonT(30)
<1>3. /\ job[c] \in JobRecord /\ newest.stamp <= job[c].stamp /\ job[c].stamp <= changes
      /\ newest \in [owners : [Sources -> Owners \cup {None}], stamp : Nat] /\ newest.stamp <= changes
  BY ZenonT(30) DEF BypassInv, BypassTypes, Serialized
<1>4. job[c].stamp \in Nat /\ newest.stamp \in Nat /\ job[c].owners \in [Sources -> Owners \cup {None}]
  BY <1>3, ZenonT(30) DEF JobRecord
<1>5. CASE job[c].state = "read"
  <2>1. newest' = [owners |-> job[c].owners, stamp |-> job[c].stamp]
    BY <1>3, <1>4, <1>5, ZenonT(30) DEF Applied
  <2>2. newest'.owners = job[c].owners /\ newest'.stamp <= changes'
    BY <1>3, <2>1, ZenonT(30) DEF world
  <2>3. newest' \in [owners : [Sources -> Owners \cup {None}], stamp : Nat]
    BY <1>4, <2>1, ZenonT(30)
  <2>4. QED
    BY <1>2, <1>5, <2>2, <2>3, ZenonT(30) DEF Serialized, HasRead
<1>6. CASE job[c].state # "read"
  <2>1. newest' = newest /\ changes' = changes
    BY <1>6, ZenonT(30) DEF Applied, world
  <2>2. QED
    BY <1>2, <1>3, <1>6, <2>1, ZenonT(30) DEF Serialized, HasRead
<1>7. QED
  BY <1>5, <1>6, ZenonT(30)

\* What maintain_with leaves of the pool is live and of the newest table's
\* owners, and the flows are as they should on it.
LEMMA MaintainedFits ==
    ASSUME BypassInv, NEW c \in Callers, HasRead(c), Applied(c), Return(c), UNCHANGED world
    PROVE  LET ends == Maintained(RetiredBy(c))
               pool == Remaining(RetiredBy(c))
           IN  /\ ends \in [Ends -> EndRecord] /\ pool \in [Sources -> 0 .. MaxEndpoints]
               /\ PoolFits(ends, pool, opened, newest'.owners)
               /\ FlowsFit(ends, opened)
               /\ \A s \in Sources : pool[s] # 0 => ~ ends[pool[s]].closed
<1> DEFINE R == RetiredBy(c)
           ends == Maintained(R)
           pool == Remaining(R)
<1>0. /\ MaxEndpoints \in Nat /\ Limit \in Nat /\ IsFiniteSet(Sources) /\ None \notin Flows
  BY UdpBypassAssumption, ZenonT(30)
<1>1. /\ ends \in [Ends -> EndRecord] /\ pool \in [Sources -> 0 .. MaxEndpoints]
      /\ \A e \in Ends : /\ ends[e].source = endpoint[e].source
                         /\ ends[e].closed <=> endpoint[e].closed \/ e \in R
                         /\ ends[e].closed => ends[e].routes = NoRoutes
                         /\ ~ ends[e].closed => ends[e] = endpoint[e]
                         /\ ends[e].why = "idle" => endpoint[e].why = "idle" \/ endpoint[e].routes = NoRoutes
      /\ \A s \in Sources : pool[s] = IF endpoints[s] \in R THEN 0 ELSE endpoints[s]
      /\ \A e \in Pooled \ R :
            /\ ~ endpoint[e].closed
            /\ job[c].state = "read" => job[c].owners[endpoint[e].source] = endpoint[e].owner
  BY RetiredEnds, ZenonT(30)
<1>2. /\ job[c].state = "read" => newest'.owners = job[c].owners
      /\ job[c].state # "read" => newest' = newest
  BY Settled, ZenonT(30)
<1> HIDE DEF R, ends, pool
<1>3. /\ endpoints \in [Sources -> 0 .. MaxEndpoints] /\ opened \in 0 .. MaxEndpoints
      /\ PoolFits(endpoint, endpoints, opened, newest.owners) /\ FlowsFit(endpoint, opened)
  BY ZenonT(30) DEF BypassInv, BypassTypes
<1>4. \A s \in Sources : pool[s] # 0 =>
         /\ pool[s] = endpoints[s] /\ pool[s] \in Pooled \ R /\ pool[s] \in Ends
         /\ pool[s] \in 1 .. opened /\ ends[pool[s]].source = s /\ ~ ends[pool[s]].closed
  BY <1>0, <1>1, <1>3 DEF PoolFits, Pooled, Ends
<1>5. \A e \in Ends :
         ~ ends[e].closed => /\ e <= opened /\ ends[e].source \in Sources /\ ends[e].why = "open"
                             /\ pool[ends[e].source] = e
                             /\ newest'.owners[ends[e].source] = ends[e].owner
  <2> SUFFICES ASSUME NEW e \in Ends, ~ ends[e].closed
               PROVE  /\ e <= opened /\ ends[e].source \in Sources /\ ends[e].why = "open"
                      /\ pool[ends[e].source] = e
                      /\ newest'.owners[ends[e].source] = ends[e].owner
    BY ZenonT(30)
  <2>1. ends[e] = endpoint[e] /\ e \notin R /\ ~ endpoint[e].closed /\ e # 0
    BY <1>1 DEF Ends
  <2>2. /\ e <= opened /\ endpoint[e].source \in Sources /\ endpoint[e].why = "open"
        /\ endpoints[endpoint[e].source] = e /\ newest.owners[endpoint[e].source] = endpoint[e].owner
    BY <1>3, <2>1, ZenonT(30) DEF PoolFits
  <2>3. e \in Pooled \ R /\ pool[endpoint[e].source] = e
    BY <1>1, <2>1, <2>2 DEF Pooled
  <2>4. newest'.owners[endpoint[e].source] = endpoint[e].owner
    BY <1>1, <1>2, <2>2, <2>3
  <2>5. QED
    BY <2>1, <2>2, <2>3, <2>4, ZenonT(30)
<1> DEFINE before == {s \in Sources : endpoints[s] # 0}
           after == {s \in Sources : pool[s] # 0}
<1>6. after \subseteq before /\ before \subseteq Sources
  BY <1>4, ZenonT(30)
<1>7. Cardinality(before) <= Limit
  BY <1>3, ZenonT(30) DEF PoolFits
<1> HIDE DEF before, after
<1>8. Cardinality(after) \in Nat /\ Cardinality(before) \in Nat /\ Cardinality(after) <= Cardinality(before)
  BY <1>0, <1>6, FS_Subset, FS_CardinalityType, ZenonT(30)
<1>9. Cardinality(after) <= Limit
  BY <1>0, <1>7, <1>8
<1>10. PoolFits(ends, pool, opened, newest'.owners)
  BY <1>1, <1>4, <1>5, <1>9, ZenonT(30) DEF PoolFits, after
<1>11. FlowsFit(ends, opened)
  <2> SUFFICES ASSUME NEW f \in Flows, flow[f].pc = "relay"
               PROVE  /\ flow[f].end \in 1 .. opened /\ ends[flow[f].end].why # "idle"
                      /\ ends[flow[f].end].closed \/ ends[flow[f].end].routes[flow[f].peer] = f
    BY <1>3, ZenonT(30) DEF FlowsFit
  <2>1. /\ flow[f].end \in 1 .. opened /\ endpoint[flow[f].end].why # "idle" /\ flow[f].peer \in Peers
        /\ endpoint[flow[f].end].closed \/ endpoint[flow[f].end].routes[flow[f].peer] = f
    BY <1>3, ZenonT(30) DEF FlowsFit
  <2>2. flow[f].end \in Ends
    BY <1>0, <1>3, <2>1 DEF Ends
  <2>3. ends[flow[f].end].closed \/ ends[flow[f].end].routes[flow[f].peer] = f
    BY <1>1, <2>1, <2>2, ZenonT(30)
  <2>4. CASE endpoint[flow[f].end].closed
    <3>1. ends[flow[f].end] = endpoint[flow[f].end]
      BY <2>2, <2>4, ZenonT(30) DEF ends, Maintained, Closed
    <3>2. QED
      BY <2>1, <2>3, <3>1, ZenonT(30)
  <2>5. CASE ~ endpoint[flow[f].end].closed
    <3>1. endpoint[flow[f].end].routes # NoRoutes
      BY <1>0, <2>1, <2>5, ZenonT(30) DEF NoRoutes
    <3>2. QED
      BY <1>1, <2>1, <2>2, <2>3, <3>1, ZenonT(30)
  <2>6. QED
    BY <2>4, <2>5, ZenonT(30)
<1>12. QED
  BY <1>1, <1>4, <1>10, <1>11, ZenonT(30) DEF R, ends, pool

\* The invariant after a caller applied what it read, from the pool it leaves.
LEMMA AppliedFits ==
    ASSUME BypassInv, NEW c \in Callers, HasRead(c), Applied(c), Return(c), UNCHANGED world,
           endpoint' \in [Ends -> EndRecord], endpoints' \in [Sources -> 0 .. MaxEndpoints],
           opened' \in 0 .. MaxEndpoints, flow' \in [Flows -> FlowRecord],
           PoolFits(endpoint, endpoints, opened, newest.owners)', FlowsFit(endpoint, opened)'
    PROVE  BypassInv'
<1>1. BypassTypes'
  BY Settled, ZenonT(30) DEF BypassInv, BypassTypes, world
<1>2. QED
  BY <1>1, Settled, ZenonT(30) DEF BypassInv

\* The periodic maintenance.
LEMMA MaintainStep == BypassInv /\ Maintain => BypassInv'
<1> SUFFICES ASSUME BypassInv, Maintain
             PROVE  BypassInv'
  BY ZenonT(30)
<1>1. /\ "maintain" \in Callers /\ HasRead("maintain") /\ Applied("maintain") /\ Return("maintain")
      /\ UNCHANGED world /\ opened' = opened /\ flow' = flow
      /\ endpoint' = Maintained(RetiredBy("maintain")) /\ endpoints' = Remaining(RetiredBy("maintain"))
  BY ZenonT(30) DEF Maintain, Callers
<1>2. /\ endpoint' \in [Ends -> EndRecord] /\ endpoints' \in [Sources -> 0 .. MaxEndpoints]
      /\ PoolFits(endpoint', endpoints', opened, newest'.owners)
      /\ FlowsFit(endpoint', opened)
  BY <1>1, MaintainedFits, ZenonT(30)
<1>3. opened \in 0 .. MaxEndpoints /\ flow \in [Flows -> FlowRecord]
  BY ZenonT(30) DEF BypassInv, BypassTypes
<1>4. PoolFits(endpoint, endpoints, opened, newest.owners)' /\ FlowsFit(endpoint, opened)'
  BY <1>1, <1>2, ZenonT(30) DEF PoolFits, FlowsFit
<1>5. QED
  BY <1>1, <1>2, <1>3, <1>4, AppliedFits, ZenonT(30)

\* A flow that is not opened leaves the others on their endpoints.
LEMMA FailsFits ==
    ASSUME BypassInv, NEW f \in Flows, flow[f].pc = "read", OpenFails(f),
           FlowsFit(endpoint', opened')
    PROVE  flow' \in [Flows -> FlowRecord] /\ FlowsFit(endpoint, opened)'
<1>1. /\ flow' \in [Flows -> FlowRecord]
      /\ \A g \in Flows :
           /\ flow'[g].pc \in {"permit", "read", "relay"} => flow'[g].source \in Sources /\ flow'[g].peer \in Peers
           /\ flow'[g].pc = "relay" => /\ flow[g].pc = "relay" /\ flow'[g].end = flow[g].end
                                       /\ flow'[g].peer = flow[g].peer
  BY FlowMoves, ZenonT(30) DEF OpenFails
<1>2. QED
  BY <1>1, ZenonT(30) DEF FlowsFit

\* A flow that joins a live endpoint takes a route no other flow has.
LEMMA RegisterFits ==
    ASSUME BypassInv, NEW f \in Flows, flow[f].pc = "read",
           NEW ends \in [Ends -> EndRecord], NEW n \in 0 .. MaxEndpoints, NEW e \in 1 .. n,
           opened' = n, PoolFits(ends, endpoints', n, newest'.owners), FlowsFit(ends, n),
           ~ ends[e].closed, Register(f, ends, e)
    PROVE  /\ endpoint' \in [Ends -> EndRecord] /\ flow' \in [Flows -> FlowRecord]
           /\ PoolFits(endpoint, endpoints, opened, newest.owners)' /\ FlowsFit(endpoint, opened)'
<1>0. MaxEndpoints \in Nat /\ e \in Ends /\ None \notin Flows /\ e \in 0 .. MaxEndpoints
  BY UdpBypassAssumption DEF Ends
<1>1. /\ flow \in [Flows -> FlowRecord] /\ flow[f] \in FlowRecord
      /\ flow[f].source \in Sources /\ flow[f].peer \in Peers
      /\ ends[e] \in EndRecord /\ ends[e].routes \in [Peers -> Flows \cup {None}] /\ ends[e].why = "open"
  BY <1>0, ZenonT(30) DEF BypassInv, BypassTypes, FlowsFit, EndRecord, PoolFits
<1>2. CASE ends[e].routes[flow[f].peer] # None
  <2>1. OpenFails(f) /\ endpoint' = ends
    BY <1>2, ZenonT(30) DEF Register
  <2>2. PoolFits(endpoint, endpoints, opened, newest.owners)'
    BY <2>1, ZenonT(30) DEF PoolFits
  <2>3. QED
    BY <2>1, <2>2, FailsFits, ZenonT(30)
<1>3. CASE ends[e].routes[flow[f].peer] = None
  <2> DEFINE r == [flow[f] EXCEPT !.pc = "relay", !.end = e]
             d == [ends[e] EXCEPT !.routes = [ends[e].routes EXCEPT ![flow[f].peer] = f]]
  <2>1. /\ r \in FlowRecord /\ r.pc = "relay" /\ r.end = e
        /\ r.source = flow[f].source /\ r.peer = flow[f].peer
    BY <1>0, <1>1, ZenonT(30) DEF FlowRecord
  <2>2. /\ d \in EndRecord /\ d.source = ends[e].source /\ d.owner = ends[e].owner
        /\ d.closed = ends[e].closed /\ d.why = ends[e].why
        /\ d.routes[flow[f].peer] = f
        /\ \A p \in Peers : p # flow[f].peer => d.routes[p] = ends[e].routes[p]
    BY <1>1, ZenonT(30) DEF EndRecord
  <2>3. flow' = [flow EXCEPT ![f] = r] /\ endpoint' = [ends EXCEPT ![e] = d]
    BY <1>3, ZenonT(30) DEF Register
  <2> HIDE DEF r, d
  <2>4. /\ flow' \in [Flows -> FlowRecord] /\ flow'[f] = r /\ \A g \in Flows : g # f => flow'[g] = flow[g]
        /\ endpoint' \in [Ends -> EndRecord] /\ endpoint'[e] = d /\ \A x \in Ends : x # e => endpoint'[x] = ends[x]
    BY <1>0, <1>1, <2>1, <2>2, <2>3, ZenonT(30)
  <2>5. \A x \in Ends : /\ endpoint'[x].source = ends[x].source /\ endpoint'[x].owner = ends[x].owner
                        /\ endpoint'[x].closed = ends[x].closed /\ endpoint'[x].why = ends[x].why
                        /\ endpoint'[x].closed => endpoint'[x].routes = ends[x].routes
    BY <2>2, <2>4, ZenonT(30)
  <2>6. \A s \in Sources : endpoints'[s] # 0 => endpoints'[s] \in Ends
    BY <1>0 DEF PoolFits, Ends
  <2>7. PoolFits(endpoint, endpoints, opened, newest.owners)'
    BY <2>5, <2>6 DEF PoolFits
  <2>8. FlowsFit(endpoint, opened)'
    <3> SUFFICES ASSUME NEW g \in Flows
                 PROVE  /\ flow'[g].pc \in {"permit", "read", "relay"} =>
                              flow'[g].source \in Sources /\ flow'[g].peer \in Peers
                        /\ flow'[g].pc = "relay" =>
                              /\ flow'[g].end \in 1 .. n /\ endpoint'[flow'[g].end].why # "idle"
                              /\ endpoint'[flow'[g].end].closed \/ endpoint'[flow'[g].end].routes[flow'[g].peer] = g
      BY ZenonT(30) DEF FlowsFit
    <3>1. CASE g = f
      BY <1>1, <2>1, <2>2, <2>4, <3>1, ZenonT(30)
    <3>2. CASE g # f
      <4>1. flow'[g] = flow[g]
        BY <2>4, <3>2, ZenonT(30)
      <4>2. flow[g].pc = "relay" =>
              /\ flow[g].end \in 1 .. n /\ flow[g].end \in Ends /\ ends[flow[g].end].why # "idle"
              /\ ends[flow[g].end].closed \/ ends[flow[g].end].routes[flow[g].peer] = g
              /\ flow[g].peer \in Peers
        BY <1>0 DEF FlowsFit, Ends
      <4>3. g # None
        BY <1>0, ZenonT(30)
      <4>4. flow[g].pc = "relay" =>
              endpoint'[flow[g].end].closed \/ endpoint'[flow[g].end].routes[flow[g].peer] = g
        BY <1>3, <2>2, <2>4, <4>2, <4>3, ZenonT(30)
      <4>5. QED
        BY <2>5, <4>1, <4>2, <4>4, ZenonT(30) DEF FlowsFit
    <3>3. QED
      BY <3>1, <3>2, ZenonT(30)
  <2>9. QED
    BY <2>4, <2>7, <2>8, ZenonT(30)
<1>4. QED
  BY <1>2, <1>3, ZenonT(30)

(* The pool and the endpoints without the evicted one, and with a new one. *)
Rest(pool, old) == [t \in Sources |-> IF pool[t] = old THEN 0 ELSE pool[t]]

Shut(ends, old) ==
    IF old = 0 THEN ends
    ELSE [ends EXCEPT ![old].closed = TRUE, ![old].why = "idle", ![old].routes = NoRoutes]

More(f, ends) == [ends EXCEPT ![opened + 1] = NewEndpoint(f)]

Filled(f, pool) == [pool EXCEPT ![flow[f].source] = opened + 1]

\* Room for one more endpoint: there was some, or an endpoint without flows is
\* closed and leaves the pool.
LEMMA RoomFits ==
    ASSUME BypassInv, NEW ends \in [Ends -> EndRecord], NEW pool \in [Sources -> 0 .. MaxEndpoints],
           NEW owners, PoolFits(ends, pool, opened, owners), FlowsFit(ends, opened),
           \A s \in Sources : pool[s] # 0 => ~ ends[pool[s]].closed,
           NEW old \in IF Full(pool) THEN Evictable(ends, pool) ELSE {0}
    PROVE  /\ Rest(pool, old) \in [Sources -> 0 .. MaxEndpoints] /\ Shut(ends, old) \in [Ends -> EndRecord]
           /\ PoolFits(Shut(ends, old), Rest(pool, old), opened, owners) /\ FlowsFit(Shut(ends, old), opened)
           /\ Cardinality({s \in Sources : Rest(pool, old)[s] # 0}) < Limit
           /\ \A s \in Sources : pool[s] = 0 => Rest(pool, old)[s] = 0
<1> DEFINE rest == Rest(pool, old)
           shut == Shut(ends, old)
           before == {s \in Sources : pool[s] # 0}
           after == {s \in Sources : rest[s] # 0}
<1>0. /\ MaxEndpoints \in Nat /\ Limit \in Nat /\ IsFiniteSet(Sources) /\ None \notin Flows
      /\ opened \in 0 .. MaxEndpoints
  BY UdpBypassAssumption, ZenonT(30) DEF BypassInv, BypassTypes
<1>1. rest \in [Sources -> 0 .. MaxEndpoints] /\ \A s \in Sources : rest[s] = IF pool[s] = old THEN 0 ELSE pool[s]
  BY <1>0 DEF Rest
<1>2. Cardinality(before) <= Limit /\ before \subseteq Sources /\ after \subseteq before
  BY <1>1, ZenonT(30) DEF PoolFits
<1>3. Full(pool) <=> Cardinality(before) >= Limit
  BY ZenonT(30) DEF Full
<1> HIDE DEF rest, before, after
<1>4. /\ Cardinality(after) \in Nat /\ Cardinality(before) \in Nat /\ Cardinality(after) <= Cardinality(before)
      /\ Cardinality(after) = Cardinality(before) => after = before
  BY <1>0, <1>2, FS_Subset, FS_CardinalityType, ZenonT(30)
<1>5. CASE old = 0
  <2>1. ~ Full(pool)
    BY <1>5, ZenonT(30) DEF Evictable
  <2>2. Cardinality(after) < Limit
    BY <1>0, <1>3, <1>4, <2>1
  <2>3. rest = pool /\ shut = ends
    BY <1>1, <1>5 DEF Shut
  <2>4. QED
    BY <1>1, <2>2, <2>3, ZenonT(30) DEF rest, after
<1>6. CASE old # 0
  <2>1. old \in Evictable(ends, pool)
    BY <1>6, ZenonT(30)
  <2>2. PICK t \in Sources : pool[t] = old
    BY <2>1, ZenonT(30) DEF Evictable
  <2>3. old \in Ends /\ ends[old].routes = NoRoutes /\ ~ ends[old].closed /\ ends[old] \in EndRecord
    BY <1>0, <1>6, <2>1, <2>2 DEF Evictable, Ends
  <2>4. t \in before /\ t \notin after
    BY <1>1, <1>6, <2>2, ZenonT(30) DEF before, after
  <2>5. Cardinality(after) < Limit /\ Cardinality(after) <= Limit
    BY <1>0, <1>2, <1>4, <2>4
  <2> DEFINE r == [ends[old] EXCEPT !.closed = TRUE, !.why = "idle", !.routes = NoRoutes]
  <2>6. NoRoutes \in [Peers -> Flows \cup {None}]
    BY ZenonT(30) DEF NoRoutes
  <2>7. r \in EndRecord /\ r.closed /\ r.source = ends[old].source /\ r.routes = NoRoutes
    BY <2>3, <2>6, ZenonT(30) DEF EndRecord
  <2>8. shut = [ends EXCEPT ![old] = r]
    BY <1>6, ZenonT(30) DEF Shut
  <2> HIDE DEF r, shut
  <2>9. /\ shut \in [Ends -> EndRecord] /\ shut[old] = r /\ \A e \in Ends : e # old => shut[e] = ends[e]
    BY <2>3, <2>7, <2>8, ZenonT(30)
  <2>10. \A s \in Sources : rest[s] # 0 => rest[s] = pool[s] /\ rest[s] # old /\ rest[s] \in Ends
    BY <1>0, <1>1 DEF Ends
  <2>11. \A s \in Sources : rest[s] # 0 => rest[s] \in 1 .. opened /\ shut[rest[s]].source = s
    BY <2>9, <2>10 DEF PoolFits
  <2>12. \A e \in Ends :
          ~ shut[e].closed => /\ e <= opened /\ shut[e].source \in Sources /\ shut[e].why = "open"
                              /\ rest[shut[e].source] = e
                              /\ owners[shut[e].source] = shut[e].owner
    BY <1>1, <2>7, <2>9 DEF PoolFits
  <2>13. \A e \in Ends : shut[e].closed => shut[e].routes = NoRoutes
    BY <2>7, <2>9 DEF PoolFits
  <2>14. PoolFits(shut, rest, opened, owners)
    BY <2>5, <2>11, <2>12, <2>13, ZenonT(30) DEF PoolFits, after
  <2>15. \A f \in Flows : flow[f].pc = "relay" =>
            flow[f].end # old /\ flow[f].end \in Ends /\ shut[flow[f].end] = ends[flow[f].end]
    <3> SUFFICES ASSUME NEW f \in Flows, flow[f].pc = "relay"
                 PROVE  flow[f].end # old /\ flow[f].end \in Ends /\ shut[flow[f].end] = ends[flow[f].end]
      BY ZenonT(30)
    <3>1. /\ flow[f].end \in 1 .. opened /\ flow[f].peer \in Peers
          /\ ends[flow[f].end].closed \/ ends[flow[f].end].routes[flow[f].peer] = f
      BY ZenonT(30) DEF FlowsFit
    <3>2. flow[f].end # old
      BY <1>0, <2>3, <3>1, ZenonT(30) DEF NoRoutes
    <3>3. flow[f].end \in Ends
      BY <1>0, <3>1 DEF Ends
    <3>4. QED
      BY <2>9, <3>2, <3>3, ZenonT(30)
  <2>16. FlowsFit(shut, opened)
    BY <2>15, ZenonT(30) DEF FlowsFit
  <2>17. QED
    BY <1>1, <2>5, <2>9, <2>14, <2>16, ZenonT(30) DEF rest, shut, after
<1>7. QED
  BY <1>5, <1>6, ZenonT(30)

\* A new endpoint takes its source's empty place in the pool.
LEMMA NewFits ==
    ASSUME BypassInv, NEW f \in Flows, flow[f].pc = "read", opened + 1 <= MaxEndpoints,
           NEW ends \in [Ends -> EndRecord], NEW pool \in [Sources -> 0 .. MaxEndpoints],
           NEW owners, PoolFits(ends, pool, opened, owners), FlowsFit(ends, opened),
           Cardinality({s \in Sources : pool[s] # 0}) < Limit,
           pool[flow[f].source] = 0, owners[flow[f].source] = flow[f].owner
    PROVE  /\ More(f, ends) \in [Ends -> EndRecord] /\ Filled(f, pool) \in [Sources -> 0 .. MaxEndpoints]
           /\ PoolFits(More(f, ends), Filled(f, pool), opened + 1, owners) /\ FlowsFit(More(f, ends), opened + 1)
           /\ opened + 1 \in 1 .. opened + 1 /\ opened + 1 \in 0 .. MaxEndpoints
           /\ ~ More(f, ends)[opened + 1].closed
<1> DEFINE e == opened + 1
           s == flow[f].source
           more == More(f, ends)
           full == Filled(f, pool)
           before == {t \in Sources : pool[t] # 0}
           after == {t \in Sources : full[t] # 0}
<1>0. /\ MaxEndpoints \in Nat /\ Limit \in Nat /\ IsFiniteSet(Sources) /\ None \notin Flows
      /\ opened \in 0 .. MaxEndpoints
  BY UdpBypassAssumption, ZenonT(30) DEF BypassInv, BypassTypes
<1>1. e \in Ends /\ e \in 1 .. e /\ e \in 0 .. MaxEndpoints /\ e # 0 /\ ~ (e <= opened) /\ e \in Nat
  <2>1. opened \in Nat
    BY <1>0, Below, Zenon
  <2>2. QED
    BY <1>0, <2>1, NextNumber, Zenon DEF Ends
<1>2. /\ s \in Sources /\ flow[f] \in FlowRecord /\ egress \in Interfaces
  BY ZenonT(30) DEF BypassInv, BypassTypes, FlowsFit
<1>3. NoRoutes \in [Peers -> Flows \cup {None}] /\ flow[f].owner \in Owners \cup {None}
  BY <1>2, ZenonT(30) DEF NoRoutes, FlowRecord
<1>4. /\ NewEndpoint(f) \in EndRecord /\ NewEndpoint(f).source = s /\ ~ NewEndpoint(f).closed
      /\ NewEndpoint(f).why = "open" /\ NewEndpoint(f).owner = flow[f].owner
  BY <1>2, <1>3, ZenonT(30) DEF NewEndpoint, EndRecord
<1>5. /\ full \in [Sources -> 0 .. MaxEndpoints] /\ full[s] = e /\ \A t \in Sources : t # s => full[t] = pool[t]
      /\ more \in [Ends -> EndRecord] /\ more[e] = NewEndpoint(f) /\ \A x \in Ends : x # e => more[x] = ends[x]
  BY <1>1, <1>2, <1>4, ZenonT(30) DEF More, Filled
<1>6. after = before \cup {s} /\ s \notin before /\ before \subseteq Sources /\ Cardinality(before) < Limit
  <2>1. after = before \cup {s}
    BY <1>1, <1>2, <1>5, ZenonT(30)
  <2>2. QED
    BY <2>1, ZenonT(30)
<1> HIDE DEF e, s, more, full, before, after
<1>7. IsFiniteSet(before)
  BY <1>0, <1>6, FS_Subset, ZenonT(30)
<1>8. Cardinality(before) \in Nat /\ Cardinality(after) = Cardinality(before) + 1
  BY <1>6, <1>7, FS_AddElement, FS_CardinalityType, ZenonT(30)
<1>9. Cardinality(after) <= Limit
  BY <1>0, <1>6, <1>8
<1>10. \A t \in Sources : full[t] # 0 => full[t] \in 1 .. e /\ more[full[t]].source = t
  <2> SUFFICES ASSUME NEW t \in Sources, full[t] # 0
               PROVE  full[t] \in 1 .. e /\ more[full[t]].source = t
    BY ZenonT(30)
  <2>1. CASE t = s
    BY <1>1, <1>4, <1>5, <2>1, ZenonT(30)
  <2>2. CASE t # s
    <3>1. full[t] = pool[t] /\ pool[t] \in 1 .. opened /\ ends[pool[t]].source = t
      BY <1>5, <2>2, ZenonT(30) DEF PoolFits
    <3>2. pool[t] \in Ends /\ pool[t] # e /\ pool[t] \in 1 .. e
      BY <1>0, <3>1 DEF Ends, e
    <3>3. QED
      BY <1>5, <3>1, <3>2, ZenonT(30)
  <2>3. QED
    BY <2>1, <2>2, ZenonT(30)
<1>11. \A x \in Ends :
        ~ more[x].closed => /\ x <= e /\ more[x].source \in Sources /\ more[x].why = "open"
                            /\ full[more[x].source] = x
                            /\ owners[more[x].source] = more[x].owner
  <2> SUFFICES ASSUME NEW x \in Ends, ~ more[x].closed
               PROVE  /\ x <= e /\ more[x].source \in Sources /\ more[x].why = "open"
                      /\ full[more[x].source] = x
                      /\ owners[more[x].source] = more[x].owner
    BY ZenonT(30)
  <2>1. CASE x = e
    BY <1>1, <1>2, <1>4, <1>5, <2>1 DEF s
  <2>2. CASE x # e
    <3>1. /\ more[x] = ends[x] /\ x <= opened /\ ends[x].source \in Sources /\ ends[x].why = "open"
          /\ pool[ends[x].source] = x /\ owners[ends[x].source] = ends[x].owner
      BY <1>5, <2>2, ZenonT(30) DEF PoolFits
    <3>2. x # 0 /\ x <= e
      BY <1>0, <3>1 DEF Ends, e
    <3>3. ends[x].source # s
      BY <3>1, <3>2, ZenonT(30) DEF s
    <3>4. QED
      BY <1>5, <3>1, <3>2, <3>3, ZenonT(30)
  <2>3. QED
    BY <2>1, <2>2, ZenonT(30)
<1>12. \A x \in Ends : more[x].closed => more[x].routes = NoRoutes
  BY <1>4, <1>5 DEF PoolFits
<1>13. PoolFits(more, full, e, owners)
  BY <1>9, <1>10, <1>11, <1>12, ZenonT(30) DEF PoolFits, after
<1>14. \A g \in Flows : flow[g].pc = "relay" => flow[g].end \in 1 .. e /\ more[flow[g].end] = ends[flow[g].end]
  <2>1. \A g \in Flows : flow[g].pc = "relay" => flow[g].end \in 1 .. opened
    BY ZenonT(30) DEF FlowsFit
  <2>2. \A x \in 1 .. opened : x \in 1 .. e /\ x \in Ends /\ x # e
    BY <1>0 DEF Ends, e
  <2>3. QED
    BY <1>5, <2>1, <2>2, ZenonT(30)
<1>15. FlowsFit(more, e)
  BY <1>14, ZenonT(30) DEF FlowsFit
<1>16. ~ more[e].closed
  BY <1>4, <1>5, ZenonT(30)
<1>17. QED
  BY <1>1, <1>5, <1>13, <1>15, <1>16, ZenonT(30) DEF e, s, more, full

\* open_with on what maintain_with left.
LEMMA JoinFits ==
    ASSUME BypassInv, NEW f \in Flows, flow[f].pc = "read",
           NEW ends \in [Ends -> EndRecord], NEW pool \in [Sources -> 0 .. MaxEndpoints],
           PoolFits(ends, pool, opened, newest'.owners), FlowsFit(ends, opened),
           \A s \in Sources : pool[s] # 0 => ~ ends[pool[s]].closed,
           newest'.owners[flow[f].source] = flow[f].owner, Join(f, ends, pool)
    PROVE  /\ endpoint' \in [Ends -> EndRecord] /\ endpoints' \in [Sources -> 0 .. MaxEndpoints]
           /\ opened' \in 0 .. MaxEndpoints /\ flow' \in [Flows -> FlowRecord]
           /\ PoolFits(endpoint, endpoints, opened, newest.owners)' /\ FlowsFit(endpoint, opened)'
<1> DEFINE s == flow[f].source
           e == opened + 1
<1>0. MaxEndpoints \in Nat /\ opened \in 0 .. MaxEndpoints /\ s \in Sources
  BY UdpBypassAssumption, ZenonT(30) DEF BypassInv, BypassTypes, FlowsFit
<1>1. CASE pool[s] # 0 /\ Register(f, ends, pool[s]) /\ endpoints' = pool /\ opened' = opened
  <2>1. pool[s] \in 1 .. opened /\ ~ ends[pool[s]].closed
    BY <1>0, <1>1, ZenonT(30) DEF PoolFits
  <2>2. PoolFits(ends, endpoints', opened, newest'.owners)
    BY <1>1, ZenonT(30)
  <2>3. QED
    BY <1>0, <1>1, <2>1, <2>2, RegisterFits, ZenonT(30)
<1>2. CASE OpenFails(f) /\ endpoint' = ends /\ endpoints' = pool /\ opened' = opened
  <2>1. PoolFits(endpoint, endpoints, opened, newest.owners)'
    BY <1>2, ZenonT(30) DEF PoolFits
  <2>2. FlowsFit(endpoint', opened')
    BY <1>2, ZenonT(30)
  <2>3. QED
    BY <1>0, <1>2, <2>1, <2>2, FailsFits, ZenonT(30)
<1>3. ASSUME pool[s] = 0, e <= MaxEndpoints,
             NEW old \in IF Full(pool) THEN Evictable(ends, pool) ELSE {0},
             \/ /\ Register(f, More(f, Shut(ends, old)), e)
                /\ endpoints' = Filled(f, Rest(pool, old))
                /\ opened' = e
             \/ /\ OpenFails(f)
                /\ endpoint' = Shut(ends, old) /\ endpoints' = Rest(pool, old)
                /\ opened' = opened
      PROVE  /\ endpoint' \in [Ends -> EndRecord] /\ endpoints' \in [Sources -> 0 .. MaxEndpoints]
             /\ opened' \in 0 .. MaxEndpoints /\ flow' \in [Flows -> FlowRecord]
             /\ PoolFits(endpoint, endpoints, opened, newest.owners)' /\ FlowsFit(endpoint, opened)'
  <2> DEFINE rest == Rest(pool, old)
             shut == Shut(ends, old)
  <2>1. /\ rest \in [Sources -> 0 .. MaxEndpoints] /\ shut \in [Ends -> EndRecord]
        /\ PoolFits(shut, rest, opened, newest'.owners) /\ FlowsFit(shut, opened)
        /\ Cardinality({t \in Sources : rest[t] # 0}) < Limit
        /\ rest[s] = 0
    BY <1>0, <1>3, RoomFits, ZenonT(30)
  <2> HIDE DEF rest, shut
  <2>2. CASE Register(f, More(f, shut), e) /\ endpoints' = Filled(f, rest) /\ opened' = e
    <3> DEFINE more == More(f, shut)
    <3>1. /\ more \in [Ends -> EndRecord] /\ Filled(f, rest) \in [Sources -> 0 .. MaxEndpoints]
          /\ PoolFits(more, Filled(f, rest), e, newest'.owners) /\ FlowsFit(more, e)
          /\ e \in 1 .. e /\ e \in 0 .. MaxEndpoints /\ ~ more[e].closed
      BY <1>3, <2>1, NewFits, ZenonT(30)
    <3> HIDE DEF more, e
    <3>2. PoolFits(more, endpoints', e, newest'.owners)
      BY <2>2, <3>1, ZenonT(30)
    <3>3. QED
      BY <2>2, <3>1, <3>2, RegisterFits, ZenonT(30) DEF more
  <2>3. CASE OpenFails(f) /\ endpoint' = shut /\ endpoints' = rest /\ opened' = opened
    <3>1. PoolFits(endpoint, endpoints, opened, newest.owners)'
      BY <2>1, <2>3, ZenonT(30) DEF PoolFits
    <3>2. FlowsFit(endpoint', opened')
      BY <2>1, <2>3, ZenonT(30)
    <3>3. QED
      BY <1>0, <2>1, <2>3, <3>1, <3>2, FailsFits, ZenonT(30)
  <2>4. QED
    BY <1>3, <2>2, <2>3, ZenonT(30) DEF rest, shut
<1>4. QED
  BY <1>1, <1>2, <1>3, ZenonT(30) DEF Join, Rest, Shut, More, Filled

\* Opening a flow.
LEMMA OpenStep ==
    ASSUME BypassInv, NEW f \in Flows, Open(f)
    PROVE  BypassInv'
<1> DEFINE ends == Maintained(RetiredBy(f))
           pool == Remaining(RetiredBy(f))
<1>1. /\ f \in Callers /\ HasRead(f) /\ Applied(f) /\ Return(f) /\ UNCHANGED world /\ flow[f].pc = "read"
  BY ZenonT(30) DEF Open, Callers
<1>2. /\ ends \in [Ends -> EndRecord] /\ pool \in [Sources -> 0 .. MaxEndpoints]
      /\ PoolFits(ends, pool, opened, newest'.owners)
      /\ FlowsFit(ends, opened)
      /\ \A s \in Sources : pool[s] # 0 => ~ ends[pool[s]].closed
  BY <1>1, MaintainedFits, ZenonT(30)
<1>3. \/ Join(f, ends, pool) /\ job[f].state = "read" /\ job[f].owners[flow[f].source] = flow[f].owner
      \/ OpenFails(f) /\ endpoint' = ends /\ endpoints' = pool /\ opened' = opened
  BY ZenonT(30) DEF Open
<1> HIDE DEF ends, pool
<1>4. CASE Join(f, ends, pool) /\ job[f].state = "read" /\ job[f].owners[flow[f].source] = flow[f].owner
  <2>1. newest'.owners[flow[f].source] = flow[f].owner
    BY <1>1, <1>4, Settled, ZenonT(30)
  <2>2. QED
    BY <1>1, <1>2, <1>4, <2>1, JoinFits, AppliedFits, ZenonT(30)
<1>5. CASE OpenFails(f) /\ endpoint' = ends /\ endpoints' = pool /\ opened' = opened
  <2>1. PoolFits(endpoint, endpoints, opened, newest.owners)'
    BY <1>2, <1>5, ZenonT(30) DEF PoolFits
  <2>2. FlowsFit(endpoint', opened') /\ opened' \in 0 .. MaxEndpoints
    BY <1>2, <1>5, ZenonT(30) DEF BypassInv, BypassTypes
  <2>3. flow' \in [Flows -> FlowRecord] /\ FlowsFit(endpoint, opened)'
    BY <1>1, <1>5, <2>2, FailsFits, ZenonT(30)
  <2>4. QED
    BY <1>1, <1>2, <1>5, <2>1, <2>2, <2>3, AppliedFits, ZenonT(30)
<1>6. QED
  BY <1>3, <1>4, <1>5, ZenonT(30)

\* A reply is queued or injected.
LEMMA ReplySteps ==
    ASSUME BypassInv, (\E e \in Ends, p \in Peers : ReceiveFrom(e, p)) \/ (\E f \in Flows : Inject(f))
    PROVE  BypassInv'
<1>1. PICK f \in Flows, n \in Nat : flow' = [flow EXCEPT ![f].queued = n]
  <2>1. CASE \E e \in Ends, p \in Peers : ReceiveFrom(e, p)
    <3>1. PICK e \in Ends, p \in Peers : ReceiveFrom(e, p)
      BY <2>1, ZenonT(30)
    <3>2. endpoint[e].routes \in [Peers -> Flows \cup {None}] /\ endpoint[e].routes[p] # None
      BY <3>1, ZenonT(30) DEF BypassInv, BypassTypes, EndRecord, ReceiveFrom
    <3> DEFINE g == endpoint[e].routes[p]
    <3>3. g \in Flows
      BY <3>2, ZenonT(30)
    <3>4. flow[g].queued \in Nat
      BY <3>3, ZenonT(30) DEF BypassInv, BypassTypes, FlowRecord
    <3>5. flow' = [flow EXCEPT ![g].queued = flow[g].queued + 1]
      BY <3>1, ZenonT(30) DEF ReceiveFrom
    <3> HIDE DEF g
    <3>6. flow[g].queued + 1 \in Nat
      BY <3>4
    <3>7. QED
      BY <3>3, <3>5, <3>6, ZenonT(30)
  <2>2. CASE \E f \in Flows : Inject(f)
    <3>1. PICK f \in Flows : Inject(f)
      BY <2>2, ZenonT(30)
    <3>2. flow[f].queued \in Nat /\ flow[f].queued > 0
      BY <3>1, ZenonT(30) DEF BypassInv, BypassTypes, FlowRecord, Inject
    <3>3. flow[f].queued - 1 \in Nat
      BY <3>2
    <3>4. flow' = [flow EXCEPT ![f].queued = flow[f].queued - 1]
      BY <3>1, ZenonT(30) DEF Inject
    <3>5. QED
      BY <3>3, <3>4, ZenonT(30)
  <2>3. QED
    BY <2>1, <2>2, ZenonT(30)
<1>2. UNCHANGED <<table, egress, changes, permit, job, newest, endpoints, endpoint, opened>>
  BY ZenonT(30) DEF ReceiveFrom, Inject, world
<1>3. flow \in [Flows -> FlowRecord] /\ flow[f] \in FlowRecord /\ changes \in Nat
  BY ZenonT(30) DEF BypassInv, BypassTypes
<1> DEFINE r == [flow[f] EXCEPT !.queued = n]
<1>4. /\ r \in FlowRecord /\ r.pc = flow[f].pc /\ r.end = flow[f].end
      /\ r.source = flow[f].source /\ r.peer = flow[f].peer
  BY <1>3, ZenonT(30) DEF FlowRecord
<1>5. flow' = [flow EXCEPT ![f] = r]
  BY <1>1, ZenonT(30)
<1> HIDE DEF r
<1>6. flow' \in [Flows -> FlowRecord] /\ flow'[f] = r /\ \A g \in Flows : g # f => flow'[g] = flow[g]
  BY <1>3, <1>4, <1>5, ZenonT(30)
<1>7. BypassTypes'
  BY <1>2, <1>6, ZenonT(30) DEF BypassInv, BypassTypes
<1>8. \A g \in Flows :
        /\ flow'[g].pc \in {"permit", "read", "relay"} => flow'[g].source \in Sources /\ flow'[g].peer \in Peers
        /\ flow'[g].pc = "relay" => /\ flow[g].pc = "relay" /\ flow'[g].end = flow[g].end
                                    /\ flow'[g].peer = flow[g].peer
  BY <1>4, <1>6, ZenonT(30) DEF BypassInv, FlowsFit
<1>9. Serialized'
  BY <1>2, <1>3, StillSerialized
<1>10. QED
  BY <1>2, <1>7, <1>8, <1>9, FlowsKept, ZenonT(30)

\* Steps that leave the pool and its view of the owners alone, from the effect
\* on the endpoints.
LEMMA EndsKept ==
    ASSUME BypassInv, UNCHANGED <<table, egress, changes, permit, job, newest, endpoints, opened>>,
           endpoint' \in [Ends -> EndRecord], flow' \in [Flows -> FlowRecord],
           \A e \in Ends : /\ endpoint'[e].source = endpoint[e].source /\ endpoint'[e].owner = endpoint[e].owner
                           /\ ~ endpoint'[e].closed => ~ endpoint[e].closed /\ endpoint'[e].why = endpoint[e].why
                           /\ endpoint'[e].closed => endpoint'[e].routes = NoRoutes,
           FlowsFit(endpoint, opened)'
    PROVE  BypassInv'
<1>1. BypassTypes'
  BY ZenonT(30) DEF BypassInv, BypassTypes
<1>2. Serialized'
  BY ZenonT(30) DEF BypassInv, Serialized, HasRead
<1>3. \A s \in Sources : endpoints[s] # 0 => endpoints[s] \in Ends
  BY UdpBypassAssumption DEF BypassInv, BypassTypes, Ends
<1>4. PoolFits(endpoint, endpoints, opened, newest.owners)'
  BY <1>3 DEF BypassInv, PoolFits
<1>5. QED
  BY <1>1, <1>2, <1>4, ZenonT(30) DEF BypassInv

\* The receive task ends and closes its endpoint.
LEMMA ReceiverEndsStep ==
    ASSUME BypassInv, NEW e \in Ends, ReceiverEnds(e)
    PROVE  BypassInv'
<1>1. /\ UNCHANGED <<table, egress, changes, permit, job, newest, endpoints, opened, flow>>
      /\ endpoint' = [Closed({e}, "changed") EXCEPT ![e].receiver = "ended"]
  BY ZenonT(30) DEF ReceiverEnds, world
<1>2. /\ endpoint \in [Ends -> EndRecord] /\ endpoint[e] \in EndRecord /\ flow \in [Flows -> FlowRecord]
      /\ \A x \in Ends : endpoint[x].closed => endpoint[x].routes = NoRoutes
      /\ NoRoutes \in [Peers -> Flows \cup {None}] /\ opened \in 0 .. MaxEndpoints /\ MaxEndpoints \in Nat
  BY UdpBypassAssumption, ZenonT(30) DEF BypassInv, BypassTypes, PoolFits, NoRoutes
<1> DEFINE c == Closed({e}, "changed")
<1>3. /\ c[e] \in EndRecord /\ c[e].source = endpoint[e].source /\ c[e].owner = endpoint[e].owner
      /\ c[e].closed /\ c[e].routes = NoRoutes /\ c[e].why \in {endpoint[e].why, "changed"}
  <2>1. CASE endpoint[e].closed
    <3>1. c[e] = endpoint[e]
      BY <2>1, ZenonT(30) DEF Closed
    <3>2. QED
      BY <1>2, <2>1, <3>1, ZenonT(30)
  <2>2. CASE ~ endpoint[e].closed
    <3>1. c[e] = [endpoint[e] EXCEPT !.closed = TRUE, !.why = "changed", !.routes = NoRoutes]
      BY <2>2, ZenonT(30) DEF Closed
    <3>2. QED
      BY <1>2, <3>1, ZenonT(30) DEF EndRecord
  <2>3. QED
    BY <2>1, <2>2, ZenonT(30)
<1>4. c \in [Ends -> EndRecord] /\ \A x \in Ends : x # e => c[x] = endpoint[x]
  <2>1. \A x \in Ends : x # e => c[x] = endpoint[x]
    BY ZenonT(30) DEF Closed
  <2>2. \A x \in Ends : c[x] \in EndRecord
    BY <1>2, <1>3, <2>1, ZenonT(30)
  <2>3. c = [x \in Ends |-> c[x]]
    BY ZenonT(30) DEF Closed
  <2> HIDE DEF c
  <2>4. QED
    BY <2>1, <2>2, <2>3, ZenonT(30)
<1> HIDE DEF c
<1> DEFINE r == [c[e] EXCEPT !.receiver = "ended"]
<1>5. /\ r \in EndRecord /\ r.source = endpoint[e].source /\ r.owner = endpoint[e].owner
      /\ r.closed /\ r.routes = NoRoutes /\ r.why \in {endpoint[e].why, "changed"}
  BY <1>3, ZenonT(30) DEF EndRecord
<1>6. endpoint' = [c EXCEPT ![e] = r]
  BY <1>1, ZenonT(30) DEF c
<1> HIDE DEF r
<1>7. endpoint' \in [Ends -> EndRecord] /\ endpoint'[e] = r /\ \A x \in Ends : x # e => endpoint'[x] = endpoint[x]
  BY <1>4, <1>5, <1>6, ZenonT(30)
<1>8. \A f \in Flows : flow[f].pc = "relay" => flow[f].end \in Ends
  BY <1>2 DEF BypassInv, FlowsFit, Ends
<1>9. \A x \in Ends : /\ endpoint'[x].source = endpoint[x].source /\ endpoint'[x].owner = endpoint[x].owner
                      /\ ~ endpoint'[x].closed => ~ endpoint[x].closed /\ endpoint'[x].why = endpoint[x].why
                      /\ endpoint'[x].closed => endpoint'[x].routes = NoRoutes
  BY <1>2, <1>5, <1>7, ZenonT(30)
<1>10. \A x \in Ends : /\ endpoint'[x].why = "idle" => endpoint[x].why = "idle"
                       /\ endpoint'[x].closed \/ endpoint'[x] = endpoint[x]
  BY <1>5, <1>7, ZenonT(30)
<1>11. FlowsFit(endpoint, opened)
  BY ZenonT(30) DEF BypassInv
<1>12. FlowsFit(endpoint, opened)'
  <2> SUFFICES ASSUME NEW g \in Flows, flow[g].pc = "relay"
               PROVE  /\ flow[g].end \in 1 .. opened /\ endpoint'[flow[g].end].why # "idle"
                      /\ endpoint'[flow[g].end].closed \/ endpoint'[flow[g].end].routes[flow[g].peer] = g
    BY <1>1, <1>11, ZenonT(30) DEF FlowsFit
  <2>1. /\ flow[g].end \in 1 .. opened /\ endpoint[flow[g].end].why # "idle"
        /\ endpoint[flow[g].end].closed \/ endpoint[flow[g].end].routes[flow[g].peer] = g
    BY <1>11, ZenonT(30) DEF FlowsFit
  <2>2. flow[g].end \in Ends /\ (endpoint[flow[g].end].closed => endpoint'[flow[g].end].closed)
    BY <1>5, <1>7, <1>8, ZenonT(30)
  <2>3. QED
    BY <1>10, <2>1, <2>2, ZenonT(30)
<1>13. flow' \in [Flows -> FlowRecord]
  BY <1>1, <1>2, ZenonT(30)
<1>14. QED
  BY <1>1, <1>7, <1>9, <1>12, <1>13, EndsKept, ZenonT(30)

\* A relay ends and drops its own route: no other flow has it.
LEMMA FlowEndsStep ==
    ASSUME BypassInv, NEW f \in Flows, FlowEnds(f)
    PROVE  BypassInv'
<1> DEFINE e == flow[f].end
           p == flow[f].peer
<1>1. /\ UNCHANGED <<table, egress, changes, permit, job, newest, endpoints, opened>>
      /\ flow[f].pc = "relay"
      /\ flow' = [flow EXCEPT ![f].pc = "ended", ![f].queued = 0]
      /\ endpoint' = [endpoint EXCEPT ![e].routes[p] = None]
  BY ZenonT(30) DEF FlowEnds, world
<1>2. /\ endpoint \in [Ends -> EndRecord] /\ flow \in [Flows -> FlowRecord] /\ flow[f] \in FlowRecord
      /\ \A x \in Ends : endpoint[x].closed => endpoint[x].routes = NoRoutes
      /\ opened \in 0 .. MaxEndpoints /\ MaxEndpoints \in Nat
  BY UdpBypassAssumption, ZenonT(30) DEF BypassInv, BypassTypes, PoolFits
<1>3. \A g \in Flows : flow[g].pc = "relay" =>
        /\ flow[g].end \in Ends /\ flow[g].peer \in Peers
        /\ endpoint[flow[g].end].closed \/ endpoint[flow[g].end].routes[flow[g].peer] = g
  <2>1. \A n \in 1 .. opened : n \in Ends
    BY <1>2 DEF Ends
  <2>2. \A g \in Flows : flow[g].pc = "relay" =>
           /\ flow[g].end \in 1 .. opened /\ flow[g].peer \in Peers
           /\ endpoint[flow[g].end].closed \/ endpoint[flow[g].end].routes[flow[g].peer] = g
    BY ZenonT(30) DEF BypassInv, FlowsFit
  <2>3. QED
    BY <2>1, <2>2, ZenonT(30)
<1>4. e \in Ends /\ p \in Peers /\ endpoint[e] \in EndRecord /\ endpoint[e].routes \in [Peers -> Flows \cup {None}]
  BY <1>1, <1>2, <1>3, ZenonT(30) DEF EndRecord
<1> DEFINE w == [endpoint[e].routes EXCEPT ![p] = None]
           d == [endpoint[e] EXCEPT !.routes = w]
           r == [flow[f] EXCEPT !.pc = "ended", !.queued = 0]
<1>5. r \in FlowRecord /\ r.pc = "ended"
  BY <1>2, ZenonT(30) DEF FlowRecord
<1>6. w \in [Peers -> Flows \cup {None}] /\ \A q \in Peers : q # p => w[q] = endpoint[e].routes[q]
  BY <1>4, ZenonT(30)
<1>7. endpoint[e].closed => w = NoRoutes
  BY <1>2, <1>4, ZenonT(30) DEF NoRoutes
<1>8. flow' = [flow EXCEPT ![f] = r] /\ endpoint' = [endpoint EXCEPT ![e] = d]
  BY <1>1, ZenonT(30)
<1> HIDE DEF w
<1>9. /\ d \in EndRecord /\ d.source = endpoint[e].source /\ d.owner = endpoint[e].owner
      /\ d.closed = endpoint[e].closed /\ d.why = endpoint[e].why /\ d.routes = w
  BY <1>4, <1>6, ZenonT(30) DEF EndRecord
<1> HIDE DEF d, r
<1>10. /\ flow' \in [Flows -> FlowRecord] /\ flow'[f] = r /\ \A g \in Flows : g # f => flow'[g] = flow[g]
       /\ endpoint' \in [Ends -> EndRecord] /\ endpoint'[e] = d /\ \A x \in Ends : x # e => endpoint'[x] = endpoint[x]
  BY <1>2, <1>4, <1>5, <1>8, <1>9, ZenonT(30)
<1>11. \A g \in Flows : g # f /\ flow[g].pc = "relay" =>
         endpoint'[flow[g].end].closed \/ endpoint'[flow[g].end].routes[flow[g].peer] = g
  <2> SUFFICES ASSUME NEW g \in Flows, g # f, flow[g].pc = "relay", ~ endpoint[flow[g].end].closed
               PROVE  endpoint'[flow[g].end].routes[flow[g].peer] = g
    BY <1>3, <1>9, <1>10, ZenonT(30)
  <2>1. flow[g].end \in Ends /\ flow[g].peer \in Peers /\ endpoint[flow[g].end].routes[flow[g].peer] = g
    BY <1>3, ZenonT(30)
  <2>2. CASE flow[g].end = e
    <3>1. endpoint[e].routes[p] = f
      BY <1>1, <1>3, <2>2, ZenonT(30)
    <3>2. flow[g].peer # p
      BY <2>1, <2>2, <3>1, ZenonT(30)
    <3>3. QED
      BY <1>6, <1>9, <1>10, <2>1, <2>2, <3>2, ZenonT(30)
  <2>3. CASE flow[g].end # e
    BY <1>10, <2>1, <2>3, ZenonT(30)
  <2>4. QED
    BY <2>2, <2>3, ZenonT(30)
<1>12. \A x \in Ends : endpoint'[x].why = endpoint[x].why
  BY <1>9, <1>10, ZenonT(30)
<1>13. FlowsFit(endpoint, opened)'
  <2> SUFFICES ASSUME NEW g \in Flows
               PROVE  /\ flow'[g].pc \in {"permit", "read", "relay"} =>
                            flow'[g].source \in Sources /\ flow'[g].peer \in Peers
                      /\ flow'[g].pc = "relay" =>
                            /\ flow'[g].end \in 1 .. opened /\ endpoint'[flow'[g].end].why # "idle"
                            /\ endpoint'[flow'[g].end].closed \/ endpoint'[flow'[g].end].routes[flow'[g].peer] = g
    BY <1>1, ZenonT(30) DEF FlowsFit
  <2>1. CASE g = f
    BY <1>5, <1>10, <2>1, ZenonT(30)
  <2>2. CASE g # f
    <3>1. flow'[g] = flow[g]
      BY <1>10, <2>2, ZenonT(30)
    <3>2. FlowsFit(endpoint, opened)
      BY ZenonT(30) DEF BypassInv
    <3>3. QED
      BY <1>3, <1>11, <1>12, <2>2, <3>1, <3>2, ZenonT(30) DEF FlowsFit
  <2>3. QED
    BY <2>1, <2>2, ZenonT(30)
<1>14. \A x \in Ends : /\ endpoint'[x].source = endpoint[x].source /\ endpoint'[x].owner = endpoint[x].owner
                       /\ ~ endpoint'[x].closed => ~ endpoint[x].closed /\ endpoint'[x].why = endpoint[x].why
                       /\ endpoint'[x].closed => endpoint'[x].routes = NoRoutes
  BY <1>2, <1>7, <1>9, <1>10, ZenonT(30)
<1>15. QED
  BY <1>1, <1>10, <1>13, <1>14, EndsKept, ZenonT(30)

-----------------------------------------------------------------------------
\* Every step keeps the invariant.
LEMMA BypassPreserves == BypassInv /\ [Next]_vars => BypassInv'
<1> SUFFICES ASSUME BypassInv, [Next]_vars
             PROVE  BypassInv'
  BY ZenonT(30)
<1>1. ASSUME NEW c \in Callers, ReadOwners(c) \/ OrphanEnds(c)
      PROVE  BypassInv'
  BY <1>1, ReadStep, CancelSteps, ZenonT(30)
<1>2. ASSUME NEW f \in Flows, FlowStep(f)
      PROVE  BypassInv'
  BY <1>2, StartStep, AcquireSteps, CancelSteps, OpenStep, ReplySteps, WorldSteps, FlowEndsStep, ZenonT(30) DEF FlowStep
<1>3. ASSUME NEW e \in Ends, EndpointStep(e)
      PROVE  BypassInv'
  BY <1>3, ReplySteps, ReceiverEndsStep, WorldSteps, ZenonT(30) DEF EndpointStep
<1>4. CASE UNCHANGED vars
  <2>1. BypassTypes' /\ Serialized'
    BY <1>4, ZenonT(30) DEF vars, BypassInv, BypassTypes, Serialized, HasRead
  <2>2. QED
    BY <1>4, <2>1, Untouched, ZenonT(30) DEF vars
<1>5. QED
  BY <1>1, <1>2, <1>3, <1>4, WorldSteps, AcquireSteps, MaintainStep, ZenonT(30) DEF Next

\* The invariant of the pool, with what the properties below rest on.
THEOREM BypassInvariant == Spec => []BypassInv
BY BypassStarts, BypassPreserves, PTL DEF Spec

\* An application socket has at most one live endpoint, the pooled one, and a
\* relaying flow keeps its route on it.
THEOREM LiveEndpointUnique == Spec => []OneLiveEndpoint
<1>1. BypassInv => OneLiveEndpoint
  <2> SUFFICES ASSUME BypassInv
               PROVE  OneLiveEndpoint
    BY ZenonT(30)
  <2>1. PoolFits(endpoint, endpoints, opened, newest.owners) /\ FlowsFit(endpoint, opened)
    BY ZenonT(30) DEF BypassInv
  <2>2. QED
    BY <2>1, ZenonT(30) DEF OneLiveEndpoint, Live, PoolFits, FlowsFit
<1>2. QED
  BY <1>1, BypassInvariant, PTL

\* No expiry and no eviction takes an endpoint from its flows, and the pool is
\* within its limit.
THEOREM ActiveFlowsSpared == Spec => []ActiveSpared
<1>1. BypassInv => ActiveSpared
  <2> SUFFICES ASSUME BypassInv
               PROVE  ActiveSpared
    BY ZenonT(30)
  <2> DEFINE occupied == {s \in Sources : endpoints[s] # 0}
             place == [s \in occupied |-> endpoints[s]]
  <2>1. Cardinality(occupied) <= Limit /\ FlowsFit(endpoint, opened)
    BY ZenonT(30) DEF BypassInv, PoolFits
  <2>2. IsFiniteSet(Sources) /\ Limit \in Nat
    BY UdpBypassAssumption, ZenonT(30)
  <2>3. IsFiniteSet(occupied) /\ Cardinality(occupied) \in Nat
    BY <2>2, FS_Subset, FS_CardinalityType, ZenonT(30)
  <2>4. place \in Surjection(occupied, Pooled)
    BY ZenonT(30) DEF Pooled, Surjection
  <2> HIDE DEF occupied, place
  <2>5. Cardinality(Pooled) <= Cardinality(occupied) /\ Cardinality(Pooled) \in Nat
    BY <2>3, <2>4, FS_Surjection, FS_CardinalityType, ZenonT(30)
  <2>6. Cardinality(Pooled) <= Limit
    BY <2>1, <2>2, <2>3, <2>5
  <2>7. QED
    BY <2>1, <2>6, ZenonT(30) DEF ActiveSpared, FlowsFit
<1>2. QED
  BY <1>1, BypassInvariant, PTL

\* A live endpoint is of the owner in the newest table that was applied.
THEOREM NewestOwner == Spec => []OwnerOfNewestTable
<1>1. BypassInv => OwnerOfNewestTable
  BY ZenonT(30) DEF BypassInv, PoolFits, OwnerOfNewestTable, Live
<1>2. QED
  BY <1>1, BypassInvariant, PTL

-----------------------------------------------------------------------------
(* A sequence is a function on the places up to its length.                *)
LEMMA SeqLength ==
    ASSUME NEW S, NEW q \in Seq(S)
    PROVE  Len(q) \in Nat /\ q \in [1 .. Len(q) -> S] /\ DOMAIN q = 1 .. Len(q)
OBVIOUS

(* The empty sequence, and the others.                                     *)
LEMMA SeqEmpty ==
    ASSUME NEW S
    PROVE  <<>> \in Seq(S) /\ Len(<<>>) = 0 /\ \A q \in Seq(S) : q # <<>> => Len(q) \in Nat \ {0}
OBVIOUS

(* A sequence over a set is one over a larger set.                         *)
LEMMA SeqWider ==
    ASSUME NEW S, NEW T, S \subseteq T, NEW q \in Seq(S)
    PROVE  q \in Seq(T)
OBVIOUS

(* A sequence whose elements are in a set is a sequence over it.           *)
LEMMA SeqNarrower ==
    ASSUME NEW S, NEW T, NEW q \in Seq(S), \A i \in 1 .. Len(q) : q[i] \in T
    PROVE  q \in Seq(T)
OBVIOUS

(* A sequence without its first element.                                   *)
LEMMA SeqTail ==
    ASSUME NEW S, NEW q \in Seq(S), q # <<>>
    PROVE  /\ Head(q) \in S /\ Tail(q) \in Seq(S) /\ Len(Tail(q)) = Len(q) - 1
           /\ \A i \in 1 .. Len(Tail(q)) : Tail(q)[i] = q[i + 1]
OBVIOUS

(* A sequence with an element appended.                                    *)
LEMMA SeqAppended ==
    ASSUME NEW S, NEW q \in Seq(S), NEW x \in S
    PROVE  /\ Append(q, x) \in Seq(S) /\ Append(q, x) # <<>> /\ Len(Append(q, x)) = Len(q) + 1
           /\ \A i \in 1 .. Len(q) : Append(q, x)[i] = q[i]
           /\ Append(q, x)[Len(q) + 1] = x
OBVIOUS

DnsTypes ==
    /\ session \in {"open", "flush", "ended"}
    /\ pending \in [Ids -> Request \cup {NoRequest}]
    /\ requests \in Seq(Message)
    /\ upstream \in {"idle", "connecting", "open"}
    /\ sent \subseteq Message /\ IsFiniteSet(sent)
    /\ responses \in Seq(Message)
    /\ direct \subseteq Message /\ IsFiniteSet(direct)
    /\ asked \subseteq Request
    /\ honest \in BOOLEAN

(* Every transaction is one the client waits for, under one upstream id.   *)
Transactions ==
    /\ \A u \in Busy : pending[u] \in asked
    /\ \A u, v \in Busy : pending[u] = pending[v] => u = v
    /\ Cardinality(Busy) <= MaxOutstanding

Holds(s, m) == \E i \in 1 .. Len(s) : s[i] = m

Distinct(s) == \A i, j \in 1 .. Len(s) : s[i] = s[j] => i = j

Travels(m) == Holds(requests, m) \/ m \in sent \/ Holds(responses, m) \/ m \in direct

(* No message is in two places, nor twice in one.                          *)
Apart ==
    /\ Distinct(requests) /\ Distinct(responses)
    /\ \A m \in Message :
          /\ ~ (Holds(requests, m) /\ m \in sent) /\ ~ (Holds(requests, m) /\ Holds(responses, m))
          /\ ~ (Holds(requests, m) /\ m \in direct) /\ ~ (m \in sent /\ Holds(responses, m))
          /\ ~ (m \in sent /\ m \in direct) /\ ~ (Holds(responses, m) /\ m \in direct)

Count == Len(requests) + Cardinality(sent) + Len(responses) + Cardinality(direct)

(* While the upstream keeps to what it is asked, what travels belongs to   *)
(* a transaction; while the session is open, every transaction travels.    *)
Matched ==
    /\ session # "ended" => Apart /\ \A m \in Message : Travels(m) => Completes(m)
    /\ session = "open" =>
          /\ \A u \in Busy : Travels([id |-> u, question |-> pending[u].question])
          /\ Count = Cardinality(Busy)
    /\ outcome \notin {"unsolicited", "queue_full"}

DnsInv ==
    /\ DnsTypes /\ Transactions /\ ~ stray
    /\ upstream = "idle" => sent = {}
    /\ honest => Matched

-----------------------------------------------------------------------------
\* A set of naturals has a least element.
LEMMA Least ==
    ASSUME NEW S \in SUBSET Nat, S # {}
    PROVE  \E n \in S : \A m \in S : n <= m
<1> DEFINE R == OpToRel(<, Nat)
<1>1. IsWellFoundedOn(R, Nat)
  BY NatLessThanWellFounded, ZenonT(30)
<1>2. \A x, y \in Nat : <<y, x>> \in R <=> y < x
  BY ZenonT(30) DEF OpToRel
<1> HIDE DEF R
<1>3. PICK n \in S : \A y \in S : ~ (<<y, n>> \in R)
  BY <1>1, WFMin, ZenonT(30)
<1>4. \A y \in S : ~ (y < n)
  BY <1>2, <1>3, ZenonT(30)
<1>5. QED
  BY <1>4

\* The remainders that the search for a free id meets.
LEMMA Remainder ==
    ASSUME NEW d \in Nat \ {0}, NEW u \in 0 .. d - 1
    PROVE  u % d = u /\ (u + d) % d = u
OBVIOUS

\* The id found is in the id space.
LEMMA RemainderInRange ==
    ASSUME NEW d \in Nat \ {0}, NEW n \in Nat
    PROVE  n % d \in 0 .. d - 1
OBVIOUS

\* There are finitely many transactions.
LEMMA BusyFinite ==
    /\ IsFiniteSet(Ids) /\ Cardinality(Ids) = IdSpace
    /\ IsFiniteSet(Busy) /\ Cardinality(Busy) \in Nat
<1>1. IsFiniteSet(Ids) /\ Cardinality(Ids) = IdSpace
  BY FS_Interval, DnsOverTcpAssumption DEF Ids
<1>2. Busy \in SUBSET Ids
  BY ZenonT(30) DEF Busy
<1>3. QED
  BY <1>1, <1>2, FS_Subset, FS_CardinalityType, ZenonT(30)

\* Below the limit, the search for an upstream id ends at one that is free.
LEMMA UpstreamIdFree ==
    ASSUME NEW id \in Ids, ~ AtLimit
    PROVE  UpstreamId(id) \in Ids \ Busy
<1> DEFINE free == {n \in 0 .. IdSpace - 1 : (id + n) % IdSpace \notin Busy}
<1>1. PICK u \in Ids : u \notin Busy
  <2>1. Busy # Ids
    BY BusyFinite, DnsOverTcpAssumption DEF AtLimit
  <2>2. QED
    BY <2>1, ZenonT(30) DEF Busy
<1>2. free # {}
  <2>1. CASE u >= id
    <3>1. u - id \in 0 .. IdSpace - 1 /\ id + (u - id) = u
      BY <2>1, DnsOverTcpAssumption DEF Ids
    <3>2. u % IdSpace = u
      BY Remainder, DnsOverTcpAssumption, ZenonT(30) DEF Ids
    <3>3. QED
      BY <1>1, <3>1, <3>2, ZenonT(30)
  <2>2. CASE u < id
    <3>1. u + IdSpace - id \in 0 .. IdSpace - 1 /\ id + (u + IdSpace - id) = u + IdSpace
      BY <2>2, DnsOverTcpAssumption DEF Ids
    <3>2. (u + IdSpace) % IdSpace = u
      BY Remainder, DnsOverTcpAssumption, ZenonT(30) DEF Ids
    <3>3. QED
      BY <1>1, <3>1, <3>2, ZenonT(30)
  <2>3. QED
    BY <2>1, <2>2, DnsOverTcpAssumption DEF Ids
<1>3. \E n \in free : \A m \in free : n <= m
  <2>1. free \in SUBSET Nat
    BY DnsOverTcpAssumption
  <2> HIDE DEF free
  <2>2. QED
    BY <1>2, <2>1, Least, ZenonT(30)
<1> DEFINE n0 == CHOOSE n \in free : \A m \in free : n <= m
<1>4. n0 \in free
  BY <1>3, ZenonT(30)
<1>5. id + n0 \in Nat /\ (id + n0) % IdSpace \notin Busy
  <2> HIDE DEF n0
  <2>1. n0 \in 0 .. IdSpace - 1 /\ (id + n0) % IdSpace \notin Busy
    BY <1>4, ZenonT(30)
  <2>2. QED
    BY <2>1, DnsOverTcpAssumption DEF Ids
<1>6. (id + n0) % IdSpace \in Ids
  <2> HIDE DEF n0
  <2>1. QED
    BY <1>5, RemainderInRange, DnsOverTcpAssumption, ZenonT(30) DEF Ids
<1>7. QED
  BY <1>5, <1>6, ZenonT(30) DEF UpstreamId

-----------------------------------------------------------------------------
\* The channels are sequences of distinct messages: one more at the end.
LEMMA AppendHolds ==
    ASSUME NEW s \in Seq(Message), NEW m \in Message
    PROVE  /\ Append(s, m) \in Seq(Message) /\ Len(s) \in Nat /\ Len(Append(s, m)) = Len(s) + 1
           /\ \A k : Holds(Append(s, m), k) <=> Holds(s, k) \/ k = m
           /\ Distinct(s) /\ ~ Holds(s, m) => Distinct(Append(s, m))
<1> DEFINE t == Append(s, m)
<1>1. /\ t \in Seq(Message) /\ Len(s) \in Nat /\ Len(t) = Len(s) + 1
      /\ \A i \in 1 .. Len(s) : t[i] = s[i]
      /\ t[Len(s) + 1] = m
  BY SeqAppended, SeqLength
<1> HIDE DEF t
<1>2. \A i \in 1 .. Len(t) : i \in 1 .. Len(s) \/ i = Len(s) + 1
  BY <1>1
<1>3. \A k : Holds(t, k) <=> Holds(s, k) \/ k = m
  <2>1. \A i \in 1 .. Len(s) : i \in 1 .. Len(t)
    BY <1>1
  <2>2. Len(s) + 1 \in 1 .. Len(t)
    BY <1>1
  <2>3. QED
    BY <1>1, <1>2, <2>1, <2>2, ZenonT(30) DEF Holds
<1>4. Distinct(s) /\ ~ Holds(s, m) => Distinct(t)
  BY <1>1, <1>2, ZenonT(30) DEF Holds, Distinct
<1>5. QED
  BY <1>1, <1>3, <1>4, ZenonT(30) DEF t

\* The channels are sequences of distinct messages: the first one taken.
LEMMA TailHolds ==
    ASSUME NEW s \in Seq(Message), s # <<>>, Distinct(s)
    PROVE  /\ Head(s) \in Message /\ Holds(s, Head(s))
           /\ Tail(s) \in Seq(Message) /\ Len(s) \in Nat /\ Len(Tail(s)) = Len(s) - 1
           /\ \A k : Holds(Tail(s), k) <=> Holds(s, k) /\ k # Head(s)
           /\ Distinct(Tail(s))
<1> DEFINE t == Tail(s)
           h == Head(s)
<1>1. /\ h \in Message /\ h = s[1] /\ t \in Seq(Message) /\ Len(t) = Len(s) - 1
      /\ Len(s) \in Nat /\ Len(s) > 0
      /\ \A i \in 1 .. Len(t) : t[i] = s[i + 1]
  BY SeqTail, SeqEmpty
<1> HIDE DEF t, h
<1>2. 1 \in 1 .. Len(s) /\ \A i \in 1 .. Len(t) : i + 1 \in 1 .. Len(s) /\ i + 1 # 1
  BY <1>1
<1>3. \A i \in 1 .. Len(s) : i # 1 => i - 1 \in 1 .. Len(t) /\ t[i - 1] = s[i]
  <2> SUFFICES ASSUME NEW i \in 1 .. Len(s), i # 1
               PROVE  i - 1 \in 1 .. Len(t) /\ t[i - 1] = s[i]
    BY ZenonT(30)
  <2>1. i - 1 \in 1 .. Len(t) /\ (i - 1) + 1 = i
    BY <1>1
  <2>2. QED
    BY <1>1, <2>1, ZenonT(30)
<1>4. \A k : Holds(t, k) <=> Holds(s, k) /\ k # h
  <2> SUFFICES ASSUME NEW k PROVE Holds(t, k) <=> Holds(s, k) /\ k # h
    BY ZenonT(30)
  <2>1. ASSUME Holds(t, k) PROVE Holds(s, k) /\ k # h
    <3>1. PICK i \in 1 .. Len(t) : t[i] = k
      BY <2>1, ZenonT(30) DEF Holds
    <3>2. s[i + 1] = k /\ i + 1 \in 1 .. Len(s) /\ i + 1 # 1
      BY <1>1, <1>2, <3>1, ZenonT(30)
    <3>3. QED
      BY <1>1, <1>2, <3>2, ZenonT(30) DEF Holds, Distinct
  <2>2. ASSUME Holds(s, k), k # h PROVE Holds(t, k)
    <3>1. PICK i \in 1 .. Len(s) : s[i] = k
      BY <2>2, ZenonT(30) DEF Holds
    <3>2. i # 1
      BY <1>1, <2>2, <3>1, ZenonT(30)
    <3>3. QED
      BY <1>3, <3>1, <3>2, ZenonT(30) DEF Holds
  <2>3. QED
    BY <2>1, <2>2, ZenonT(30)
<1>5. Distinct(t)
  <2> SUFFICES ASSUME NEW i \in 1 .. Len(t), NEW j \in 1 .. Len(t), t[i] = t[j] PROVE i = j
    BY ZenonT(30) DEF Distinct
  <2>1. i + 1 = j + 1
    BY <1>1, <1>2, ZenonT(30) DEF Distinct
  <2>2. QED
    BY <1>1, <2>1
<1>6. Holds(s, h)
  BY <1>1, <1>2, ZenonT(30) DEF Holds
<1>7. QED
  BY <1>1, <1>4, <1>5, <1>6, ZenonT(30) DEF t, h

\* Nothing is in an empty channel.
LEMMA EmptyHolds ==
    /\ <<>> \in Seq(Message) /\ Len(<<>>) = 0 /\ Distinct(<<>>) /\ \A k : ~ Holds(<<>>, k)
BY SeqEmpty DEF Holds, Distinct

\* A new transaction has an id of its own.
LEMMA PrepareStep ==
    ASSUME DnsInv, NEW r \in Request, Fresh(r), ~ AtLimit,
           pending' = Prepared(r), asked' = asked \cup {r}
    PROVE  /\ pending' \in [Ids -> Request \cup {NoRequest}] /\ asked' \subseteq Request
           /\ Transactions' /\ Cardinality(Busy') = Cardinality(Busy) + 1
           /\ Forwarded(r) \in Message /\ \A k \in Message : k = Forwarded(r) => Completes(k)'
           /\ Cardinality(Busy) < MaxOutstanding
           /\ \A k \in Message : Completes(k) => Completes(k)' /\ k # Forwarded(r)
           /\ \A v \in Busy' : \/ v \in Busy /\ pending'[v] = pending[v]
                               \/ [id |-> v, question |-> pending'[v].question] = Forwarded(r)
<1> DEFINE u == UpstreamId(r.id)
<1>1. r.id \in Ids /\ r.question \in Questions
  BY ZenonT(30) DEF Request
<1>2. u \in Ids /\ u \notin Busy
  BY <1>1, UpstreamIdFree, ZenonT(30)
<1> HIDE DEF u
<1>3. pending' = [pending EXCEPT ![u] = r] /\ Forwarded(r) = [id |-> u, question |-> r.question]
  BY ZenonT(30) DEF Prepared, Forwarded, u
<1>4. pending \in [Ids -> Request \cup {NoRequest}] /\ r # NoRequest
  BY NoRequestAssumption, ZenonT(30) DEF DnsInv, DnsTypes
<1>5. /\ pending' \in [Ids -> Request \cup {NoRequest}] /\ pending'[u] = r
      /\ \A v \in Ids \ {u} : pending'[v] = pending[v]
  BY <1>2, <1>3, <1>4, ZenonT(30)
<1>6. Busy' = Busy \cup {u}
  BY <1>2, <1>4, <1>5, ZenonT(30) DEF Busy
<1>7. Cardinality(Busy') = Cardinality(Busy) + 1
  BY <1>2, <1>6, FS_AddElement, BusyFinite, ZenonT(30)
<1>8. Cardinality(Busy) < MaxOutstanding /\ Cardinality(Busy') <= MaxOutstanding
  <2>1. Cardinality(Busy) \in Nat /\ MaxOutstanding \in Nat
    BY BusyFinite, DnsOverTcpAssumption
  <2>2. QED
    BY <1>7, <2>1 DEF AtLimit
<1>9. Transactions'
  <2>1. \A v \in Busy : pending[v] # r
    BY ZenonT(30) DEF Fresh, Busy
  <2>2. \A v \in Busy : v \in Ids /\ v # u
    BY <1>2, ZenonT(30) DEF Busy
  <2>3. \A v \in Busy' : pending'[v] \in asked'
    BY <1>5, <1>6, <2>2, ZenonT(30) DEF DnsInv, Transactions
  <2>4. \A v, w \in Busy' : pending'[v] = pending'[w] => v = w
    BY <1>5, <1>6, <2>1, <2>2 DEF DnsInv, Transactions
  <2>5. QED
    BY <1>8, <2>3, <2>4, ZenonT(30) DEF Transactions
<1>10. Forwarded(r) \in Message /\ \A k \in Message : k = Forwarded(r) => Completes(k)'
  <2>1. Forwarded(r) \in Message
    BY <1>1, <1>2, <1>3 DEF Message
  <2>2. pending'[Forwarded(r).id] = r /\ Forwarded(r).question = r.question
    BY <1>3, <1>5
  <2>3. QED
    BY <1>4, <2>1, <2>2, ZenonT(30) DEF Completes
<1>11. \A k \in Message : Completes(k) => Completes(k)' /\ k # Forwarded(r)
  <2> SUFFICES ASSUME NEW k \in Message, Completes(k) PROVE Completes(k)' /\ k # Forwarded(r)
    BY ZenonT(30)
  <2>1. k.id \in Ids /\ k.id \in Busy
    BY ZenonT(30) DEF Message, Completes, Busy
  <2>2. k.id # u
    BY <1>2, <2>1, ZenonT(30)
  <2>3. QED
    BY <1>3, <1>5, <2>1, <2>2 DEF Completes
<1>12. \A v \in Busy' : \/ v \in Busy /\ pending'[v] = pending[v]
                        \/ [id |-> v, question |-> pending'[v].question] = Forwarded(r)
  <2>1. \A v \in Busy : v \in Ids /\ v # u
    BY <1>2, ZenonT(30) DEF Busy
  <2>2. QED
    BY <1>3, <1>5, <1>6, <2>1, ZenonT(30)
<1>13. QED
  BY <1>1, <1>5, <1>7, <1>8, <1>9, <1>10, <1>11, <1>12, ZenonT(30) DEF DnsInv, DnsTypes

\* A transaction that is complete, and whose client waited for it.
LEMMA DeliverStep ==
    ASSUME DnsInv, NEW m \in Message, Completes(m), Delivers(m)
    PROVE  /\ pending' \in [Ids -> Request \cup {NoRequest}] /\ asked' \subseteq Request
           /\ Transactions' /\ ~ stray' /\ Cardinality(Busy') = Cardinality(Busy) - 1
           /\ \A k \in Message : Completes(k) /\ k # m => Completes(k)'
           /\ \A v \in Busy' : /\ v \in Busy /\ pending'[v] = pending[v]
                               /\ [id |-> v, question |-> pending[v].question] # m
<1> DEFINE u == m.id
           r == pending[u]
<1>1. u \in Ids /\ u \in Busy /\ r.question = m.question
  BY ZenonT(30) DEF Message, Completes, Busy
<1>2. pending \in [Ids -> Request \cup {NoRequest}]
  BY ZenonT(30) DEF DnsInv, DnsTypes
<1>3. /\ pending' \in [Ids -> Request \cup {NoRequest}] /\ pending'[u] = NoRequest
      /\ \A v \in Ids \ {u} : pending'[v] = pending[v]
  BY <1>1, <1>2, ZenonT(30) DEF Delivers, Released
<1>4. Busy' = Busy \ {u}
  BY <1>1, <1>3, ZenonT(30) DEF Busy
<1>5. Cardinality(Busy') = Cardinality(Busy) - 1
  BY <1>1, <1>4, FS_RemoveElement, BusyFinite, ZenonT(30)
<1>6. r \in asked /\ asked' = asked \ {r}
  BY <1>1, ZenonT(30) DEF DnsInv, Transactions, Delivers
<1>7. ~ stray'
  BY <1>1, <1>6, ZenonT(30) DEF Delivers, ClientId, DnsInv
<1>8. \A v \in Busy' : v \in Busy /\ v \in Ids /\ v # u /\ pending'[v] = pending[v]
  BY <1>3, <1>4, ZenonT(30) DEF Busy
<1>9. Transactions'
  <2>1. \A v \in Busy' : pending'[v] \in asked'
    BY <1>1, <1>6, <1>8, ZenonT(30) DEF DnsInv, Transactions
  <2>2. \A v, w \in Busy' : pending'[v] = pending'[w] => v = w
    BY <1>8, ZenonT(30) DEF DnsInv, Transactions
  <2>3. Cardinality(Busy') <= MaxOutstanding
    <3>1. Cardinality(Busy) \in Nat /\ MaxOutstanding \in Nat /\ Cardinality(Busy) <= MaxOutstanding
      BY BusyFinite, DnsOverTcpAssumption DEF DnsInv, Transactions
    <3>2. QED
      BY <1>5, <3>1
  <2>4. QED
    BY <2>1, <2>2, <2>3, ZenonT(30) DEF Transactions
<1>10. \A k \in Message : Completes(k) /\ k # m => Completes(k)'
  <2> SUFFICES ASSUME NEW k \in Message, Completes(k), k # m PROVE Completes(k)'
    BY ZenonT(30)
  <2>1. k.id \in Ids /\ (k.id = u => k.question = m.question)
    BY <1>1, ZenonT(30) DEF Message, Completes
  <2>2. k.id # u
    BY <2>1 DEF Message
  <2>3. QED
    BY <1>3, <2>1, <2>2, ZenonT(30) DEF Completes
<1>11. \A v \in Busy' : [id |-> v, question |-> pending[v].question] # m
  BY <1>8
<1>12. QED
  BY <1>3, <1>5, <1>6, <1>7, <1>8, <1>9, <1>10, <1>11, ZenonT(30) DEF DnsInv, DnsTypes

-----------------------------------------------------------------------------
\* What is counted are numbers.
LEMMA Numbers ==
    ASSUME DnsInv
    PROVE  /\ Len(requests) \in Nat /\ Len(responses) \in Nat
           /\ Cardinality(sent) \in Nat /\ Cardinality(direct) \in Nat
           /\ Cardinality(Busy) \in Nat /\ MaxOutstanding \in Nat
BY SeqLength, FS_CardinalityType, BusyFinite, DnsOverTcpAssumption DEF DnsInv, DnsTypes

\* A session that ends takes everything that travels with it.
LEMMA EndStep ==
    ASSUME DnsInv, NEW reason, End(reason), UNCHANGED <<pending, stray, honest>>,
           asked \subseteq asked', asked' \subseteq Request,
           honest => reason \notin {"unsolicited", "queue_full"}
    PROVE  DnsInv'
<1>1. DnsTypes'
  BY EmptyHolds, FS_EmptySet, ZenonT(30) DEF DnsInv, DnsTypes, End
<1>2. Busy' = Busy
  BY ZenonT(30) DEF Busy
<1>3. Transactions'
  BY <1>2, ZenonT(30) DEF DnsInv, Transactions
<1>4. honest' => Matched'
  BY ZenonT(30) DEF End, Matched
<1>5. QED
  BY <1>1, <1>3, <1>4, ZenonT(30) DEF DnsInv, End

\* A retry that is coalesced.
LEMMA CoalesceStep ==
    ASSUME DnsInv, NEW r \in Request, Coalesce(r)
    PROVE  DnsInv'
<1>1. Busy' = Busy /\ UNCHANGED <<pending, requests, sent, responses, direct, session, outcome, honest, upstream>>
  BY ZenonT(30) DEF Coalesce, Busy
<1>2. DnsTypes' /\ Transactions'
  BY <1>1, ZenonT(30) DEF Coalesce, DnsInv, DnsTypes, Transactions
<1>3. Matched => Matched'
  BY <1>1, ZenonT(30) DEF Matched, Apart, Travels, Count, Completes
<1>4. QED
  BY <1>1, <1>2, <1>3 DEF DnsInv, Coalesce

\* A question for the physical resolver.
LEMMA DirectStep ==
    ASSUME DnsInv, NEW r \in Request, AskDirect(r)
    PROVE  DnsInv'
<1> DEFINE m == Forwarded(r)
<1>1. /\ session = "open" /\ session' = "open" /\ direct' = direct \cup {m}
      /\ UNCHANGED <<outcome, requests, upstream, sent, responses, stray, honest>>
  BY ZenonT(30) DEF AskDirect, Fresh
<1>2. /\ pending' \in [Ids -> Request \cup {NoRequest}] /\ asked' \subseteq Request
      /\ Transactions' /\ Cardinality(Busy') = Cardinality(Busy) + 1
      /\ m \in Message /\ \A k \in Message : k = m => Completes(k)'
      /\ \A k \in Message : Completes(k) => Completes(k)' /\ k # m
      /\ \A v \in Busy' : \/ v \in Busy /\ pending'[v] = pending[v]
                          \/ [id |-> v, question |-> pending'[v].question] = m
  BY PrepareStep, ZenonT(30) DEF AskDirect
<1> HIDE DEF m
<1>3. DnsTypes'
  BY <1>1, <1>2, FS_AddElement, ZenonT(30) DEF DnsInv, DnsTypes
<1>4. ASSUME honest PROVE Matched'
  <2>1. ~ Travels(m)
    BY <1>1, <1>2, <1>4, ZenonT(30) DEF DnsInv, Matched
  <2>2. \A k \in Message : Travels(k)' <=> Travels(k) \/ k = m
    BY <1>1, ZenonT(30) DEF Travels
  <2>3. Apart'
    BY <1>1, <1>2, <1>4, <2>1, ZenonT(30) DEF DnsInv, Matched, Apart, Travels
  <2>4. \A k \in Message : Travels(k)' => Completes(k)'
    BY <1>1, <1>2, <1>4, <2>2, ZenonT(30) DEF DnsInv, Matched
  <2>5. Cardinality(direct') = Cardinality(direct) + 1
    BY <1>1, <2>1, FS_AddElement, ZenonT(30) DEF Travels, DnsInv, DnsTypes
  <2>6. Count' = Cardinality(Busy')
    BY <1>1, <1>2, <1>4, <2>5, Numbers DEF DnsInv, Matched, Count
  <2>7. \A v \in Busy' : Travels([id |-> v, question |-> pending[v].question])'
            \/ [id |-> v, question |-> pending'[v].question] = m
    <3> SUFFICES ASSUME NEW v \in Busy', [id |-> v, question |-> pending'[v].question] # m
                 PROVE  Travels([id |-> v, question |-> pending[v].question])'
      BY ZenonT(30)
    <3>1. v \in Busy /\ pending'[v] = pending[v]
      BY <1>2, ZenonT(30)
    <3>2. Travels([id |-> v, question |-> pending[v].question])
      BY <1>1, <1>4, <3>1, ZenonT(30) DEF DnsInv, Matched
    <3>3. QED
      BY <1>1, <3>1, <3>2, ZenonT(30) DEF Travels
  <2>8. \A v \in Busy' : Travels([id |-> v, question |-> pending[v].question])'
    BY <1>1, <2>7, ZenonT(30) DEF Travels
  <2>9. QED
    BY <1>1, <1>4, <2>3, <2>4, <2>6, <2>8, ZenonT(30) DEF DnsInv, Matched
<1>5. QED
  BY <1>1, <1>2, <1>3, <1>4, ZenonT(30) DEF DnsInv

\* A request for the upstream; its channel has room for it.
LEMMA UpstreamStepAsk ==
    ASSUME DnsInv, NEW r \in Request, AskUpstream(r)
    PROVE  DnsInv'
<1> DEFINE m == Forwarded(r)
<1>1. session = "open" /\ UNCHANGED <<stray, honest>>
  BY ZenonT(30) DEF AskUpstream, Fresh
<1>2. /\ pending' \in [Ids -> Request \cup {NoRequest}] /\ asked' \subseteq Request
      /\ Transactions' /\ Cardinality(Busy') = Cardinality(Busy) + 1
      /\ m \in Message /\ \A k \in Message : k = m => Completes(k)'
      /\ Cardinality(Busy) < MaxOutstanding
      /\ \A k \in Message : Completes(k) => Completes(k)' /\ k # m
      /\ \A v \in Busy' : \/ v \in Busy /\ pending'[v] = pending[v]
                          \/ [id |-> v, question |-> pending'[v].question] = m
  BY PrepareStep, ZenonT(30) DEF AskUpstream
<1>3. CASE Len(requests) < MaxOutstanding
  <2>1. /\ requests' = Append(requests, m)
        /\ UNCHANGED <<session, outcome, upstream, sent, responses, direct>>
    BY <1>3, ZenonT(30) DEF AskUpstream
  <2> HIDE DEF m
  <2>2. /\ requests' \in Seq(Message) /\ Len(requests') = Len(requests) + 1
        /\ \A k : Holds(requests', k) <=> Holds(requests, k) \/ k = m
        /\ Distinct(requests) /\ ~ Holds(requests, m) => Distinct(requests')
    BY <1>2, <2>1, AppendHolds, ZenonT(30) DEF DnsInv, DnsTypes
  <2>3. DnsTypes'
    BY <1>1, <1>2, <2>1, <2>2, ZenonT(30) DEF DnsInv, DnsTypes
  <2>4. ASSUME honest PROVE Matched'
    <3>1. ~ Travels(m)
      BY <1>1, <1>2, <2>4, ZenonT(30) DEF DnsInv, Matched
    <3>2. \A k : Travels(k)' <=> Travels(k) \/ k = m
      BY <2>1, <2>2, ZenonT(30) DEF Travels
    <3>3. Apart'
      BY <1>1, <1>2, <2>1, <2>2, <2>4, <3>1, ZenonT(30) DEF DnsInv, Matched, Apart, Travels
    <3>4. \A k \in Message : Travels(k)' => Completes(k)'
      BY <1>1, <1>2, <2>4, <3>2, ZenonT(30) DEF DnsInv, Matched
    <3>5. Count' = Cardinality(Busy')
      BY <1>1, <1>2, <2>1, <2>2, <2>4, Numbers DEF DnsInv, Matched, Count
    <3>6. \A v \in Busy' : \A k :
             k = [id |-> v, question |-> pending'[v].question] => Travels(k)'
      BY <1>1, <1>2, <2>4, <3>2, ZenonT(30) DEF DnsInv, Matched
    <3>7. \A v \in Busy' : Travels([id |-> v, question |-> pending[v].question])'
      BY <3>6, ZenonT(30) DEF Travels
    <3>8. QED
      BY <1>1, <2>1, <2>4, <3>3, <3>4, <3>5, <3>7, ZenonT(30) DEF DnsInv, Matched
  <2>5. QED
    BY <1>1, <1>2, <2>1, <2>3, <2>4, ZenonT(30) DEF DnsInv
<1>4. CASE ~ (Len(requests) < MaxOutstanding)
  <2>1. End("queue_full")
    BY <1>4, ZenonT(30) DEF AskUpstream
  <2>2. ~ honest
    BY <1>1, <1>2, <1>4, Numbers DEF DnsInv, Matched, Count
  <2>3. DnsTypes'
    BY <1>1, <1>2, <2>1, EmptyHolds, FS_EmptySet, ZenonT(30) DEF DnsInv, DnsTypes, End
  <2>4. QED
    BY <1>1, <1>2, <2>1, <2>2, <2>3, ZenonT(30) DEF DnsInv, End
<1>5. QED
  BY <1>3, <1>4, ZenonT(30)

-----------------------------------------------------------------------------
\* The answer of the physical resolver.
LEMMA AnswerDirectStep ==
    ASSUME DnsInv, NEW m \in Message, AnswerDirect(m)
    PROVE  DnsInv'
<1>1. session # "ended" /\ m \in direct /\ Travels(m)
  BY ZenonT(30) DEF AnswerDirect, Travels
<1>2. CASE Completes(m)
  <2>1. /\ Delivers(m) /\ direct' = direct \ {m}
        /\ UNCHANGED <<session, outcome, requests, upstream, sent, responses, honest>>
    BY <1>2, ZenonT(30) DEF AnswerDirect
  <2>2. /\ pending' \in [Ids -> Request \cup {NoRequest}] /\ asked' \subseteq Request
        /\ Transactions' /\ ~ stray' /\ Cardinality(Busy') = Cardinality(Busy) - 1
        /\ \A k \in Message : Completes(k) /\ k # m => Completes(k)'
        /\ \A v \in Busy' : /\ v \in Busy /\ pending'[v] = pending[v]
                            /\ [id |-> v, question |-> pending[v].question] # m
    BY <1>2, <2>1, DeliverStep, ZenonT(30)
  <2>3. /\ IsFiniteSet(direct') /\ Cardinality(direct') = Cardinality(direct) - 1
    BY <1>1, <2>1, FS_RemoveElement, ZenonT(30) DEF DnsInv, DnsTypes
  <2>4. DnsTypes'
    BY <2>1, <2>2, <2>3, ZenonT(30) DEF DnsInv, DnsTypes
  <2>5. ASSUME honest PROVE Matched'
    <3>1. Apart' /\ \A k \in Message : Travels(k)' => Travels(k) /\ k # m
      BY <1>1, <2>1, <2>5, ZenonT(30) DEF DnsInv, Matched, Apart, Travels
    <3>2. \A k \in Message : Travels(k)' => Completes(k)'
      BY <1>1, <2>2, <2>5, <3>1, ZenonT(30) DEF DnsInv, Matched
    <3>3. ASSUME session = "open" PROVE Count' = Cardinality(Busy')
      <4>1. Count = Cardinality(Busy)
        BY <2>5, <3>3, ZenonT(30) DEF DnsInv, Matched
      <4>2. /\ Cardinality(direct') = Cardinality(direct) - 1
            /\ Cardinality(Busy') = Cardinality(Busy) - 1
            /\ UNCHANGED <<requests, sent, responses>>
        BY <2>1, <2>2, <2>3, ZenonT(30)
      <4>3. QED
        BY <4>1, <4>2, Numbers DEF Count
    <3>4. ASSUME session = "open", NEW v \in Busy', NEW k,
                 k = [id |-> v, question |-> pending'[v].question]
          PROVE  Travels(k)'
      <4>1. Travels(k) /\ k # m
        BY <2>2, <2>5, <3>4, ZenonT(30) DEF DnsInv, Matched
      <4>2. QED
        BY <2>1, <4>1, ZenonT(30) DEF Travels
    <3>5. session = "open" => \A v \in Busy' : Travels([id |-> v, question |-> pending[v].question])'
      BY <3>4, ZenonT(30) DEF Travels
    <3>6. QED
      BY <1>1, <2>1, <2>5, <3>1, <3>2, <3>3, <3>5, ZenonT(30) DEF DnsInv, Matched
  <2>6. QED
    BY <2>1, <2>2, <2>4, <2>5, ZenonT(30) DEF DnsInv
<1>3. CASE ~ Completes(m)
  <2>1. End("unsolicited") /\ UNCHANGED <<pending, asked, stray, honest>>
    BY <1>3, ZenonT(30) DEF AnswerDirect
  <2>2. ~ honest
    BY <1>1, <1>3, ZenonT(30) DEF DnsInv, Matched
  <2>3. QED
    BY <2>1, <2>2, EndStep, ZenonT(30) DEF DnsInv, DnsTypes
<1>4. QED
  BY <1>2, <1>3, ZenonT(30)

\* The answer of the upstream.
LEMMA AnswerUpstreamStep ==
    ASSUME DnsInv, AnswerUpstream
    PROVE  DnsInv'
<1> DEFINE m == Head(responses)
<1>1. session # "ended" /\ responses # <<>> /\ responses \in Seq(Message)
  BY ZenonT(30) DEF AnswerUpstream, DnsInv, DnsTypes
<1>2. m \in Message /\ Tail(responses) \in Seq(Message)
  BY <1>1, SeqTail, ZenonT(30)
<1>3. honest =>
        /\ Holds(responses, m) /\ Len(Tail(responses)) = Len(responses) - 1
        /\ \A k : Holds(Tail(responses), k) <=> Holds(responses, k) /\ k # m
        /\ Distinct(Tail(responses))
  BY <1>1, TailHolds, ZenonT(30) DEF DnsInv, Matched, Apart
<1>4. CASE Completes(m)
  <2>1. /\ Delivers(m) /\ responses' = Tail(responses)
        /\ UNCHANGED <<session, outcome, requests, upstream, sent, direct, honest>>
    BY <1>4, ZenonT(30) DEF AnswerUpstream
  <2>2. /\ pending' \in [Ids -> Request \cup {NoRequest}] /\ asked' \subseteq Request
        /\ Transactions' /\ ~ stray' /\ Cardinality(Busy') = Cardinality(Busy) - 1
        /\ \A k \in Message : Completes(k) /\ k # m => Completes(k)'
        /\ \A v \in Busy' : /\ v \in Busy /\ pending'[v] = pending[v]
                            /\ [id |-> v, question |-> pending[v].question] # m
    BY <1>2, <1>4, <2>1, DeliverStep, ZenonT(30)
  <2> HIDE DEF m
  <2>3. DnsTypes'
    BY <1>2, <2>1, <2>2, ZenonT(30) DEF DnsInv, DnsTypes
  <2>4. ASSUME honest PROVE Matched'
    <3>1. Apart' /\ \A k \in Message : Travels(k)' => Travels(k) /\ k # m
      BY <1>1, <1>2, <1>3, <2>1, <2>4, ZenonT(30) DEF DnsInv, Matched, Apart, Travels
    <3>2. \A k \in Message : Travels(k)' => Completes(k)'
      BY <1>1, <2>2, <2>4, <3>1, ZenonT(30) DEF DnsInv, Matched
    <3>3. ASSUME session = "open" PROVE Count' = Cardinality(Busy')
      <4>1. Len(responses') = Len(responses) - 1 /\ Count = Cardinality(Busy)
        BY <1>3, <2>1, <2>4, <3>3, ZenonT(30) DEF DnsInv, Matched
      <4>2. UNCHANGED <<requests, sent, direct>> /\ Cardinality(Busy') = Cardinality(Busy) - 1
        BY <2>1, <2>2, ZenonT(30)
      <4>3. QED
        BY <4>1, <4>2, Numbers DEF Count
    <3>4. ASSUME session = "open", NEW v \in Busy', NEW k,
                 k = [id |-> v, question |-> pending'[v].question]
          PROVE  Travels(k)'
      <4>1. Travels(k) /\ k # m
        BY <2>2, <2>4, <3>4, ZenonT(30) DEF DnsInv, Matched
      <4>2. QED
        BY <1>3, <2>1, <2>4, <4>1, ZenonT(30) DEF Travels
    <3>5. session = "open" => \A v \in Busy' : Travels([id |-> v, question |-> pending[v].question])'
      BY <3>4, ZenonT(30) DEF Travels
    <3>6. QED
      BY <1>1, <2>1, <2>4, <3>1, <3>2, <3>3, <3>5, ZenonT(30) DEF DnsInv, Matched
  <2>5. QED
    BY <2>1, <2>2, <2>3, <2>4, ZenonT(30) DEF DnsInv
<1>5. CASE ~ Completes(m)
  <2>1. End("unsolicited") /\ UNCHANGED <<pending, asked, stray, honest>>
    BY <1>5, ZenonT(30) DEF AnswerUpstream
  <2>2. ~ honest
    BY <1>1, <1>2, <1>3, <1>5, ZenonT(30) DEF DnsInv, Matched, Travels
  <2>3. QED
    BY <2>1, <2>2, EndStep, ZenonT(30) DEF DnsInv, DnsTypes
<1>6. QED
  BY <1>4, <1>5, ZenonT(30)

\* What moves from one place to another goes on travelling.
LEMMA MovedStep ==
    ASSUME DnsInv, session = "open", UNCHANGED <<session, outcome, pending, direct, asked, stray>>,
           DnsTypes', upstream' = "idle" => sent' = {},
           honest' => /\ honest /\ Apart' /\ Count' = Count
                      /\ \A k \in Message : Travels(k)' <=> Travels(k)
    PROVE  DnsInv'
<1>1. Busy' = Busy /\ \A k \in Message : Completes(k)' <=> Completes(k)
  BY ZenonT(30) DEF Busy, Completes
<1>2. Transactions'
  BY <1>1, ZenonT(30) DEF DnsInv, Transactions
<1>3. ASSUME honest' PROVE Matched'
  <2>1. \A u \in Busy : [id |-> u, question |-> pending[u].question] \in Message
    BY ZenonT(30) DEF Busy, DnsInv, DnsTypes, Message, Request
  <2>2. \A u \in Busy : \A k :
           k = [id |-> u, question |-> pending[u].question] => Travels(k)'
    BY <1>3, <2>1, ZenonT(30) DEF DnsInv, Matched
  <2>3. \A u \in Busy' : Travels([id |-> u, question |-> pending[u].question])'
    BY <1>1, <2>2, ZenonT(30) DEF Travels
  <2>4. QED
    BY <1>1, <1>3, <2>3, ZenonT(30) DEF DnsInv, Matched
<1>4. QED
  BY <1>2, <1>3, ZenonT(30) DEF DnsInv

\* The upstream task takes a request from its channel.
LEMMA TakenStep ==
    ASSUME DnsInv, Connect \/ Forward
    PROVE  DnsInv'
<1> DEFINE m == Head(requests)
<1>1. /\ session = "open" /\ requests # <<>> /\ sent' = sent \cup {m} /\ requests' = Tail(requests)
      /\ upstream' \in {"connecting", "open"}
      /\ UNCHANGED <<session, outcome, pending, responses, direct, asked, stray, honest>>
  BY ZenonT(30) DEF Connect, Forward, DnsInv
<1>2. requests \in Seq(Message) /\ m \in Message /\ Tail(requests) \in Seq(Message)
  BY <1>1, SeqTail, ZenonT(30) DEF DnsInv, DnsTypes
<1>3. honest =>
        /\ Holds(requests, m) /\ Len(Tail(requests)) = Len(requests) - 1
        /\ \A k : Holds(Tail(requests), k) <=> Holds(requests, k) /\ k # m
        /\ Distinct(Tail(requests))
  BY <1>1, <1>2, TailHolds, ZenonT(30) DEF DnsInv, Matched, Apart
<1> HIDE DEF m
<1>4. IsFiniteSet(sent') /\ (m \notin sent => Cardinality(sent') = Cardinality(sent) + 1)
  BY <1>1, FS_AddElement, ZenonT(30) DEF DnsInv, DnsTypes
<1>5. DnsTypes'
  BY <1>1, <1>2, <1>4, ZenonT(30) DEF DnsInv, DnsTypes
<1>6. ASSUME honest
      PROVE  Apart' /\ Count' = Count /\ \A k \in Message : Travels(k)' <=> Travels(k)
  <2>1. Apart /\ m \notin sent
    BY <1>1, <1>2, <1>3, <1>6, ZenonT(30) DEF DnsInv, Matched, Apart
  <2>2. Apart'
    BY <1>1, <1>2, <1>3, <1>6, <2>1, ZenonT(30) DEF Apart
  <2>3. Count' = Count
    BY <1>1, <1>3, <1>4, <1>6, <2>1, Numbers DEF Count
  <2>4. \A k \in Message : Travels(k)' <=> Travels(k)
    BY <1>1, <1>3, <1>6, ZenonT(30) DEF Travels
  <2>5. QED
    BY <2>2, <2>3, <2>4, ZenonT(30)
<1>7. QED
  BY <1>1, <1>5, <1>6, MovedStep, ZenonT(30)

\* The server says something, usually an answer.
LEMMA RespondStep ==
    ASSUME DnsInv, NEW m \in Message, Respond(m)
    PROVE  DnsInv'
<1>1. /\ session = "open" /\ upstream = "open" /\ upstream' = "open"
      /\ sent' = sent \ {m} /\ responses' = Append(responses, m) /\ honest' = (honest /\ m \in sent)
      /\ UNCHANGED <<session, outcome, pending, requests, direct, asked, stray>>
  BY ZenonT(30) DEF Respond
<1>2. /\ responses' \in Seq(Message) /\ Len(responses') = Len(responses) + 1
      /\ \A k : Holds(responses', k) <=> Holds(responses, k) \/ k = m
      /\ Distinct(responses) /\ ~ Holds(responses, m) => Distinct(responses')
  BY <1>1, AppendHolds, ZenonT(30) DEF DnsInv, DnsTypes
<1>3. IsFiniteSet(sent') /\ (m \in sent => Cardinality(sent') = Cardinality(sent) - 1)
  BY <1>1, FS_RemoveElement, ZenonT(30) DEF DnsInv, DnsTypes
<1>4. DnsTypes'
  BY <1>1, <1>2, <1>3, ZenonT(30) DEF DnsInv, DnsTypes
<1>5. ASSUME honest'
      PROVE  honest /\ Apart' /\ Count' = Count /\ \A k \in Message : Travels(k)' <=> Travels(k)
  <2>1. honest /\ m \in sent /\ Apart
    BY <1>1, <1>5, ZenonT(30) DEF DnsInv, Matched
  <2>2. Apart'
    BY <1>1, <1>2, <2>1, ZenonT(30) DEF Apart
  <2>3. Count' = Count
    BY <1>1, <1>2, <1>3, <2>1, Numbers DEF Count
  <2>4. \A k \in Message : Travels(k)' <=> Travels(k)
    BY <1>1, <1>2, <2>1, ZenonT(30) DEF Travels
  <2>5. QED
    BY <2>1, <2>2, <2>3, <2>4, ZenonT(30)
<1>6. QED
  BY <1>1, <1>4, <1>5, MovedStep, ZenonT(30)

\* The upstream task ends: what it had is lost, what came back is not.
LEMMA UpstreamEndsStep ==
    ASSUME DnsInv, UpstreamEnds
    PROVE  DnsInv'
<1>1. /\ session = "open" /\ session' = "flush" /\ upstream' = "idle" /\ requests' = <<>> /\ sent' = {}
      /\ UNCHANGED <<outcome, pending, responses, direct, asked, stray, honest>>
  BY ZenonT(30) DEF UpstreamEnds
<1>2. DnsTypes'
  BY <1>1, EmptyHolds, FS_EmptySet, ZenonT(30) DEF DnsInv, DnsTypes
<1>3. Busy' = Busy /\ \A k \in Message : Completes(k)' <=> Completes(k)
  BY <1>1, ZenonT(30) DEF Busy, Completes
<1>4. Transactions'
  BY <1>1, <1>3, ZenonT(30) DEF DnsInv, Transactions
<1>5. ASSUME honest PROVE Matched'
  <2>1. Apart' /\ \A k \in Message : Travels(k)' => Travels(k)
    BY <1>1, <1>5, EmptyHolds, ZenonT(30) DEF DnsInv, Matched, Apart, Travels
  <2>2. QED
    BY <1>1, <1>3, <1>5, <2>1, ZenonT(30) DEF DnsInv, Matched
<1>6. QED
  BY <1>1, <1>2, <1>4, <1>5, ZenonT(30) DEF DnsInv

-----------------------------------------------------------------------------
\* DnsInv is inductive.
LEMMA DnsPreserves == DnsInv /\ [DnsNext]_dnsVars => DnsInv'
<1> SUFFICES ASSUME DnsInv, [DnsNext]_dnsVars PROVE DnsInv'
  BY ZenonT(30)
<1>1. ASSUME NEW r \in Request, RefuseRequest(r) PROVE DnsInv'
  <2>1. /\ End("limit") /\ UNCHANGED <<pending, stray, honest>>
        /\ asked \subseteq asked' /\ asked' \subseteq Request
    BY <1>1, ZenonT(30) DEF RefuseRequest, DnsInv, DnsTypes
  <2>2. QED
    BY <2>1, EndStep, ZenonT(30)
<1>2. CASE Abandon
  BY <1>2, EndStep, ZenonT(30) DEF Abandon, DnsInv, DnsTypes
<1>3. CASE Finish
  BY <1>3, EndStep, ZenonT(30) DEF Finish, DnsInv, DnsTypes
<1>4. ASSUME NEW m \in direct, AnswerDirect(m) PROVE DnsInv'
  BY <1>4, AnswerDirectStep, ZenonT(30) DEF DnsInv, DnsTypes
<1>5. CASE Connected
  <2>1. /\ session = "open" /\ upstream' = "open"
        /\ UNCHANGED <<session, outcome, pending, requests, sent, responses, direct, asked, stray, honest>>
    BY <1>5, ZenonT(30) DEF Connected
  <2>2. DnsTypes'
    BY <2>1, ZenonT(30) DEF DnsInv, DnsTypes
  <2>3. honest => /\ Apart' /\ Count' = Count
                  /\ \A k \in Message : Travels(k)' <=> Travels(k)
    BY <2>1, ZenonT(30) DEF DnsInv, Matched, Apart, Count, Travels
  <2>4. QED
    BY <2>1, <2>2, <2>3, MovedStep, ZenonT(30)
<1>6. CASE UNCHANGED dnsVars
  BY <1>6, ZenonT(30) DEF dnsVars, DnsInv, DnsTypes, Transactions, Busy, Matched, Apart, Travels, Count, Completes
<1>7. ASSUME NEW r \in Request, Coalesce(r) \/ AskDirect(r) \/ AskUpstream(r) PROVE DnsInv'
  BY <1>7, CoalesceStep, DirectStep, UpstreamStepAsk, ZenonT(30)
<1>8. CASE AnswerUpstream \/ UpstreamEnds
  BY <1>8, AnswerUpstreamStep, UpstreamEndsStep, ZenonT(30)
<1>9. CASE Connect \/ Forward
  BY <1>9, TakenStep, ZenonT(30)
<1>10. ASSUME NEW m \in Message, Respond(m) PROVE DnsInv'
  BY <1>10, RespondStep, ZenonT(30)
<1>11. QED
  BY <1>1, <1>2, <1>3, <1>4, <1>5, <1>6, <1>7, <1>8, <1>9, <1>10, ZenonT(30) DEF DnsNext, DnsStep, UpstreamStep

\* A session that was asked nothing.
LEMMA DnsStarts == DnsInit => DnsInv
<1> SUFFICES ASSUME DnsInit PROVE DnsInv
  BY ZenonT(30)
<1>1. DnsTypes
  BY EmptyHolds, FS_EmptySet, ZenonT(30) DEF DnsInit, DnsTypes
<1>2. Busy = {}
  BY ZenonT(30) DEF DnsInit, Busy
<1>3. Transactions
  BY <1>2, FS_EmptySet, DnsOverTcpAssumption DEF Transactions
<1>4. Matched
  <2>1. requests = <<>> /\ responses = <<>> /\ sent = {} /\ direct = {} /\ outcome = "none"
    BY ZenonT(30) DEF DnsInit
  <2>2. Apart /\ \A m : ~ Travels(m)
    BY <2>1, EmptyHolds, ZenonT(30) DEF Apart, Travels
  <2>3. Count = Cardinality(Busy)
    BY <1>2, <2>1, EmptyHolds, FS_EmptySet DEF Count
  <2>4. QED
    BY <1>2, <2>1, <2>2, <2>3, ZenonT(30) DEF Matched
<1>5. QED
  BY <1>1, <1>3, <1>4, ZenonT(30) DEF DnsInv, DnsInit

\* The invariant holds throughout, whatever the resolvers answer and when.
THEOREM DnsInvariant == DnsSpec => []DnsInv
BY DnsStarts, DnsPreserves, PTL DEF DnsSpec

\* The client of a DNS session gets answers to its own open requests only.
THEOREM AnswersSolicited == DnsSpec => []NoStrayAnswer
<1>1. DnsInv => NoStrayAnswer
  BY ZenonT(30) DEF DnsInv, NoStrayAnswer
<1>2. QED
  BY <1>1, DnsInvariant, PTL

\* MAX_OUTSTANDING_DNS_QUERIES also bounds the channel to the upstream task.
THEOREM TransactionsPlaced == DnsSpec => []OnePlace
<1>1. DnsInv => OnePlace
  <2> SUFFICES ASSUME DnsInv PROVE OnePlace
    BY ZenonT(30)
  <2> DEFINE A == Entries(requests)
             B == Entries(responses)
             places == <<A, sent, B, direct>>
             of == {[id |-> u, question |-> pending[u].question] : u \in Busy}
  <2>1. Cardinality(Busy) <= MaxOutstanding /\ (honest => outcome \notin {"unsolicited", "queue_full"})
    BY ZenonT(30) DEF DnsInv, Transactions, Matched
  <2>2. /\ \A m : m \in A <=> Holds(requests, m)
        /\ \A m : m \in B <=> Holds(responses, m)
    BY ZenonT(30) DEF Entries, Holds
  <2>3. A \subseteq Message /\ B \subseteq Message /\ sent \subseteq Message /\ direct \subseteq Message
    BY SeqLength DEF Entries, DnsInv, DnsTypes
  <2> HIDE DEF A, B
  <2>4. ASSUME honest, session = "open"
        PROVE  /\ A \cup sent \cup B \cup direct = of
               /\ Len(requests) + Cardinality(sent) + Len(responses) + Cardinality(direct) = Cardinality(Busy)
               /\ \A i, j \in 1 .. 4 : i # j => places[i] \cap places[j] = {}
    <3>1. \A m \in A \cup sent \cup B \cup direct : m \in of
      <4> SUFFICES ASSUME NEW m \in A \cup sent \cup B \cup direct PROVE m \in of
        BY ZenonT(30)
      <4>1. m \in Message /\ Completes(m)
        BY <2>2, <2>3, <2>4, ZenonT(30) DEF DnsInv, Matched, Travels
      <4>2. m.id \in Busy /\ m = [id |-> m.id, question |-> pending[m.id].question]
        BY <4>1, ZenonT(30) DEF Message, Completes, Busy
      <4>3. QED
        BY <4>2, ZenonT(30)
    <3>2. \A m \in of : m \in A \cup sent \cup B \cup direct
      BY <2>2, <2>4, ZenonT(30) DEF DnsInv, Matched, Travels
    <3>3. Len(requests) + Cardinality(sent) + Len(responses) + Cardinality(direct) = Cardinality(Busy)
      BY <2>4, ZenonT(30) DEF DnsInv, Matched, Count
    <3>4. /\ A \cap sent = {} /\ A \cap B = {} /\ A \cap direct = {}
          /\ sent \cap B = {} /\ sent \cap direct = {} /\ B \cap direct = {}
      BY <2>2, <2>3, <2>4, ZenonT(30) DEF DnsInv, Matched, Apart
    <3>5. \A i, j \in 1 .. 4 : i # j => places[i] \cap places[j] = {}
      <4>1. places[1] = A /\ places[2] = sent /\ places[3] = B /\ places[4] = direct
        BY ZenonT(30)
      <4>2. \A i \in 1 .. 4 : i = 1 \/ i = 2 \/ i = 3 \/ i = 4
        OBVIOUS
      <4> HIDE DEF places
      <4>3. QED
        BY <3>4, <4>1, <4>2, ZenonT(30)
    <3>6. QED
      BY <3>1, <3>2, <3>3, <3>5, ZenonT(30)
  <2>5. QED
    BY <2>1, <2>4, ZenonT(30) DEF OnePlace, A, B
<1>2. QED
  BY <1>1, DnsInvariant, PTL

-----------------------------------------------------------------------------
Replies == {"answer", "nxdomain", "refused", "truncated", "error"}

Tries == [server : Range(Candidates), via : {"udp", "tcp"}, got : Replies]

Stages ==
    {"absent", "idle", "ask", "exchange", "concluded", "rejected", "dropped", "replied", "address", "unresolved"}

Codes == {"none", "capacity", "proxied", "failed", "answer", "nxdomain", "servfail"}

Searching ==
    [at : Stages, server : Servers, via : {"udp", "tcp"}, attempt : {1, 2}, depth : Nat, code : Codes]

Try(s, got) == [server |-> Candidates[s.server], via |-> s.via, got |-> got]

(* What was tried, by what came of it: the tries T that gave a reply, and  *)
(* whether they show a reason to pass over the resolver a.                 *)
Given(T) == {try \in T : try.got \in {"answer", "nxdomain"}}

Past(T, a) == \E try \in T : try.server = a /\ (try.got = "refused" \/ (try.via = "tcp" /\ try.got = "error"))

(* A search has passed over every resolver before the one it is at, and    *)
(* has asked none after it.                                                *)
Ordered(s, T) ==
    /\ \A i \in Servers : i < s.server => Past(T, Candidates[i])
    /\ \A try \in T : \E i \in Servers : i <= s.server /\ try.server = Candidates[i]

(* What the stage of a search tells of the replies it has had.             *)
Asking(s, T) == s.code = "none" /\ Ordered(s, T) /\ Given(T) = {}

Concluded(s, T) ==
    \/ s.code \in {"capacity", "proxied"} /\ T = {}
    \/ s.code = "failed" /\ Given(T) = {} /\ \A i \in Servers : Past(T, Candidates[i])
    \/ /\ s.code \in {"answer", "nxdomain"} /\ Ordered(s, T) /\ Given(T) # {}
       /\ \A try \in Given(T) : try.got = s.code /\ try.server = Candidates[s.server]

Elsewhere(s, T) ==
    /\ T = {}
    /\ s.at \in {"idle", "exchange"} => s.code = "none" /\ s.server = FirstOf(Servers)

Stage(s, T) ==
    /\ s.at = "ask" => Asking(s, T)
    /\ s.at = "concluded" => Concluded(s, T)
    /\ s.at \notin {"ask", "concluded"} => Elsewhere(s, T)

PhysicalInv ==
    /\ search \in [Searches -> Searching] /\ trail \in [Searches -> SUBSET Tries]
    /\ \A q \in Searches : Stage(search[q], trail[q])

-----------------------------------------------------------------------------
\* FirstOf is the least of the places.
LEMMA FirstOfLeast ==
    ASSUME NEW S \in SUBSET Nat, S # {}
    PROVE  FirstOf(S) \in S /\ \A m \in S : FirstOf(S) <= m
  BY Least, ZenonT(30) DEF FirstOf

\* The candidates are a sequence.
LEMMA CandidatesSeq ==
    /\ Len(Candidates) \in Nat /\ DOMAIN Candidates = 1 .. Len(Candidates)
    /\ Candidates \in Seq(Range(Candidates))
<1> DEFINE S == Range(Preferred) \cup Range(OfInterface) \cup {ConfiguredDns}
<1>1. Preferred \in Seq(S) /\ OfInterface \in Seq(S) /\ <<ConfiguredDns>> \in Seq(S)
  <2>1. \A T : T \subseteq S => Seq(T) \subseteq Seq(S)
    BY SeqWider
  <2>2. QED
    BY <2>1, PhysicalDnsAssumption
<1> HIDE DEF S
<1>2. Candidates \in Seq(S)
  BY <1>1 DEF Candidates
<1>3. Len(Candidates) \in Nat /\ DOMAIN Candidates = 1 .. Len(Candidates)
  BY <1>2
<1>4. \A i \in 1 .. Len(Candidates) : Candidates[i] \in Range(Candidates)
  BY <1>3, ZenonT(30) DEF Range
<1>5. QED
  BY <1>2, <1>3, <1>4, SeqNarrower

\* A place of the list names a usable resolver, and no two the same one.
LEMMA ServersPlaces ==
    /\ Servers \in SUBSET Nat /\ \A i \in Servers : i \in Nat
    /\ \A i \in Servers : Candidates[i] \in Range(Candidates)
    /\ \A i, j \in Servers : Candidates[i] = Candidates[j] => i = j
<1>1. Servers \in SUBSET Nat
  BY CandidatesSeq DEF Servers
<1>2. \A i \in Servers : Candidates[i] \in Range(Candidates)
  BY CandidatesSeq, ZenonT(30) DEF Servers, Range
<1>3. \A i, j \in Servers : i < j => Candidates[i] # Candidates[j]
  BY CandidatesSeq DEF Servers
<1>4. QED
  BY <1>1, <1>2, <1>3

\* Places compare as numbers do.
LEMMA PlacesCompare ==
    \A i, j \in Servers :
        /\ i \in Nat /\ i <= i
        /\ i <= j => i < j \/ i = j
        /\ i <= j => ~ (j < i)
        /\ ~ (i > j) => i <= j
        /\ i > j => j < i /\ j <= i
        /\ i < j => i <= j
        /\ \A k \in Servers : (i <= j /\ j <= k) => i <= k
<1> SUFFICES ASSUME NEW S, S \subseteq Nat
             PROVE  \A i, j \in S :
                       /\ i \in Nat /\ i <= i
                       /\ i <= j => i < j \/ i = j
                       /\ i <= j => ~ (j < i)
                       /\ ~ (i > j) => i <= j
                       /\ i > j => j < i /\ j <= i
                       /\ i < j => i <= j
                       /\ \A k \in S : (i <= j /\ j <= k) => i <= k
  BY ServersPlaces, Zenon
<1>1. QED
  BY SMT

\* Every usable resolver has its place: that of its first mention.
LEMMA UsablePlaced ==
    ASSUME NEW a \in Usable
    PROVE  \E i \in Servers : Candidates[i] = a
<1> DEFINE S == {i \in 1 .. Len(Candidates) : Candidates[i] = a}
<1>1. S \in SUBSET Nat /\ S # {}
  BY CandidatesSeq DEF Usable, Range
<1>2. PICK n \in S : \A m \in S : n <= m
  <2> HIDE DEF S
  <2>1. QED
    BY <1>1, Least, ZenonT(30)
<1>3. \A j \in 1 .. n - 1 : Candidates[j] # a
  BY <1>2, CandidatesSeq
<1>4. QED
  BY <1>2, <1>3, ZenonT(30) DEF Servers, Usable

\* The list is not empty, and begins with its first place.
LEMMA FirstServer == FirstOf(Servers) \in Servers /\ \A i \in Servers : FirstOf(Servers) <= i
<1>1. Servers # {}
  BY UsablePlaced, PhysicalDnsAssumption, ZenonT(30)
<1>2. QED
  BY <1>1, ServersPlaces, FirstOfLeast, ZenonT(30)

-----------------------------------------------------------------------------
\* A search that has not begun is well formed.
LEMMA BeginTypes ==
    /\ Begin \in Searching /\ Begin.server = FirstOf(Servers) /\ Begin.code = "none"
    /\ \A at \in Stages : [Begin EXCEPT !.at = at] \in Searching
    /\ \A at \in Stages, code \in Codes : [Begin EXCEPT !.at = at, !.code = code] \in Searching
    /\ \A d \in Nat : [Begin EXCEPT !.at = "ask", !.depth = d] \in Searching
  BY FirstServer, ZenonT(30) DEF Begin, Searching, Stages, Codes

\* A search begins at the first resolver with nothing tried.
LEMMA FreshSearch ==
    ASSUME NEW s, s.at = "ask", s.code = "none", s.server = FirstOf(Servers)
    PROVE  Stage(s, {})
<1>1. \A i \in Servers : ~ (i < s.server)
  <2>1. \A i \in Servers : FirstOf(Servers) <= i => ~ (i < FirstOf(Servers))
    BY FirstServer, PlacesCompare
  <2>2. QED
    BY <2>1, FirstServer
<1>2. QED
  BY <1>1, ZenonT(30) DEF Stage, Asking, Ordered, Given

\* Outside the search there is nothing tried.
LEMMA Quiet ==
    ASSUME NEW s, s.at \notin {"ask", "concluded", "idle", "exchange"}
    PROVE  Stage(s, {})
  BY ZenonT(30) DEF Stage, Elsewhere

\* One question moves on; the others are as they were.
LEMMA OneQuestion ==
    ASSUME PhysicalInv, NEW q \in Searches, NEW s \in Searching, NEW T \in SUBSET Tries,
           search' = [search EXCEPT ![q] = s], trail' = [trail EXCEPT ![q] = T], Stage(s, T)
    PROVE  PhysicalInv'
<1>1. search' \in [Searches -> Searching] /\ trail' \in [Searches -> SUBSET Tries]
  BY ZenonT(30) DEF PhysicalInv
<1>2. ASSUME NEW p \in Searches
      PROVE  Stage(search'[p], trail'[p])
  <2>1. CASE p = q
    BY <2>1, ZenonT(30) DEF PhysicalInv
  <2>2. CASE p # q
    BY <2>2, ZenonT(30) DEF PhysicalInv
  <2>3. QED
    BY <2>1, <2>2, ZenonT(30)
<1>3. QED
  BY <1>1, <1>2, Zenon DEF PhysicalInv

-----------------------------------------------------------------------------
\* What one more reply does to the tries of a search.
LEMMA OneMoreTry ==
    ASSUME NEW s \in Searching, NEW T \in SUBSET Tries, NEW got \in Replies, Asking(s, T)
    PROVE  /\ T \cup {Try(s, got)} \in SUBSET Tries
           /\ \A a : Past(T, a) => Past(T \cup {Try(s, got)}, a)
           /\ Ordered(s, T \cup {Try(s, got)})
           /\ got \notin {"answer", "nxdomain"} => Given(T \cup {Try(s, got)}) = {}
           /\ got \in {"answer", "nxdomain"} => Given(T \cup {Try(s, got)}) = {Try(s, got)}
<1>1. /\ Try(s, got) \in Tries /\ Try(s, got).server = Candidates[s.server]
      /\ Try(s, got).got = got /\ Try(s, got).via = s.via
  BY ServersPlaces, ZenonT(30) DEF Searching, Tries, Try
<1>2. \A a : Past(T, a) => Past(T \cup {Try(s, got)}, a)
  BY ZenonT(30) DEF Past
<1>3. Ordered(s, T \cup {Try(s, got)})
  <2>1. \A i \in Servers : i < s.server => Past(T \cup {Try(s, got)}, Candidates[i])
    BY <1>2, ZenonT(30) DEF Asking, Ordered
  <2>2. s.server \in Servers /\ s.server <= s.server
    <3>1. s.server \in Servers
      BY ZenonT(30) DEF Searching
    <3>2. QED
      BY <3>1, PlacesCompare, Zenon
  <2>3. \A other \in T \cup {Try(s, got)} : \E i \in Servers : i <= s.server /\ other.server = Candidates[i]
    BY <1>1, <2>2, ZenonT(30) DEF Asking, Ordered
  <2>4. QED
    BY <2>1, <2>3, ZenonT(30) DEF Ordered
<1>4. Given(T) = {}
  BY ZenonT(30) DEF Asking
<1>5. QED
  BY <1>1, <1>2, <1>3, <1>4, ZenonT(30) DEF Given

\* A search that goes on with its resolver.
LEMMA Stays ==
    ASSUME NEW s \in Searching, NEW T \in SUBSET Tries, NEW got \in Replies \ {"answer", "nxdomain"},
           Asking(s, T),
           NEW new, new.at = "ask", new.code = s.code, new.server = s.server
    PROVE  Stage(new, T \cup {Try(s, got)})
<1>1. Ordered(s, T \cup {Try(s, got)}) /\ Given(T \cup {Try(s, got)}) = {}
  BY OneMoreTry, ZenonT(30)
<1>2. QED
  BY <1>1, ZenonT(30) DEF Stage, Asking, Ordered

\* A search that ends with a reply.
LEMMA EndsSearch ==
    ASSUME NEW s \in Searching, NEW T \in SUBSET Tries, NEW got \in {"answer", "nxdomain"},
           Asking(s, T)
    PROVE  Concludes(s, got) \in Searching /\ Stage(Concludes(s, got), T \cup {Try(s, got)})
<1>1. Ordered(s, T \cup {Try(s, got)}) /\ Given(T \cup {Try(s, got)}) = {Try(s, got)}
  <2>1. got \in Replies
    BY ZenonT(30) DEF Replies
  <2>2. QED
    BY <2>1, OneMoreTry, ZenonT(30)
<1> DEFINE new == Concludes(s, got)
<1>2. new \in Searching /\ new.at = "concluded" /\ new.code = got /\ new.server = s.server
  BY ZenonT(30) DEF Concludes, Searching, Stages, Codes
<1> HIDE DEF new
<1>3. Ordered(new, T \cup {Try(s, got)})
  BY <1>1, <1>2, ZenonT(30) DEF Ordered
<1>4. Concluded(new, T \cup {Try(s, got)})
  <2>1. Try(s, got).got = new.code /\ Try(s, got).server = Candidates[new.server]
    BY <1>2, ZenonT(30) DEF Try
  <2>2. \A try \in Given(T \cup {Try(s, got)}) : try.got = new.code /\ try.server = Candidates[new.server]
    BY <1>1, <2>1, ZenonT(30)
  <2>3. QED
    BY <1>1, <1>2, <1>3, <2>2, ZenonT(30) DEF Concluded
<1>5. QED
  BY <1>2, <1>4, ZenonT(30) DEF Stage, new

\* A search that passes over its resolver.
LEMMA Passes ==
    ASSUME NEW s \in Searching, NEW T \in SUBSET Tries, NEW got \in {"refused", "error"},
           got = "refused" \/ s.via = "tcp", s.at = "ask",
           Asking(s, T)
    PROVE  NextServer(s) \in Searching /\ Stage(NextServer(s), T \cup {Try(s, got)})
<1> DEFINE new == NextServer(s)
           U == T \cup {Try(s, got)}
           later == {i \in Servers : i > s.server}
<1>1. /\ Given(U) = {} /\ Ordered(s, U)
      /\ s.server \in Servers /\ s.server \in Nat
  <2>1. got \in Replies /\ got \notin {"answer", "nxdomain"}
    BY ZenonT(30) DEF Replies
  <2>2. QED
    BY <2>1, OneMoreTry, ServersPlaces, ZenonT(30) DEF Searching
<1>2. Past(U, Candidates[s.server])
  <2>1. /\ Try(s, got) \in U /\ Try(s, got).server = Candidates[s.server]
        /\ Try(s, got).got = got /\ Try(s, got).via = s.via
    BY ZenonT(30) DEF Try
  <2>2. QED
    BY <2>1, ZenonT(30) DEF Past
<1>3. \A i \in Servers : i <= s.server => Past(U, Candidates[i])
  <2>1. \A i \in Servers : i <= s.server => i < s.server \/ i = s.server
    BY <1>1, PlacesCompare, Zenon
  <2> HIDE DEF U
  <2>2. QED
    BY <1>1, <1>2, <2>1, ZenonT(30) DEF Ordered
<1>4. CASE later = {}
  <2>1. new = Concludes(s, "failed")
    BY <1>4, ZenonT(30) DEF NextServer
  <2>2. new \in Searching /\ new.at = "concluded" /\ new.code = "failed"
    BY <2>1, ZenonT(30) DEF Concludes, Searching, Stages, Codes
  <2>3. \A i \in Servers : i <= s.server
    BY <1>1, <1>4, PlacesCompare, ZenonT(30)
  <2> HIDE DEF new, U
  <2>4. QED
    BY <1>1, <1>3, <2>2, <2>3, ZenonT(30) DEF Stage, Concluded, new, U
<1>5. CASE later # {}
  <2>1. FirstOf(later) \in later /\ \A i \in later : FirstOf(later) <= i
    <3>1. later \in SUBSET Nat
      BY ServersPlaces, ZenonT(30)
    <3> HIDE DEF later
    <3>2. QED
      BY <1>5, <3>1, FirstOfLeast, ZenonT(30)
  <2>2. new = [s EXCEPT !.server = FirstOf(later), !.via = "udp", !.attempt = 1]
    BY <1>5, ZenonT(30) DEF NextServer
  <2>3. new \in Searching /\ new.at = "ask" /\ new.code = "none" /\ new.server = FirstOf(later)
    BY <2>1, <2>2, ZenonT(30) DEF Searching, Asking, Stages, Codes
  <2>4. s.server < new.server /\ \A i \in Servers : i < new.server => i <= s.server
    <3>1. new.server \in Servers /\ new.server > s.server
      BY <2>1, <2>3, ZenonT(30)
    <3>2. \A i \in Servers : i > s.server => new.server <= i
      BY <2>1, <2>3, ZenonT(30)
    <3> HIDE DEF new, U, later
    <3>3. QED
      BY <1>1, <3>1, <3>2, PlacesCompare, Zenon
  <2> HIDE DEF new, U, later
  <2>5. \A i \in Servers : i <= s.server => i <= new.server
    <3>1. new.server \in Servers
      BY <2>3, ZenonT(30) DEF Searching
    <3>2. s.server <= new.server
      BY <1>1, <2>4, <3>1, PlacesCompare, Zenon
    <3>3. QED
      BY <1>1, <3>1, <3>2, PlacesCompare, Zenon
  <2>6. Ordered(new, U)
    BY <1>1, <1>3, <2>4, <2>5, ZenonT(30) DEF Ordered
  <2>7. QED
    BY <1>1, <2>3, <2>6, ZenonT(30) DEF Stage, Asking, new, U
<1>6. QED
  BY <1>4, <1>5, ZenonT(30)

-----------------------------------------------------------------------------
\* The searches start with nothing tried.
LEMMA PhysicalStarts == PhysicalInit => PhysicalInv
<1> SUFFICES ASSUME PhysicalInit
             PROVE  PhysicalInv
  BY ZenonT(30)
<1>1. PICK set \in QuestionSets :
         search = [q \in Searches |-> IF q \in set THEN Begin ELSE [Begin EXCEPT !.at = "absent"]]
  BY ZenonT(30) DEF PhysicalInit
<1>2. trail = [q \in Searches |-> {}]
  BY ZenonT(30) DEF PhysicalInit
<1> DEFINE absent == [Begin EXCEPT !.at = "absent"]
<1>3. absent \in Searching /\ absent.at = "absent" /\ Begin.at = "idle"
  BY BeginTypes, ZenonT(30) DEF Begin, Stages
<1> HIDE DEF absent
<1>4. Stage(absent, {}) /\ Stage(Begin, {})
  BY <1>3, BeginTypes, ZenonT(30) DEF Stage, Elsewhere
<1>5. \A q \in Searches : search[q] \in {Begin, absent} /\ trail[q] = {}
  BY <1>1, <1>2, ZenonT(30) DEF absent
<1>6. search \in [Searches -> Searching] /\ trail \in [Searches -> SUBSET Tries]
  BY <1>1, <1>2, <1>3, BeginTypes, ZenonT(30) DEF absent
<1>7. \A q \in Searches : Stage(search[q], trail[q])
  BY <1>4, <1>5, ZenonT(30)
<1>8. QED
  BY <1>6, <1>7, ZenonT(30) DEF PhysicalInv

\* A question that is received, routed, refused or resolved begins.
LEMMA BeginSteps ==
    ASSUME PhysicalInv, NEW q \in Searches,
           Receive(q) \/ RouteToProxy(q) \/ RejectDatagram(q) \/ ResolveName(q)
    PROVE  PhysicalInv'
<1>1. search[q] \in Searching /\ search[q].at = "idle" /\ trail' = trail
  BY ZenonT(30) DEF PhysicalInv, Receive, RouteToProxy, RejectDatagram, ResolveName
<1>2. trail[q] = {} /\ search[q].code = "none" /\ search[q].server = FirstOf(Servers)
  BY <1>1, ZenonT(30) DEF PhysicalInv, Stage, Elsewhere
<1>3. trail' = [trail EXCEPT ![q] = {}]
  BY <1>1, <1>2, ZenonT(30) DEF PhysicalInv
<1>4. ASSUME NEW at \in {"ask", "exchange", "rejected"},
             search' = [search EXCEPT ![q] = [@ EXCEPT !.at = at]]
      PROVE  PhysicalInv'
  <2> DEFINE new == [search[q] EXCEPT !.at = at]
  <2>1. new \in Searching /\ new.at = at /\ new.code = "none" /\ new.server = FirstOf(Servers)
    BY <1>1, <1>2, ZenonT(30) DEF Searching, Stages
  <2>2. search' = [search EXCEPT ![q] = new]
    BY <1>4, ZenonT(30)
  <2> HIDE DEF new
  <2>3. CASE at = "ask"
    BY <1>3, <2>1, <2>2, <2>3, FreshSearch, OneQuestion, ZenonT(30)
  <2>4. CASE at # "ask"
    <3>1. Stage(new, {})
      BY <2>1, <2>4, ZenonT(30) DEF Stage, Elsewhere
    <3>2. QED
      BY <1>3, <2>1, <2>2, <3>1, OneQuestion, ZenonT(30)
  <2>5. QED
    BY <2>3, <2>4, ZenonT(30)
<1>5. ASSUME search' = [search EXCEPT ![q] = [@ EXCEPT !.at = "concluded", !.code = "capacity"]]
      PROVE  PhysicalInv'
  <2> DEFINE new == [search[q] EXCEPT !.at = "concluded", !.code = "capacity"]
  <2>1. new \in Searching /\ new.at = "concluded" /\ new.code = "capacity"
    BY <1>1, ZenonT(30) DEF Searching, Stages, Codes
  <2>2. search' = [search EXCEPT ![q] = new]
    BY <1>5, ZenonT(30)
  <2> HIDE DEF new
  <2>3. Stage(new, {})
    BY <2>1, ZenonT(30) DEF Stage, Concluded
  <2>4. QED
    BY <1>3, <2>1, <2>2, <2>3, OneQuestion, ZenonT(30)
<1>6. CASE Receive(q)
  <2>1. Accept(q)
    BY <1>6, ZenonT(30) DEF Receive
  <2>2. CASE Cardinality(Holding) < Permits
    BY <1>4, <2>1, <2>2, ZenonT(30) DEF Accept
  <2>3. CASE ~ (Cardinality(Holding) < Permits)
    BY <1>5, <2>1, <2>3, ZenonT(30) DEF Accept
  <2>4. QED
    BY <2>2, <2>3, ZenonT(30)
<1>7. CASE RouteToProxy(q)
  BY <1>4, <1>7, ZenonT(30) DEF RouteToProxy
<1>8. CASE RejectDatagram(q)
  BY <1>4, <1>8, ZenonT(30) DEF RejectDatagram
<1>9. CASE ResolveName(q)
  BY <1>4, <1>9, ZenonT(30) DEF ResolveName
<1>10. QED
  BY <1>6, <1>7, <1>8, <1>9, ZenonT(30)

\* An exchange with the proxy leaves the resolvers alone.
LEMMA ExchangeStep ==
    ASSUME PhysicalInv, NEW q \in Searches, Exchange(q)
    PROVE  PhysicalInv'
<1> DEFINE new == [search[q] EXCEPT !.at = "concluded", !.code = "proxied"]
<1>1. search[q] \in Searching /\ search[q].at = "exchange" /\ trail' = trail
  BY ZenonT(30) DEF PhysicalInv, Exchange
<1>2. trail[q] = {}
  BY <1>1, ZenonT(30) DEF PhysicalInv, Stage, Elsewhere
<1>3. trail' = [trail EXCEPT ![q] = {}]
  BY <1>1, <1>2, ZenonT(30) DEF PhysicalInv
<1>4. new \in Searching /\ new.at = "concluded" /\ new.code = "proxied"
  BY <1>1, ZenonT(30) DEF Searching, Stages, Codes
<1>5. search' = [search EXCEPT ![q] = new]
  BY <1>1, ZenonT(30) DEF Exchange, PhysicalInv, Searching
<1> HIDE DEF new
<1>6. Stage(new, {})
  BY <1>4, ZenonT(30) DEF Stage, Concluded
<1>7. QED
  BY <1>3, <1>4, <1>5, <1>6, OneQuestion, ZenonT(30)

\* A concluded search is given up: answered, resolved, or begun again.
LEMMA EndSteps ==
    ASSUME PhysicalInv, NEW q \in Searches, Reply(q) \/ FollowCname(q) \/ ResolveEnds(q)
    PROVE  PhysicalInv'
<1>1. search[q] \in Searching /\ trail' = [trail EXCEPT ![q] = {}]
  BY ZenonT(30) DEF PhysicalInv, Reply, FollowCname, ResolveEnds
<1>2. ASSUME NEW new \in Searching, search' = [search EXCEPT ![q] = new], Stage(new, {})
      PROVE  PhysicalInv'
  BY <1>1, <1>2, OneQuestion, ZenonT(30)
<1>3. CASE Reply(q)
  <2> DEFINE code == IF search[q].code \in {"failed", "capacity"} THEN "servfail" ELSE search[q].code
             new == [Begin EXCEPT !.at = "replied", !.code = code]
  <2>1. code \in Codes
    BY <1>1, ZenonT(30) DEF Searching, Codes
  <2>2. search' = [search EXCEPT ![q] = new]
    BY <1>3, ZenonT(30) DEF Reply
  <2> HIDE DEF code
  <2>3. new \in Searching /\ new.at = "replied"
    BY <2>1, BeginTypes, ZenonT(30) DEF Stages, Begin
  <2> HIDE DEF new
  <2>4. QED
    BY <1>2, <2>2, <2>3, Quiet, ZenonT(30)
<1>4. CASE FollowCname(q)
  <2> DEFINE d == search[q].depth + 1
             new == [Begin EXCEPT !.at = "ask", !.depth = d]
  <2>1. d \in Nat
    BY <1>1 DEF Searching
  <2>2. search' = [search EXCEPT ![q] = new]
    BY <1>4, ZenonT(30) DEF FollowCname
  <2> HIDE DEF d
  <2>3. new \in Searching /\ new.at = "ask" /\ new.code = "none" /\ new.server = FirstOf(Servers)
    BY <2>1, BeginTypes, ZenonT(30) DEF Begin
  <2> HIDE DEF new
  <2>4. QED
    BY <1>2, <2>2, <2>3, FreshSearch, ZenonT(30)
<1>5. CASE ResolveEnds(q)
  <2>1. PICK got \in {"unresolved"} \cup (IF search[q].code = "answer" THEN {"address"} ELSE {}) :
           search' = [search EXCEPT ![q] = [Begin EXCEPT !.at = got]]
    BY <1>5, ZenonT(30) DEF ResolveEnds
  <2> DEFINE new == [Begin EXCEPT !.at = got]
  <2>2. got \in {"unresolved", "address"}
    BY ZenonT(30)
  <2>3. new \in Searching /\ new.at = got
    BY <2>2, BeginTypes, ZenonT(30) DEF Stages, Begin
  <2>4. search' = [search EXCEPT ![q] = new]
    BY <2>1, ZenonT(30)
  <2> HIDE DEF new
  <2>5. Stage(new, {})
    BY <2>2, <2>3, Quiet, ZenonT(30)
  <2>6. QED
    BY <1>2, <2>3, <2>4, <2>5, ZenonT(30)
<1>6. QED
  BY <1>3, <1>4, <1>5, ZenonT(30)

\* A resolver replies, or fails to: the search stays with it, ends or passes over it.
LEMMA QuerySteps ==
    ASSUME PhysicalInv, NEW q \in Searches, NEW got \in Replies, QueryUdp(q, got) \/ QueryTcp(q, got)
    PROVE  PhysicalInv'
<1> DEFINE s == search[q]
           T == trail[q]
           U == T \cup {Try(s, got)}
<1>1. s \in Searching /\ T \in SUBSET Tries /\ s.at = "ask" /\ Asking(s, T)
  BY ZenonT(30) DEF PhysicalInv, Stage, QueryUdp, QueryTcp
<1>2. trail' = [trail EXCEPT ![q] = U]
  BY ZenonT(30) DEF QueryUdp, QueryTcp, Tried, Try
<1>3. U \in SUBSET Tries
  BY <1>1, OneMoreTry, ZenonT(30)
<1>4. ASSUME NEW new \in Searching, search' = [search EXCEPT ![q] = new], Stage(new, U)
      PROVE  PhysicalInv'
  <2> HIDE DEF U
  <2>1. QED
    BY <1>2, <1>3, <1>4, OneQuestion, ZenonT(30)
<1>5. ASSUME NEW new, new \in Searching, new.at = "ask", new.code = s.code, new.server = s.server,
             got \notin {"answer", "nxdomain"}, search' = [search EXCEPT ![q] = new]
      PROVE  PhysicalInv'
  <2>1. Stage(new, U)
    <3> HIDE DEF s, T
    <3>1. QED
      BY <1>1, <1>5, Stays, ZenonT(30)
  <2> HIDE DEF U, s, T
  <2>2. QED
    BY <1>4, <1>5, <2>1, ZenonT(30)
<1>6. ASSUME got \in {"answer", "nxdomain"}, search' = [search EXCEPT ![q] = Concludes(s, got)]
      PROVE  PhysicalInv'
  <2>1. Concludes(s, got) \in Searching /\ Stage(Concludes(s, got), U)
    <3> HIDE DEF s, T
    <3>1. QED
      BY <1>1, <1>6, EndsSearch, ZenonT(30)
  <2> HIDE DEF U, s, T
  <2>2. QED
    BY <1>4, <1>6, <2>1, ZenonT(30)
<1>7. ASSUME got \in {"refused", "error"}, got = "refused" \/ s.via = "tcp",
             search' = [search EXCEPT ![q] = NextServer(s)]
      PROVE  PhysicalInv'
  <2>1. NextServer(s) \in Searching /\ Stage(NextServer(s), U)
    <3> HIDE DEF s, T
    <3>1. QED
      BY <1>1, <1>7, Passes, ZenonT(30)
  <2> HIDE DEF U, s, T
  <2>2. QED
    BY <1>4, <1>7, <2>1, ZenonT(30)
<1>8. CASE QueryUdp(q, got)
  <2>1. search' = [search EXCEPT ![q] = AfterUdp(s, got)]
    BY <1>8, ZenonT(30) DEF QueryUdp
  <2>2. CASE got \in {"answer", "nxdomain"}
    <3>1. AfterUdp(s, got) = Concludes(s, got)
      BY <2>2, ZenonT(30) DEF AfterUdp, Authoritative
    <3>2. QED
      BY <1>6, <2>1, <2>2, <3>1, ZenonT(30)
  <2>3. CASE got = "refused"
    <3>1. AfterUdp(s, got) = NextServer(s)
      BY <2>3, ZenonT(30) DEF AfterUdp, Authoritative
    <3>2. QED
      BY <1>7, <2>1, <2>3, <3>1, ZenonT(30)
  <2>4. CASE got \in {"truncated", "error"}
    <3> DEFINE new == AfterUdp(s, got)
    <3>1. new = OverTcp(s) \/ new = [s EXCEPT !.attempt = 2]
      BY <2>4, ZenonT(30) DEF AfterUdp, Authoritative
    <3>2. new \in Searching /\ new.at = "ask" /\ new.code = s.code /\ new.server = s.server
      <4> HIDE DEF s, new
      <4>1. QED
        BY <1>1, <3>1, ZenonT(30) DEF OverTcp, Searching
    <3> HIDE DEF new
    <3>3. QED
      BY <1>5, <2>1, <2>4, <3>2, ZenonT(30) DEF new
  <2>5. QED
    BY <2>2, <2>3, <2>4, ZenonT(30) DEF Replies
<1>9. CASE QueryTcp(q, got)
  <2>1. search' = [search EXCEPT ![q] = AfterTcp(s, got)] /\ s.via = "tcp" /\ got # "truncated"
    BY <1>9, ZenonT(30) DEF QueryTcp
  <2>2. CASE got \in {"answer", "nxdomain"}
    BY <1>6, <2>1, <2>2, ZenonT(30) DEF AfterTcp, Authoritative
  <2>3. CASE got \in {"refused", "error"}
    BY <1>7, <2>1, <2>3, ZenonT(30) DEF AfterTcp, Authoritative
  <2>4. QED
    BY <2>1, <2>2, <2>3, ZenonT(30) DEF Replies
<1>10. QED
  BY <1>8, <1>9, ZenonT(30)

\* A flow that ends forgets its questions.
LEMMA ClientEndsStep ==
    ASSUME PhysicalInv, NEW f \in {"udp", "tcp"}, ClientEnds(f)
    PROVE  PhysicalInv'
<1> DEFINE dropped == [Begin EXCEPT !.at = "dropped"]
           Mine(q) == q \notin Names /\ FlowOf(q) = f
           Running(q) == search[q].at \in {"idle", "ask", "exchange", "concluded"}
<1>1. dropped \in Searching /\ dropped.at = "dropped"
  BY BeginTypes, ZenonT(30) DEF Begin, Stages
<1>2. Stage(dropped, {})
  <2> HIDE DEF dropped
  <2>1. QED
    BY <1>1, Quiet, ZenonT(30)
<1>3. search' = [q \in Searches |-> IF Mine(q) /\ Running(q) THEN dropped ELSE search[q]]
  BY ZenonT(30) DEF ClientEnds
<1>4. trail' = [q \in Searches |-> IF Mine(q) THEN {} ELSE trail[q]]
  BY ZenonT(30) DEF ClientEnds
<1> HIDE DEF dropped, Mine
<1>5. search' \in [Searches -> Searching] /\ trail' \in [Searches -> SUBSET Tries]
  BY <1>1, <1>3, <1>4, ZenonT(30) DEF PhysicalInv
<1>6. ASSUME NEW q \in Searches
      PROVE  Stage(search'[q], trail'[q])
  <2>1. Stage(search[q], trail[q])
    BY ZenonT(30) DEF PhysicalInv
  <2>2. CASE Mine(q) /\ Running(q)
    BY <1>2, <1>3, <1>4, <2>2, ZenonT(30)
  <2>3. CASE Mine(q) /\ ~ Running(q)
    <3>1. trail[q] = {}
      BY <2>1, <2>3, ZenonT(30) DEF Stage, Elsewhere
    <3>2. search'[q] = search[q] /\ trail'[q] = trail[q]
      BY <1>3, <1>4, <2>3, <3>1, ZenonT(30)
    <3>3. QED
      BY <2>1, <3>2, ZenonT(30)
  <2>4. CASE ~ Mine(q)
    BY <1>3, <1>4, <2>1, <2>4, ZenonT(30)
  <2>5. QED
    BY <2>2, <2>3, <2>4, ZenonT(30)
<1>7. QED
  BY <1>5, <1>6, Zenon DEF PhysicalInv

\* Every step preserves the invariant.
LEMMA PhysicalPreserves == PhysicalInv /\ [PhysicalNext]_physicalVars => PhysicalInv'
<1> SUFFICES ASSUME PhysicalInv, [PhysicalNext]_physicalVars
             PROVE  PhysicalInv'
  BY ZenonT(30)
<1>1. CASE UNCHANGED physicalVars
  BY <1>1, ZenonT(30) DEF physicalVars, PhysicalInv
<1>2. ASSUME NEW q \in Searches, Receive(q) \/ RouteToProxy(q) \/ RejectDatagram(q) \/ ResolveName(q)
      PROVE  PhysicalInv'
  BY <1>2, BeginSteps, Zenon
<1>3. ASSUME NEW q \in Searches, Exchange(q)
      PROVE  PhysicalInv'
  BY <1>3, ExchangeStep, Zenon
<1>4. ASSUME NEW q \in Searches, Reply(q) \/ FollowCname(q) \/ ResolveEnds(q)
      PROVE  PhysicalInv'
  BY <1>4, EndSteps, Zenon
<1>5. ASSUME NEW q \in Searches, NEW got \in Replies, QueryUdp(q, got) \/ QueryTcp(q, got)
      PROVE  PhysicalInv'
  BY <1>5, QuerySteps, Zenon
<1>6. ASSUME NEW f \in {"udp", "tcp"}, ClientEnds(f)
      PROVE  PhysicalInv'
  BY <1>6, ClientEndsStep, Zenon
<1>7. QED
  BY <1>1, <1>2, <1>3, <1>4, <1>5, <1>6, Zenon DEF PhysicalNext, Replies

\* The invariant contains the property.
LEMMA PhysicalImplies == PhysicalInv => Conclusive
<1> SUFFICES ASSUME PhysicalInv, NEW q \in Searches, search[q].at \in {"ask", "concluded"}
             PROVE  /\ search[q].code = "failed" => \A a \in Usable : PassedOver(q, a)
                    /\ Given(trail[q]) # {} => {search[q].code} = {try.got : try \in Given(trail[q])}
                    /\ \A try \in Given(trail[q]), a \in Usable :
                          \/ a = try.server
                          \/ PassedOver(q, a)
                          \/ {other \in trail[q] : other.server = a} = {}
  BY ZenonT(30) DEF Conclusive, Given
<1> DEFINE s == search[q]
           T == trail[q]
<1>1. Stage(s, T) /\ s \in Searching /\ T \in SUBSET Tries
  BY ZenonT(30) DEF PhysicalInv
<1>2. \A a : PassedOver(q, a) <=> Past(T, a)
  BY ZenonT(30) DEF PassedOver, Past
<1> SUFFICES /\ s.code = "failed" => \A a \in Usable : Past(T, a)
             /\ Given(T) # {} => {s.code} = {try.got : try \in Given(T)}
             /\ \A try \in Given(T), a \in Usable :
                   a = try.server \/ Past(T, a) \/ {other \in T : other.server = a} = {}
  BY <1>2, Zenon
<1>3. s.at \in {"ask", "concluded"}
  BY ZenonT(30)
<1> HIDE DEF s, T
<1>4. s.code = "failed" => \A a \in Usable : Past(T, a)
  <2>1. s.code = "failed" => \A i \in Servers : Past(T, Candidates[i])
    BY <1>1, <1>3, ZenonT(30) DEF Stage, Asking, Concluded
  <2>2. QED
    BY <2>1, UsablePlaced, ZenonT(30)
<1>5. Given(T) # {} => /\ Ordered(s, T)
                       /\ \A try \in Given(T) : try.got = s.code /\ try.server = Candidates[s.server]
  <2>1. T = {} => Given(T) = {}
    BY ZenonT(30) DEF Given
  <2>2. QED
    BY <1>1, <1>3, <2>1, ZenonT(30) DEF Stage, Asking, Concluded
<1>6. ASSUME NEW try \in Given(T), NEW a \in Usable, a # try.server, ~ Past(T, a),
             NEW other \in T, other.server = a
      PROVE  FALSE
  <2>1. PICK i \in Servers : Candidates[i] = a
    BY UsablePlaced, ZenonT(30)
  <2>2. PICK j \in Servers : j <= s.server /\ other.server = Candidates[j]
    BY <1>5, ZenonT(30) DEF Ordered
  <2>3. i = j
    BY <1>6, <2>1, <2>2, ServersPlaces, ZenonT(30)
  <2>4. s.server \in Servers
    BY <1>1, ZenonT(30) DEF Searching
  <2>5. i < s.server \/ i = s.server
    BY <2>2, <2>3, <2>4, PlacesCompare, Zenon
  <2>6. i # s.server
    BY <1>5, <1>6, <2>1, ZenonT(30)
  <2>7. Past(T, Candidates[i])
    BY <1>5, <2>5, <2>6, ZenonT(30) DEF Ordered
  <2>8. QED
    BY <1>6, <2>1, <2>7, ZenonT(30)
<1>7. QED
  BY <1>4, <1>5, <1>6, ZenonT(30)

\* The search of the physical resolvers keeps its invariant.
THEOREM PhysicalInvariant == PhysicalSpec => []PhysicalInv
<1>1. QED
  BY PhysicalStarts, PhysicalPreserves, PTL DEF PhysicalSpec

\* query_dns_servers fails only after every usable resolver was asked to the
\* end, and otherwise gives the reply of the first one that had one.
THEOREM SearchConclusive == PhysicalSpec => []Conclusive
<1>1. QED
  BY PhysicalInvariant, PhysicalImplies, PTL
=============================================================================
