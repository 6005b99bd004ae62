--------------------------- MODULE WindowsRoutes ---------------------------
(***************************************************************************)
(* The Windows network configuration of one TUN session: the transaction   *)
(* that installs bypass routes, capture routes, forwarding settings and    *)
(* the adapter's DNS, the monitor thread that refreshes them and serves    *)
(* live upstream updates (prepare, then commit or roll back), and the      *)
(* teardown that must restore exactly what the session changed.            *)
(*                                                                         *)
(* A routing row is a destination and the interface it leaves by.  One     *)
(* capture row stands for the three of the code, one setting per interface *)
(* for its forwarding and weak-host settings.                              *)
(***************************************************************************)
EXTENDS Naturals, FiniteSets, Sequences, Functions

CONSTANTS
    Dests,       \* bypass destinations
    Initial,     \* the destinations bypassed from the start
    Physical,    \* physical interfaces
    Offline,     \* no physical default route
    Links,       \* interfaces whose forwarding is managed
    NoRow,       \* a destination that is not bypassed
    FaultSets,   \* the environments: which calls may fail, whether the network
                 \* changes, and whether the upstream is updated "again"
    MaxUpdates,  \* bound on the live upstream updates
    MaxChanges   \* bound on the changes of the physical network

ASSUME WindowsRoutesAssumption ==
    /\ IsFiniteSet(Dests) /\ Initial \subseteq Dests /\ "capture" \notin Dests
    /\ Offline \notin Physical
    /\ FaultSets \subseteq SUBSET {"create", "delete", "settings", "dns", "network", "again"}
    /\ MaxUpdates \in Nat /\ MaxChanges \in Nat

VARIABLES
    phase,     \* "install", "running", "stopping", "cleanup", "done"
    step,      \* where the installation, the monitor or the cleanup is
    os,        \* external: the system's rows
    foreign,   \* external: the rows this session did not create
    network,   \* external: the default route, outside changes so far, and the
               \* interfaces whose forwarding was turned off from outside
    plan,      \* rows still to install, delete or refresh
    routes,    \* what the monitor read of the system's rows
    record,    \* the InstallRecord
    tries,     \* cleanup attempts made and allowed
    dns,       \* the adapter's DNS: "before" or "tun"
    setting,   \* each managed interface's forwarding
    initial,   \* what it was before the session
    monitor,   \* the monitor's pending update and rows to roll back
    commands,  \* the channel to the monitor
    updater,   \* the task that updates the upstream
    faults     \* what this behaviour's environment does

vars == <<phase, step, os, foreign, network, plan, routes, record, tries,
          dns, setting, initial, monitor, commands, updater, faults>>

Row == [dest : Dests \cup {"capture"}, via : Physical \cup {"tun"}]

Capture == [dest |-> "capture", via |-> "tun"]

NoUpdate == [open |-> FALSE, added |-> {}, desired |-> {}]

(* The orders in which a set of rows or destinations may be gone through,  *)
(* and the one that is.                                                    *)
Orders(S) == Bijection(1 .. Cardinality(S), S)

InOrder(S) == CHOOSE q \in Orders(S) : TRUE

(* The interfaces a packet to d may leave by, the session's own rows and   *)
(* the TUN apart: a specific row before the default route.                 *)
Vias(d, seen) ==
    LET specific == {r \in seen.rows : r.dest = d /\ r \notin Range(record.owned)}
    IN  IF specific # {} THEN {r.via : r \in specific} ELSE {seen.default} \ {Offline}

See(rows) == [rows |-> rows, default |-> network.default]

Desired == {d \in Dests : record.desired[d] # NoRow}

Init ==
    /\ phase = "install" /\ step = "plan"
    /\ foreign \in SUBSET [dest : Initial, via : Physical]
    /\ os = foreign
    /\ network \in [default : Physical, changes : {0}, turned : {{}}]
    /\ plan = <<>> /\ routes = [rows |-> {}, default |-> Offline]
    /\ record = [owned |-> <<>>, desired |-> [d \in Dests |-> NoRow], dnsChanged |-> FALSE,
                 before |-> [l \in Links |-> "unseen"], changed |-> {}, removed |-> FALSE]
    /\ tries = [made |-> 0, allowed |-> 2]
    /\ dns = "before"
    /\ setting \in [Links -> BOOLEAN] /\ initial = setting
    /\ monitor = [pending |-> NoUpdate, rollback |-> {}]
    /\ commands = <<>>
    /\ updater = [pc |-> "idle", number |-> 0, reply |-> "none"]
    /\ faults \in FaultSets

-----------------------------------------------------------------------------
(* The system: the default route moves or goes.                            *)
NetworkChanges ==
    /\ "network" \in faults /\ network.changes < MaxChanges
    /\ \E i \in (Physical \cup {Offline}) \ {network.default} :
          network' = [network EXCEPT !.default = i, !.changes = @ + 1]
    /\ UNCHANGED <<phase, step, os, foreign, plan, routes, record, tries,
                   dns, setting, initial, monitor, commands, updater>>

(* Something else turns an interface's forwarding off.                     *)
SettingChanges ==
    /\ "settings" \in faults /\ network.changes < MaxChanges
    /\ \E l \in {l \in Links : setting[l]} :
          /\ setting' = [setting EXCEPT ![l] = FALSE]
          /\ network' = [network EXCEPT !.changes = @ + 1, !.turned = @ \cup {l}]
    /\ UNCHANGED <<phase, step, os, foreign, plan, routes, record, tries, dns,
                   initial, monitor, commands, updater>>

Fails(call) == call \in faults

-----------------------------------------------------------------------------
(* install_transaction.  Every bypass is planned before any row is added;  *)
(* the capture row comes last.                                             *)
MakePlan ==
    /\ phase = "install" /\ step = "plan"
    /\ \E order \in Orders(Initial), via \in [Initial -> Physical] :
          /\ \A d \in Initial : via[d] \in Vias(d, See(os))
          /\ LET row == [d \in Initial |-> [dest |-> d, via |-> via[d]]]
             IN  /\ plan' = [i \in 1 .. Len(order) |-> row[order[i]]] \o <<Capture>>
                 /\ record' = [record EXCEPT !.desired =
                                 [d \in Dests |-> IF d \in Initial THEN row[d] ELSE NoRow]]
    /\ step' = "settings"
    /\ UNCHANGED <<phase, os, foreign, network, routes, tries, dns, setting,
                   monitor, commands, updater, initial>>

(* Without a physical path for a bypass nothing is installed.              *)
PlanFails ==
    /\ phase = "install" /\ step = "plan"
    /\ \E d \in Initial : Vias(d, See(os)) = {}
    /\ phase' = "done" /\ step' = "failed"
    /\ UNCHANGED <<os, foreign, network, plan, routes, record, tries, dns,
                   setting, initial, initial, monitor, commands, updater>>

(* reconcile_interface_settings on the interfaces seen: forwarding is      *)
(* turned on where it is off, and what it was when the interface was first *)
(* seen is remembered before that is tried.                                *)
Reconciles(seen, applied) ==
    /\ setting' = [l \in Links |-> setting[l] \/ l \in applied]
    /\ record' = [record EXCEPT
          !.before = [l \in Links |->
              IF l \in seen /\ @[l] = "unseen" THEN IF setting[l] THEN "on" ELSE "off" ELSE @[l]],
          !.changed = @ \cup {l \in seen : ~ setting[l]}]

ReconcilesAll == Reconciles(Links, Links)

(* A failure stops at some interface, remembered or not.                   *)
ReconcileFails ==
    /\ Fails("settings")
    /\ \E seen \in SUBSET Links, missed \in SUBSET Links :
          Cardinality(missed) = 1 /\ Reconciles(seen, seen \ missed)

StartCleanup(rows) ==
    /\ phase' = "cleanup" /\ step' = "rows"
    /\ plan' = rows
    /\ tries' = [tries EXCEPT !.made = 1]

InstallSettings ==
    /\ phase = "install" /\ step = "settings"
    /\ \/ /\ ReconcilesAll
          /\ step' = "rows"
          /\ UNCHANGED <<phase, plan, tries>>
       \/ ReconcileFails /\ StartCleanup(<<>>)
    /\ UNCHANGED <<os, foreign, network, routes, dns, initial, monitor, commands, updater>>

(* A row that is there already is borrowed, not owned.                     *)
InstallRow ==
    /\ phase = "install" /\ step = "rows" /\ plan # <<>>
    /\ \/ /\ os' = os \cup {Head(plan)}
          /\ record' = IF Head(plan) \in os THEN record
                       ELSE [record EXCEPT !.owned = Append(@, Head(plan))]
          /\ plan' = Tail(plan)
          /\ UNCHANGED <<phase, step, tries>>
       \/ /\ Fails("create") /\ Head(plan) \notin os
          /\ StartCleanup(record.owned)
          /\ UNCHANGED <<os, record>>
    /\ UNCHANGED <<foreign, network, routes, dns, setting, initial, monitor, commands, updater>>

(* Mutant: the DNS change is recorded after it succeeded.                  *)
InstallDnsForgetting ==
    /\ phase = "install" /\ step = "rows" /\ plan = <<>>
    /\ \/ /\ dns' = "tun"
          /\ record' = [record EXCEPT !.dnsChanged = TRUE]
          /\ phase' = "running" /\ step' = "wait"
          /\ UNCHANGED <<plan, tries>>
       \/ /\ Fails("dns")
          /\ dns' \in {"before", "tun"}
          /\ StartCleanup(record.owned)
          /\ UNCHANGED record
    /\ UNCHANGED <<os, foreign, network, routes, setting, initial, monitor, commands, updater>>

(* The change is recorded before it is tried.  A failed call may have made *)
(* it or not; a monitor thread that cannot be started fails after it.      *)
InstallDns ==
    /\ phase = "install" /\ step = "rows" /\ plan = <<>>
    /\ record' = [record EXCEPT !.dnsChanged = TRUE]
    /\ \/ /\ dns' = "tun"
          /\ phase' = "running" /\ step' = "wait"
          /\ UNCHANGED <<plan, tries>>
       \/ /\ Fails("dns")
          /\ dns' \in {"before", "tun"}
          /\ StartCleanup(record.owned)
    /\ UNCHANGED <<os, foreign, network, routes, setting, initial, monitor, commands, updater>>

-----------------------------------------------------------------------------
(* The updater: prepare_addresses and the guard it returns.  The operation *)
(* mutex lets one update at a time through, so one updater stands for all. *)

ChannelOpen == phase \in {"running", "stopping"}

Request ==
    /\ updater.pc = "idle" /\ phase = "running"
    /\ updater.number < IF "again" \in faults THEN MaxUpdates ELSE 1
    /\ \E dests \in SUBSET Dests \ {{}} :
          commands' = Append(commands, [kind |-> "prepare", dests |-> dests,
                                        number |-> updater.number + 1])
    /\ updater' = [pc |-> "wait", number |-> updater.number + 1, reply |-> "none"]
    /\ UNCHANGED <<phase, step, os, foreign, network, plan, routes, record,
                   tries, dns, setting, initial, monitor>>

Command(kind) == [kind |-> kind, dests |-> {}, number |-> 0]

(* Mutant: the guard of a request that timed out is dropped silently.      *)
DropGuardSilently ==
    /\ updater.pc = "wait"
    /\ updater' = [updater EXCEPT !.pc = "idle", !.reply = "none"]
    /\ UNCHANGED <<phase, step, os, foreign, network, plan, routes, record,
                   tries, dns, setting, initial, monitor, commands>>

(* Dropping the guard: after a timeout, an error, or a failed probe.       *)
DropGuard ==
    /\ updater.pc = "wait"
    /\ updater' = [updater EXCEPT !.pc = "idle", !.reply = "none"]
    /\ commands' = IF ChannelOpen THEN Append(commands, Command("rollback")) ELSE commands
    /\ UNCHANGED <<phase, step, os, foreign, network, plan, routes, record,
                   tries, dns, setting, initial, monitor>>

CommitGuard ==
    /\ updater.pc = "wait" /\ updater.reply = "ok" /\ ChannelOpen
    /\ updater' = [updater EXCEPT !.pc = "idle", !.reply = "none"]
    /\ commands' = Append(commands, Command("commit"))
    /\ UNCHANGED <<phase, step, os, foreign, network, plan, routes, record,
                   tries, dns, setting, initial, monitor>>

-----------------------------------------------------------------------------
(* The monitor thread.                                                     *)

Idle == ChannelOpen /\ step = "wait"

Takes(kind) == Idle /\ commands # <<>> /\ Head(commands).kind = kind

(* What is left of a sequence, in its order.                               *)
Drop(q, rows) ==
    LET keep == {i \in DOMAIN q : q[i] \notin rows}
    IN  [k \in 1 .. Cardinality(keep) |->
            q[CHOOSE i \in keep : Cardinality({j \in keep : j < i}) = k - 1]]

(* rollback_upstream_bypasses on rows, all but the failed ones deleted.    *)
Without(rows) == Drop(record.owned, rows)

FailedRollbacks(rows) == IF Fails("delete") THEN SUBSET (rows \cap os) ELSE {{}}

ReplyTo(n, reply) ==
    updater' = IF updater.pc = "wait" /\ updater.number = n
               THEN [updater EXCEPT !.reply = reply] ELSE updater

(* A request whose caller has gone is skipped.                             *)
SkipPrepare ==
    /\ Takes("prepare")
    /\ ~ (updater.pc = "wait" /\ updater.number = Head(commands).number)
    /\ commands' = Tail(commands)
    /\ UNCHANGED <<phase, step, os, foreign, network, plan, routes, record,
                   tries, dns, setting, initial, monitor, updater>>

(* A rollback that is still due is retried first.  Then the routes of the  *)
(* addresses are added until one fails.                                    *)
Prepare ==
    /\ Takes("prepare")
    /\ updater.pc = "wait" /\ updater.number = Head(commands).number
    /\ commands' = Tail(commands)
    /\ \E failed \in FailedRollbacks(monitor.rollback) :
          LET undone == monitor.rollback \ failed
              kept == Without(undone)
              rows == os \ undone
              dests == Head(commands).dests
          IN  IF failed # {}
              THEN /\ os' = rows
                   /\ record' = [record EXCEPT !.owned = kept]
                   /\ monitor' = [monitor EXCEPT !.rollback = failed]
                   /\ ReplyTo(Head(commands).number, "error")
              ELSE \E via \in [dests -> Physical \cup {Offline}], done \in SUBSET dests :
                   /\ \A d \in dests :
                         IF Vias(d, See(rows)) = {} THEN via[d] = Offline ELSE via[d] \in Vias(d, See(rows))
                   /\ done # dests => \/ Fails("create")
                                      \/ done = {} /\ \E d \in dests : via[d] = Offline
                   /\ (\E d \in dests : via[d] = Offline) => done = {}
                   /\ LET made == {[dest |-> d, via |-> via[d]] : d \in done}
                          new == made \ rows
                      IN  /\ os' = rows \cup made
                          /\ record' = [record EXCEPT !.owned =
                                kept \o InOrder(new \ Range(kept))]
                          /\ monitor' = [pending |-> [open |-> TRUE,
                                             added |-> new \ Range(kept), desired |-> made],
                                         rollback |-> {}]
                   /\ ReplyTo(Head(commands).number, IF done = dests THEN "ok" ELSE "error")
    /\ UNCHANGED <<phase, step, foreign, network, plan, routes, tries, dns, setting, initial>>

Commit ==
    /\ Takes("commit")
    /\ commands' = Tail(commands)
    /\ record' = [record EXCEPT !.desired = [d \in Dests |->
                     LET rows == {r \in monitor.pending.desired : r.dest = d}
                     IN  IF rows = {} THEN @[d] ELSE CHOOSE r \in rows : TRUE]]
    /\ monitor' = [monitor EXCEPT !.pending = NoUpdate]
    /\ UNCHANGED <<phase, step, os, foreign, network, plan, routes, tries,
                   dns, setting, updater, initial>>

(* Mutant: a row whose deletion failed is forgotten.                       *)
RollbackForgetting ==
    /\ Takes("rollback")
    /\ commands' = Tail(commands)
    /\ LET due == monitor.rollback \cup monitor.pending.added
       IN  \E failed \in FailedRollbacks(due) :
              /\ os' = os \ (due \ failed)
              /\ record' = [record EXCEPT !.owned = Without(due)]
              /\ monitor' = [pending |-> NoUpdate, rollback |-> failed]
    /\ UNCHANGED <<phase, step, foreign, network, plan, routes, tries, dns,
                   setting, initial, updater>>

Rollback ==
    /\ Takes("rollback")
    /\ commands' = Tail(commands)
    /\ LET due == monitor.rollback \cup monitor.pending.added
       IN  \E failed \in FailedRollbacks(due) :
              /\ os' = os \ (due \ failed)
              /\ record' = [record EXCEPT !.owned = Without(due \ failed)]
              /\ monitor' = [pending |-> NoUpdate, rollback |-> failed]
    /\ UNCHANGED <<phase, step, foreign, network, plan, routes, tries, dns,
                   setting, initial, updater>>

(* Mutant: bypasses are only refreshed while an update is pending.         *)
TickRollsBackInverted ==
    /\ ChannelOpen /\ step = "rollback"
    /\ step' = IF monitor.pending.open THEN "create" ELSE "wait"
    /\ plan' = IF monitor.pending.open THEN InOrder(Desired) ELSE plan
    /\ routes' = IF monitor.pending.open THEN See(os) ELSE routes
    /\ UNCHANGED <<phase, os, foreign, network, record, tries, dns, setting,
                   initial, monitor, commands, updater>>

(* A second without commands: settings, due rollbacks, then, unless an     *)
(* update is pending, the bypasses are refreshed from what is read here.   *)
Tick ==
    /\ Idle /\ commands = <<>>
    /\ ReconcilesAll \/ ReconcileFails
    /\ step' = "rollback"
    /\ UNCHANGED <<phase, os, foreign, network, plan, routes, tries, dns,
                   initial, monitor, commands, updater>>

TickRollsBack ==
    /\ ChannelOpen /\ step = "rollback"
    /\ \E failed \in FailedRollbacks(monitor.rollback) :
          /\ os' = os \ (monitor.rollback \ failed)
          /\ record' = [record EXCEPT !.owned = Without(monitor.rollback \ failed)]
          /\ monitor' = [monitor EXCEPT !.rollback = failed]
    /\ IF monitor.pending.open
       THEN step' = "wait" /\ UNCHANGED <<plan, routes>>
       ELSE /\ step' = "create"
            /\ plan' = InOrder(Desired)
            /\ routes' = See(os')
    /\ UNCHANGED <<phase, foreign, network, tries, dns, setting, initial,
                   commands, updater>>

NoRoutes == [rows |-> {}, default |-> Offline]

RefreshStops == step' = "wait" /\ plan' = <<>> /\ routes' = NoRoutes

(* Mutant: the rows that are replaced are retired before the new one is    *)
(* added.                                                                  *)
RefreshCreateRetiringFirst ==
    /\ ChannelOpen /\ step = "create" /\ plan # <<>>
    /\ LET d == Head(plan)
           old == {r \in Range(record.owned) : r.dest = d}
       IN  \E v \in Vias(d, routes) :
             IF old \subseteq {[dest |-> d, via |-> v]}
             THEN /\ os' = os \cup {[dest |-> d, via |-> v]}
                  /\ record' = [record EXCEPT !.desired[d] = [dest |-> d, via |-> v]]
                  /\ step' = "retire"
             ELSE /\ os' = os \ old
                  /\ record' = [record EXCEPT !.owned = Without(old)]
                  /\ UNCHANGED step
    /\ UNCHANGED <<phase, foreign, network, plan, routes, tries, dns, setting,
                   initial, monitor, commands, updater>>

(* reconcile_bypass_routes, one destination: first the row that is wanted  *)
(* now.  Offline keeps what there is.                                      *)
RefreshCreate ==
    /\ ChannelOpen /\ step = "create" /\ plan # <<>>
    /\ LET d == Head(plan)
       IN  \/ /\ Vias(d, routes) = {}
              /\ plan' = Tail(plan)
              /\ UNCHANGED <<step, os, record, routes>>
           \/ \E v \in Vias(d, routes) :
                LET new == [dest |-> d, via |-> v]
                    created == new \notin routes.rows /\ new \notin os
                IN  /\ os' = IF new \in routes.rows THEN os ELSE os \cup {new}
                    /\ record' = [record EXCEPT
                          !.desired[d] = new,
                          !.owned = IF created /\ new \notin Range(@) THEN Append(@, new) ELSE @]
                    /\ step' = "retire"
                    /\ UNCHANGED <<plan, routes>>
           \/ /\ Fails("create")
              /\ Vias(d, routes) # {}
              /\ RefreshStops
              /\ UNCHANGED <<os, record>>
    /\ UNCHANGED <<phase, foreign, network, tries, dns, setting, initial, monitor,
                   commands, updater>>

(* Then the owned rows it replaces.                                        *)
RefreshRetire ==
    /\ ChannelOpen /\ step = "retire"
    /\ LET d == Head(plan)
           old == {r \in Range(record.owned) : r.dest = d /\ r # record.desired[d]}
       IN  \/ /\ os' = os \ old
              /\ record' = [record EXCEPT !.owned = Without(old)]
              /\ step' = "create" /\ plan' = Tail(plan)
              /\ UNCHANGED routes
           \/ /\ Fails("delete") /\ old # {}
              /\ \E gone \in SUBSET old \ {old} :
                    os' = os \ gone /\ record' = [record EXCEPT !.owned = Without(gone)]
              /\ RefreshStops
    /\ UNCHANGED <<phase, foreign, network, tries, dns, setting, initial, monitor,
                   commands, updater>>

RefreshEnds ==
    /\ ChannelOpen /\ step = "create" /\ plan = <<>>
    /\ RefreshStops
    /\ UNCHANGED <<phase, os, foreign, network, record, tries, dns, setting,
                   monitor, commands, updater, initial>>

-----------------------------------------------------------------------------
(* Teardown: remove and, if that fails, the drop of the guard; or the drop *)
(* alone.                                                                  *)
Stop ==
    /\ phase = "running"
    /\ phase' = "stopping"
    /\ \E n \in {1, 2} : tries' = [made |-> 0, allowed |-> n]
    /\ commands' = Append(commands, Command("stop"))
    /\ UNCHANGED <<step, os, foreign, network, plan, routes, record, dns,
                   setting, initial, monitor, updater>>

(* The monitor ends and is joined.                                         *)
MonitorStops ==
    /\ Takes("stop")
    /\ StartCleanup(record.owned)
    /\ commands' = <<>>
    /\ UNCHANGED <<os, foreign, network, routes, record, dns, setting, initial, monitor, updater>>

(* cleanup_transaction: owned rows from the last to the first; a row that  *)
(* could not be deleted stays owned.                                       *)
CleanupRow ==
    /\ phase = "cleanup" /\ step = "rows" /\ plan # <<>>
    /\ LET last == plan[Len(plan)]
       IN  \/ os' = os \ {last} /\ record' = [record EXCEPT !.owned = Without({last})]
           \/ Fails("delete") /\ UNCHANGED <<os, record>>
    /\ plan' = SubSeq(plan, 1, Len(plan) - 1)
    /\ UNCHANGED <<phase, step, foreign, network, routes, tries, dns,
                   setting, initial, initial, monitor, commands, updater>>

CleanupDns ==
    /\ phase = "cleanup" /\ step = "rows" /\ plan = <<>>
    /\ step' = "links"
    /\ \/ /\ dns' = IF record.dnsChanged THEN "before" ELSE dns
          /\ record' = [record EXCEPT !.dnsChanged = FALSE]
       \/ Fails("dns") /\ record.dnsChanged /\ UNCHANGED <<dns, record>>
    /\ UNCHANGED <<phase, os, foreign, network, plan, routes, tries,
                   setting, initial, monitor, commands, updater>>

(* A failed remove is followed by the drop of the guard, a failed rollback *)
(* of the setup by one retry.                                              *)
RetryAllowed == tries.made < tries.allowed

(* The settings that were changed go back to what they were, and removed   *)
(* says whether everything did.  What is left is tried a second time.      *)
CleanupLinks ==
    /\ phase = "cleanup" /\ step = "links"
    /\ \E failed \in IF Fails("settings") THEN SUBSET record.changed ELSE {{}} :
       LET clean == failed = {} /\ record.owned = <<>> /\ ~ record.dnsChanged
       IN  /\ setting' = [l \in Links |-> IF l \in record.changed \ failed
                                          THEN record.before[l] = "on" ELSE setting[l]]
           /\ record' = [record EXCEPT
                 !.removed = clean, !.changed = failed,
                 !.before = [l \in Links |-> IF l \in failed THEN @[l] ELSE "unseen"]]
           /\ IF clean \/ ~ RetryAllowed
              THEN phase' = "done" /\ step' = "ended" /\ UNCHANGED <<plan, tries>>
              ELSE /\ step' = "rows" /\ plan' = record.owned
                   /\ tries' = [tries EXCEPT !.made = @ + 1]
                   /\ UNCHANGED phase
    /\ UNCHANGED <<os, foreign, network, routes, dns, initial, monitor, commands, updater>>

-----------------------------------------------------------------------------
InstallStep == MakePlan \/ PlanFails \/ InstallSettings \/ InstallRow \/ InstallDns

UpdaterStep == Request \/ DropGuard \/ CommitGuard

MonitorStep ==
    \/ SkipPrepare \/ Prepare \/ Commit \/ Rollback \/ Tick \/ TickRollsBack
    \/ RefreshCreate \/ RefreshRetire \/ RefreshEnds \/ MonitorStops

CleanupStep == CleanupRow \/ CleanupDns \/ CleanupLinks

Step ==
    \/ NetworkChanges \/ SettingChanges \/ InstallStep
    \/ UpdaterStep \/ MonitorStep \/ Stop \/ CleanupStep

Next == Step /\ UNCHANGED faults

Spec == Init /\ [][Next]_vars

(* The monitor thread runs; a caller's five-second timeout passes; no      *)
(* bypass row that the refresh asks for again and again fails for ever.    *)
Fairness ==
    /\ WF_vars(MonitorStep /\ UNCHANGED faults)
    /\ WF_vars(DropGuard /\ UNCHANGED faults)
    /\ WF_vars(CleanupStep /\ UNCHANGED faults)
    /\ \A d \in Dests :
          SF_vars(/\ plan # <<>> /\ Head(plan) = d /\ RefreshCreate
                  /\ step' = "retire" /\ UNCHANGED faults)

FairSpec == Spec /\ Fairness

-----------------------------------------------------------------------------
(* "Owns exactly the Windows network rows installed for one TUN session":  *)
(* whatever fails, the rows in the system are those it held before and     *)
(* those the session owns, once each, and it owns none of the former, so   *)
(* no row is forgotten and no foreign row is ever deleted.                 *)
Ownership ==
    /\ os = foreign \cup Range(record.owned)
    /\ foreign \cap Range(record.owned) = {}
    /\ IsInjective(record.owned)

(* When teardown reports success the rows and the DNS are what they were;  *)
(* no interface is left forwarding that was not, and one that was is only  *)
(* left off if it was turned off from outside.                             *)
Restored ==
    record.removed =>
        /\ os = foreign /\ dns = "before"
        /\ \A l \in Links : /\ setting[l] => initial[l]
                           /\ initial[l] => setting[l] \/ l \in network.turned

(* The loop barrier: from the moment the capture route is installed until  *)
(* the monitor has stopped, every bypassed destination has a row of its    *)
(* own, so no upstream packet is captured by the TUN, online or offline.   *)
(* This is claimed where deletions succeed, see OfflineKeepsBarrier.       *)
LoopBarrier ==
    "delete" \notin faults /\ phase \in {"install", "running", "stopping"} /\ Capture \in os
        => \A d \in Desired : \E r \in os : r.dest = d

(* Once the network stays as it is, the bypasses the session owns or       *)
(* borrows leave by a physical path that exists, or the session ends;      *)
(* likewise not where the deletion of rows fails.                          *)
RoutesFollow ==
    \A i \in Physical :
        ("delete" \notin faults /\ phase = "running" /\ network.default = i) ~>
            \/ phase # "running" \/ network.default # i
            \/ \A d \in Desired : record.desired[d].via \in Vias(d, See(os))

(* An update is decided: provisional rows never stay provisional, which    *)
(* would keep the bypasses from following the network.                     *)
ProvisionalEnds == monitor.pending.open ~> (~ monitor.pending.open \/ phase = "done")

(* "Offline is not permission to remove the loop barrier or capture        *)
(* routes": also while no physical path is left, a bypassed destination    *)
(* keeps its row, although the deletion of a provisional row failed once.  *)
OfflineKeepsBarrier ==
    phase = "running" /\ step = "wait" /\ network.default = Offline /\ Capture \in os
        => \A d \in Desired : \E r \in os : r.dest = d
=============================================================================
