------------------------ MODULE WindowsRoutesProofs ------------------------
(***************************************************************************)
(* The network configuration of a session, for any destinations,           *)
(* interfaces and faults: it owns exactly the rows it added, teardown      *)
(* restores what it changed, and the loop barrier holds where deletions    *)
(* succeed.                                                                *)
(***************************************************************************)
EXTENDS WindowsRoutes, FiniteSetTheorems, TLAPS

-----------------------------------------------------------------------------
(* The empty sequence, and the others.                                     *)
LEMMA SeqEmpty ==
    ASSUME NEW S
    PROVE  <<>> \in Seq(S) /\ Len(<<>>) = 0 /\ \A q \in Seq(S) : q # <<>> => Len(q) \in Nat \ {0}
OBVIOUS

(* A sequence followed by another one.                                     *)
LEMMA SeqJoined ==
    ASSUME NEW S, NEW q \in Seq(S), NEW r \in Seq(S)
    PROVE  /\ q \o r \in Seq(S) /\ Len(q \o r) = Len(q) + Len(r)
           /\ \A i \in 1 .. Len(q) + Len(r) : (q \o r)[i] = IF i <= Len(q) THEN q[i] ELSE r[i - Len(q)]
OBVIOUS

(* A sequence without its first element.                                   *)
LEMMA SeqTail ==
    ASSUME NEW S, NEW q \in Seq(S), q # <<>>
    PROVE  /\ Head(q) \in S /\ Tail(q) \in Seq(S) /\ Len(Tail(q)) = Len(q) - 1
           /\ \A i \in 1 .. Len(Tail(q)) : Tail(q)[i] = q[i + 1]
OBVIOUS

(* A sequence with an element appended.                                    *)
LEMMA SeqAppended ==
    ASSUME NEW S, NEW q \in Seq(S), NEW x \in S
    PROVE  /\ Append(q, x) \in Seq(S) /\ Append(q, x) # <<>> /\ Len(Append(q, x)) = Len(q) + 1
           /\ \A i \in 1 .. Len(q) : Append(q, x)[i] = q[i]
           /\ Append(q, x)[Len(q) + 1] = x
OBVIOUS

Last(q) == q[Len(q)]

Front(q) == SubSeq(q, 1, Len(q) - 1)

RecordSet ==
    [owned : Seq(Row), desired : [Dests -> Row \cup {NoRow}], dnsChanged : BOOLEAN,
     before : [Links -> {"unseen", "on", "off"}], changed : SUBSET Links, removed : BOOLEAN]

UpdateSet == [open : BOOLEAN, added : SUBSET Row, desired : SUBSET Row]

CommandSet == [kind : {"prepare", "rollback", "commit", "stop"}, dests : SUBSET Dests, number : Nat]

UpdaterSet == [pc : {"idle", "wait"}, number : Nat, reply : {"none", "ok", "error"}]

Phases == {"install", "running", "stopping", "cleanup", "done"}

Refreshing == ChannelOpen /\ step \in {"create", "retire"}

WindowsTypes ==
    /\ phase \in Phases
    /\ foreign \subseteq [dest : Initial, via : Physical]
    /\ os \subseteq Row
    /\ network \in [default : Physical \cup {Offline}, changes : Nat, turned : SUBSET Links]
    /\ routes \in [rows : SUBSET Row, default : Physical \cup {Offline}]
    /\ record \in RecordSet
    /\ dns \in {"before", "tun"}
    /\ setting \in [Links -> BOOLEAN] /\ initial \in [Links -> BOOLEAN]
    /\ monitor \in [pending : UpdateSet, rollback : SUBSET Row]
    /\ commands \in Seq(CommandSet) /\ updater \in UpdaterSet
    /\ faults \subseteq {"create", "delete", "settings", "dns", "network", "again"}

(* The rows to install or to delete, and the destinations to refresh.      *)
PlanTypes ==
    /\ phase \in {"install", "cleanup"} => plan \in Seq(Row)
    /\ Refreshing => plan \in Seq(Dests) /\ (step = "retire" => plan # <<>>)

(* What is due for deletion is never a row of others.                      *)
Deletable ==
    /\ foreign \cap monitor.rollback = {}
    /\ foreign \cap monitor.pending.added = {}
    /\ phase = "cleanup" => foreign \cap Range(plan) = {}

(* An interface whose setting is not recorded as changed is as it was, but *)
(* for changes from outside, and what is remembered of it is what it was.  *)
SettingsKept ==
    \A l \in Links :
        /\ l \notin record.changed => /\ setting[l] => initial[l]
                                      /\ initial[l] => setting[l] \/ l \in network.turned
        /\ record.before[l] = "on" => initial[l]
        /\ record.before[l] = "off" => ~ initial[l] \/ l \in network.turned
        /\ record.before[l] = "unseen" => l \notin record.changed

(* Only a finished teardown that left nothing behind reports success.      *)
Reported ==
    /\ ~ record.dnsChanged => dns = "before"
    /\ record.removed => phase = "done" /\ record.owned = <<>> /\ ~ record.dnsChanged /\ record.changed = {}

OwnInv == WindowsTypes /\ PlanTypes /\ Ownership /\ Deletable /\ SettingsKept /\ Reported

(* The row wanted for a destination is in the system, or still in the plan *)
(* of the installation, whose last row is the capture.  A pending update   *)
(* is about to want rows that are there, and would take back none that is  *)
(* wanted.  What a refresh has read of the destinations before it is still *)
(* there.                                                                  *)
Wanted(d) == record.desired[d] \in os /\ record.desired[d].dest = d

Planned(d) == record.desired[d] \in Range(plan) /\ record.desired[d].dest = d

Barrier ==
    /\ monitor.rollback = {}
    /\ ~ monitor.pending.open => monitor.pending = NoUpdate
    /\ phase = "install" =>
          /\ ~ monitor.pending.open
          /\ IsInjective(plan)
          /\ step = "settings" => plan # <<>>
          /\ plan # <<>> => Last(plan) = Capture
          /\ (step # "rows" \/ plan # <<>>) => Capture \notin os
          /\ \A d \in Desired : Wanted(d) \/ Planned(d)
    /\ ChannelOpen =>
          /\ \A d \in Desired : Wanted(d) /\ record.desired[d] \notin monitor.pending.added
          /\ monitor.pending.desired \subseteq os
    /\ Refreshing => /\ ~ monitor.pending.open
                     /\ IsInjective(plan)
                     /\ \A r \in routes.rows : r.dest \in Range(plan) => r \in os

WindowsInv == OwnInv /\ ("delete" \notin faults => Barrier)

-----------------------------------------------------------------------------
\* What Drop leaves of a sequence: the other elements, each once if it was so.
LEMMA DropProperties ==
    ASSUME NEW S, NEW q \in Seq(S), NEW rows
    PROVE  /\ Drop(q, rows) \in Seq(S)
           /\ Range(Drop(q, rows)) = Range(q) \ rows
           /\ IsInjective(q) => IsInjective(Drop(q, rows))
<1> DEFINE keep == {i \in DOMAIN q : q[i] \notin rows}
           n == Cardinality(keep)
           below(i) == {j \in keep : j < i}
           rank == [i \in keep |-> Cardinality(below(i))]
           place(k) == CHOOSE i \in keep : Cardinality(below(i)) = k - 1
<1>1. DOMAIN q = 1 .. Len(q) /\ Len(q) \in Nat /\ \A i \in DOMAIN q : q[i] \in S
  OBVIOUS
<1>2. IsFiniteSet(1 .. Len(q)) /\ keep \subseteq 1 .. Len(q) /\ keep \subseteq Nat
  BY <1>1, FS_Interval
<1>3. IsFiniteSet(keep) /\ n \in Nat
  BY <1>2, FS_Subset, FS_CardinalityType, ZenonT(30)
<1>4. Drop(q, rows) = [k \in 1 .. n |-> q[place(k)]]
  BY ZenonT(30) DEF Drop
<1>5. keep = {i \in DOMAIN q : q[i] \notin rows}
  BY ZenonT(30)
<1> HIDE DEF keep
<1>6. \A i \in keep : below(i) \in SUBSET keep /\ \A j \in keep : j \in below(i) <=> j < i
  BY ZenonT(30)
<1> HIDE DEF below
<1>7. \A i \in keep : below(i) # keep /\ i \notin below(i)
  BY <1>2, <1>6
<1>8. \A i \in keep : Cardinality(below(i)) \in 0 .. n - 1
  <2> SUFFICES ASSUME NEW i \in keep
               PROVE  Cardinality(below(i)) \in 0 .. n - 1
    BY ZenonT(30)
  <2>1. /\ IsFiniteSet(below(i)) /\ Cardinality(below(i)) <= Cardinality(keep)
        /\ Cardinality(keep) = Cardinality(below(i)) => keep = below(i)
    BY <1>3, <1>6, FS_Subset, ZenonT(30)
  <2>2. Cardinality(below(i)) \in Nat
    BY <2>1, FS_CardinalityType, ZenonT(30)
  <2>3. QED
    BY <1>3, <1>7, <2>1, <2>2
<1>9. \A i, j \in keep : i < j => Cardinality(below(i)) # Cardinality(below(j))
  <2> SUFFICES ASSUME NEW i \in keep, NEW j \in keep, i < j
               PROVE  Cardinality(below(i)) # Cardinality(below(j))
    BY ZenonT(30)
  <2>1. \A k \in keep : k < i => k < j
    BY <1>2
  <2>2. below(i) \in SUBSET below(j) /\ i \in below(j) /\ i \notin below(i)
    BY <1>6, <1>7, <2>1, ZenonT(30)
  <2>3. IsFiniteSet(below(j))
    BY <1>3, <1>6, FS_Subset, ZenonT(30)
  <2>4. QED
    BY <2>2, <2>3, FS_Subset, ZenonT(30)
<1>10. \A i, j \in keep : Cardinality(below(i)) = Cardinality(below(j)) => i = j
  <2>1. \A i, j \in keep : i < j \/ j < i \/ i = j
    BY <1>2
  <2>2. QED
    BY <1>9, <2>1, ZenonT(30)
<1> HIDE DEF n
<1>11. rank \in Injection(keep, 0 .. n - 1)
  <2>1. rank \in [keep -> 0 .. n - 1]
    BY <1>8, ZenonT(30)
  <2>2. IsInjective(rank)
    BY <1>10, ZenonT(30) DEF IsInjective
  <2>3. QED
    BY <2>1, <2>2, ZenonT(30) DEF Injection
<1>12. IsFiniteSet(0 .. n - 1) /\ Cardinality(0 .. n - 1) = n
  BY <1>3, FS_Interval
<1>13. \A m \in 0 .. n - 1 : \E i \in keep : rank[i] = m
  <2> HIDE DEF rank
  <2>1. rank \in Surjection(keep, 0 .. n - 1)
    BY <1>3, <1>11, <1>12, FS_Injection, ZenonT(30) DEF n
  <2>2. QED
    BY <2>1, ZenonT(30) DEF Surjection
<1>14. \A k \in 1 .. n : \E i \in keep : Cardinality(below(i)) = k - 1
  <2>1. \A k \in 1 .. n : k - 1 \in 0 .. n - 1
    BY <1>3
  <2>2. \A i \in keep : rank[i] = Cardinality(below(i))
    BY ZenonT(30)
  <2> HIDE DEF rank
  <2>3. QED
    BY <1>13, <2>1, <2>2, ZenonT(30)
<1>15. \A k \in 1 .. n : place(k) \in keep /\ Cardinality(below(place(k))) = k - 1
  BY <1>14, ZenonT(30)
<1>16. \A k \in 1 .. n, i \in keep : Cardinality(below(i)) = k - 1 => place(k) = i
  <2> HIDE DEF place
  <2>1. QED
    BY <1>10, <1>15, ZenonT(30)
<1> HIDE DEF rank, place
<1>17. \A i \in keep : \E k \in 1 .. n : place(k) = i
  <2> SUFFICES ASSUME NEW i \in keep
               PROVE  \E k \in 1 .. n : place(k) = i
    BY ZenonT(30)
  <2> DEFINE k == Cardinality(below(i)) + 1
  <2>1. k \in 1 .. n /\ Cardinality(below(i)) = k - 1
    BY <1>3, <1>8
  <2> HIDE DEF k
  <2>2. QED
    BY <1>16, <2>1, ZenonT(30)
<1>18. Drop(q, rows) \in Seq(S) /\ DOMAIN Drop(q, rows) = 1 .. n
  <2>1. \A k \in 1 .. n : q[place(k)] \in S
    BY <1>1, <1>5, <1>15, ZenonT(30)
  <2>2. Drop(q, rows) \in [1 .. n -> S]
    BY <1>4, <2>1, ZenonT(30)
  <2>3. QED
    BY <1>3, <2>2
<1>19. Range(Drop(q, rows)) = Range(q) \ rows
  <2>1. \A k \in 1 .. n : Drop(q, rows)[k] = q[place(k)] /\ place(k) \in DOMAIN q /\ q[place(k)] \notin rows
    BY <1>4, <1>5, <1>15, ZenonT(30)
  <2>2. \A i \in DOMAIN q : q[i] \notin rows => \E k \in 1 .. n : Drop(q, rows)[k] = q[i]
    BY <1>4, <1>5, <1>17, ZenonT(30)
  <2>3. Range(Drop(q, rows)) \subseteq Range(q) \ rows
    BY <1>18, <2>1, ZenonT(30) DEF Range
  <2>4. Range(q) \ rows \subseteq Range(Drop(q, rows))
    BY <1>18, <2>2, ZenonT(30) DEF Range
  <2>5. QED
    BY <2>3, <2>4, ZenonT(30)
<1>20. ASSUME IsInjective(q)
       PROVE  IsInjective(Drop(q, rows))
  <2> SUFFICES ASSUME NEW a \in 1 .. n, NEW b \in 1 .. n, Drop(q, rows)[a] = Drop(q, rows)[b]
               PROVE  a = b
    BY <1>18, ZenonT(30) DEF IsInjective
  <2>1. place(a) = place(b)
    BY <1>4, <1>5, <1>15, <1>20, ZenonT(30) DEF IsInjective
  <2>2. a - 1 = b - 1
    BY <1>15, <2>1, ZenonT(30)
  <2>3. QED
    BY <1>3, <2>2
<1>21. QED
  BY <1>18, <1>19, <1>20, ZenonT(30)

\* A finite set as a sequence: each of its elements, once.
LEMMA InOrderProperties ==
    ASSUME NEW S, IsFiniteSet(S)
    PROVE  InOrder(S) \in Seq(S) /\ Range(InOrder(S)) = S /\ IsInjective(InOrder(S))
<1> DEFINE n == Cardinality(S)
           q == InOrder(S)
<1>1. n \in Nat /\ IsFiniteSet(1 .. n) /\ Cardinality(1 .. n) = n
  BY FS_CardinalityType, FS_Interval
<1>2. ExistsBijection(1 .. n, S)
  BY FS_CardinalityType, ZenonT(30)
<1>3. Orders(S) # {}
  BY <1>2, ZenonT(30) DEF ExistsBijection, Orders
<1>4. q \in [1 .. n -> S] /\ IsInjective(q)
  <2>1. q \in Orders(S)
    BY <1>3, ZenonT(30) DEF InOrder
  <2> HIDE DEF q
  <2>2. QED
    BY <2>1, ZenonT(30) DEF Orders, Bijection, Injection
<1> HIDE DEF q
<1>5. q \in Injection(1 .. n, S)
  BY <1>4, ZenonT(30) DEF Injection
<1>6. q \in Surjection(1 .. n, S)
  <2> HIDE DEF n
  <2>1. QED
    BY <1>1, <1>5, FS_Injection, ZenonT(30) DEF n
<1>7. q \in Seq(S) /\ DOMAIN q = 1 .. n
  BY <1>1, <1>4
<1>8. Range(q) = S
  BY <1>4, <1>6, <1>7, ZenonT(30) DEF Range, Surjection
<1>9. QED
  BY <1>4, <1>7, <1>8, ZenonT(30) DEF q

\* A row appended to a sequence of others.
LEMMA AppendRow ==
    ASSUME NEW S, NEW q \in Seq(S), NEW x \in S, IsInjective(q), x \notin Range(q)
    PROVE  Append(q, x) \in Seq(S) /\ Range(Append(q, x)) = Range(q) \cup {x} /\ IsInjective(Append(q, x))
<1> DEFINE a == Append(q, x)
<1>1. /\ a \in Seq(S) /\ Len(a) = Len(q) + 1 /\ Len(q) \in Nat
      /\ DOMAIN a = 1 .. Len(q) + 1 /\ DOMAIN q = 1 .. Len(q)
      /\ \A i \in 1 .. Len(q) : a[i] = q[i]
      /\ a[Len(q) + 1] = x
  BY SeqAppended
<1> HIDE DEF a
<1>2. \A i \in 1 .. Len(q) + 1 : (i \in 1 .. Len(q) /\ a[i] = q[i]) \/ (i = Len(q) + 1 /\ a[i] = x)
  <2>1. \A i \in 1 .. Len(q) + 1 : i \in 1 .. Len(q) \/ i = Len(q) + 1
    BY <1>1
  <2> SUFFICES ASSUME NEW i \in 1 .. Len(q) + 1
               PROVE  (i \in 1 .. Len(q) /\ a[i] = q[i]) \/ (i = Len(q) + 1 /\ a[i] = x)
    BY ZenonT(30)
  <2>2. CASE i \in 1 .. Len(q)
    BY <1>1, <2>2, Zenon
  <2>3. CASE i = Len(q) + 1
    BY <1>1, <2>3, Zenon
  <2>4. QED
    BY <2>1, <2>2, <2>3, Zenon
<1>3. \A i \in DOMAIN q : i \in DOMAIN a /\ a[i] = q[i]
  BY <1>1
<1>4. Len(q) + 1 \in DOMAIN a
  BY <1>1
<1>5. Range(a) \subseteq Range(q) \cup {x} /\ Range(q) \cup {x} \subseteq Range(a)
  BY <1>1, <1>2, <1>3, <1>4, ZenonT(30) DEF Range
<1>6. IsInjective(a)
  <2> SUFFICES ASSUME NEW i \in 1 .. Len(q) + 1, NEW j \in 1 .. Len(q) + 1, a[i] = a[j]
               PROVE  i = j
    BY <1>1, ZenonT(30) DEF IsInjective
  <2>1. \A k \in 1 .. Len(q) : q[k] # x
    BY <1>1, ZenonT(30) DEF Range
  <2>2. \A k, m \in 1 .. Len(q) : q[k] = q[m] => k = m
    BY <1>1, ZenonT(30) DEF IsInjective
  <2>3. QED
    BY <1>2, <2>1, <2>2, ZenonT(30)
<1>7. QED
  BY <1>1, <1>5, <1>6, ZenonT(30) DEF a

\* A sequence of rows followed by one of others.
LEMMA ConcatRows ==
    ASSUME NEW S, NEW p \in Seq(S), NEW q \in Seq(S), IsInjective(p), IsInjective(q),
           Range(p) \cap Range(q) = {}
    PROVE  p \o q \in Seq(S) /\ Range(p \o q) = Range(p) \cup Range(q) /\ IsInjective(p \o q)
<1> DEFINE a == p \o q
<1>1. /\ a \in Seq(S) /\ Len(a) = Len(p) + Len(q) /\ Len(p) \in Nat /\ Len(q) \in Nat
      /\ \A i \in 1 .. Len(p) + Len(q) : a[i] = IF i <= Len(p) THEN p[i] ELSE q[i - Len(p)]
      /\ DOMAIN a = 1 .. Len(p) + Len(q) /\ DOMAIN p = 1 .. Len(p) /\ DOMAIN q = 1 .. Len(q)
  BY SeqJoined
<1> HIDE DEF a
<1>2. \A i \in DOMAIN a : \/ i \in DOMAIN p /\ a[i] = p[i]
                          \/ i > Len(p) /\ i - Len(p) \in DOMAIN q /\ a[i] = q[i - Len(p)]
  BY <1>1
<1>3. \A i \in DOMAIN p : i \in DOMAIN a /\ a[i] = p[i]
  BY <1>1
<1>4. \A i \in DOMAIN q : i + Len(p) \in DOMAIN a /\ a[i + Len(p)] = q[i]
  BY <1>1
<1>5. Range(a) \subseteq Range(p) \cup Range(q)
  BY <1>2, ZenonT(30) DEF Range
<1>6. Range(p) \subseteq Range(a) /\ Range(q) \subseteq Range(a)
  BY <1>3, <1>4, ZenonT(30) DEF Range
<1>7. IsInjective(a)
  <2> SUFFICES ASSUME NEW i \in DOMAIN a, NEW j \in DOMAIN a, a[i] = a[j]
               PROVE  i = j
    BY ZenonT(30) DEF IsInjective
  <2>1. CASE i \in DOMAIN p /\ a[i] = p[i] /\ j \in DOMAIN p /\ a[j] = p[j]
    BY <2>1, ZenonT(30) DEF IsInjective
  <2>2. CASE /\ i > Len(p) /\ i - Len(p) \in DOMAIN q /\ a[i] = q[i - Len(p)]
             /\ j > Len(p) /\ j - Len(p) \in DOMAIN q /\ a[j] = q[j - Len(p)]
    <3>1. i - Len(p) = j - Len(p)
      BY <2>2, ZenonT(30) DEF IsInjective
    <3>2. QED
      BY <1>1, <3>1
  <2>3. \A x \in DOMAIN p, y \in DOMAIN q : p[x] # q[y]
    BY ZenonT(30) DEF Range
  <2>4. QED
    BY <1>2, <2>1, <2>2, <2>3, ZenonT(30)
<1>8. QED
  BY <1>1, <1>5, <1>6, <1>7, ZenonT(30) DEF a

\* The rest of a plan that is worked off from its front.
LEMMA TailRows ==
    ASSUME NEW S, NEW q \in Seq(S), q # <<>>
    PROVE  /\ Head(q) \in S /\ Tail(q) \in Seq(S) /\ Head(q) \in Range(q)
           /\ Range(q) = Range(Tail(q)) \cup {Head(q)}
           /\ Tail(q) # <<>> => Last(Tail(q)) = Last(q)
           /\ Tail(q) = <<>> => Head(q) = Last(q)
           /\ IsInjective(q) => IsInjective(Tail(q)) /\ Head(q) \notin Range(Tail(q))
<1> DEFINE r == Tail(q)
<1>1. /\ r \in Seq(S) /\ Len(r) = Len(q) - 1 /\ Len(q) \in Nat /\ Len(q) # 0 /\ Len(r) \in Nat
      /\ \A i \in 1 .. Len(r) : r[i] = q[i + 1]
      /\ DOMAIN r = 1 .. Len(q) - 1 /\ DOMAIN q = 1 .. Len(q)
      /\ Head(q) = q[1] /\ Head(q) \in S
  BY SeqTail, SeqEmpty
<1>2. r = <<>> <=> Len(r) = 0
  BY <1>1, SeqEmpty, ZenonT(30)
<1> HIDE DEF r
<1>3. 1 \in DOMAIN q /\ \A i \in DOMAIN r : i + 1 \in DOMAIN q /\ r[i] = q[i + 1] /\ i + 1 # 1
  BY <1>1
<1>4. \A i \in 1 .. Len(q) : i = 1 \/ (i - 1 \in 1 .. Len(r) /\ q[i] = r[i - 1])
  <2>1. \A i \in 1 .. Len(q) : i = 1 \/ (i - 1 \in 1 .. Len(r) /\ (i - 1) + 1 = i)
    BY <1>1
  <2> SUFFICES ASSUME NEW i \in 1 .. Len(q), i # 1
               PROVE  i - 1 \in 1 .. Len(r) /\ q[i] = r[i - 1]
    BY ZenonT(30)
  <2>3. i - 1 \in 1 .. Len(r) /\ (i - 1) + 1 = i
    BY <2>1, ZenonT(30)
  <2>4. r[i - 1] = q[(i - 1) + 1]
    BY <1>1, <2>3, Zenon
  <2>5. QED
    BY <2>3, <2>4, Zenon
<1>5. Range(q) \subseteq Range(r) \cup {Head(q)}
  <2> SUFFICES ASSUME NEW i \in 1 .. Len(q)
               PROVE  q[i] \in Range(r) \cup {Head(q)}
    BY <1>1 DEF Range
  <2>1. CASE i = 1
    BY <1>1, <2>1, ZenonT(30)
  <2>2. CASE i - 1 \in 1 .. Len(r) /\ q[i] = r[i - 1]
    BY <1>1, <2>2, ZenonT(30) DEF Range
  <2>3. QED
    BY <1>4, <2>1, <2>2, ZenonT(30)
<1>6. Range(r) \subseteq Range(q) /\ Head(q) \in Range(q)
  BY <1>1, <1>3 DEF Range
<1>7. (r # <<>> => Last(r) = Last(q)) /\ (r = <<>> => Head(q) = Last(q))
  BY <1>1, <1>2 DEF Last
<1>8. ASSUME IsInjective(q)
      PROVE  IsInjective(r) /\ Head(q) \notin Range(r)
  <2>1. \A i, j \in DOMAIN r : i + 1 = j + 1 => i = j
    BY <1>1
  <2>2. IsInjective(r)
    BY <1>3, <1>8, <2>1 DEF IsInjective
  <2>3. Head(q) \notin Range(r)
    BY <1>1, <1>3, <1>8 DEF IsInjective, Range
  <2>4. QED
    BY <2>2, <2>3, ZenonT(30)
<1>9. QED
  BY <1>1, <1>5, <1>6, <1>7, <1>8, ZenonT(30) DEF r

\* The rest of a plan that is worked off from its end.
LEMMA FrontRows ==
    ASSUME NEW S, NEW q \in Seq(S), q # <<>>
    PROVE  Last(q) \in Range(q) /\ Last(q) \in S /\ Front(q) \in Seq(S) /\ Range(Front(q)) \subseteq Range(q)
<1>1. Len(q) \in Nat /\ Len(q) # 0 /\ DOMAIN q = 1 .. Len(q) /\ \A i \in DOMAIN q : q[i] \in S
  BY SeqEmpty
<1>2. Last(q) \in Range(q) /\ Last(q) \in S
  BY <1>1 DEF Last, Range
<1> DEFINE r == Front(q)
<1>3. r = [i \in 1 .. Len(q) - 1 |-> q[i]]
  BY <1>1 DEF Front
<1> HIDE DEF r
<1>4. DOMAIN r = 1 .. Len(q) - 1 /\ \A i \in DOMAIN r : r[i] = q[i] /\ i \in DOMAIN q
  BY <1>1, <1>3
<1>5. r \in Seq(S)
  <2>1. Len(q) - 1 \in Nat /\ r \in [1 .. Len(q) - 1 -> S]
    BY <1>1, <1>3, <1>4
  <2>2. QED
    BY <2>1
<1>6. Range(r) \subseteq Range(q)
  BY <1>4, ZenonT(30) DEF Range
<1>7. QED
  BY <1>2, <1>5, <1>6, ZenonT(30) DEF r

-----------------------------------------------------------------------------
(* What the session owns, and what it restores.                            *)

\* Nothing is owned, changed or planned at the start.
LEMMA OwnStarts == Init => OwnInv
<1> SUFFICES ASSUME Init
             PROVE  OwnInv
  BY ZenonT(30)
<1>1. Initial \subseteq Dests /\ FaultSets \subseteq SUBSET {"create", "delete", "settings", "dns", "network", "again"}
  BY WindowsRoutesAssumption, ZenonT(30)
<1>2. <<>> \in Seq(Row) /\ <<>> \in Seq(CommandSet) /\ Range(<<>>) = {} /\ IsInjective(<<>>)
  BY SeqEmpty DEF Range, IsInjective
<1>3. /\ record \in RecordSet /\ record.owned = <<>> /\ ~ record.dnsChanged /\ ~ record.removed
      /\ record.changed = {} /\ \A l \in Links : record.before[l] = "unseen"
  BY <1>2, ZenonT(30) DEF Init, RecordSet
<1>4. /\ monitor \in [pending : UpdateSet, rollback : SUBSET Row] /\ monitor.rollback = {}
      /\ monitor.pending.added = {}
  BY ZenonT(30) DEF Init, NoUpdate, UpdateSet
<1>5. foreign \subseteq Row
  BY <1>1, ZenonT(30) DEF Init, Row
<1>6. WindowsTypes
  BY <1>1, <1>2, <1>3, <1>4, <1>5 DEF Init, WindowsTypes, Phases, UpdaterSet
<1>7. PlanTypes
  BY <1>2, ZenonT(30) DEF Init, PlanTypes, Refreshing
<1>8. Ownership
  BY <1>2, <1>3, ZenonT(30) DEF Init, Ownership
<1>9. Deletable
  BY <1>4, ZenonT(30) DEF Init, Deletable
<1>10. SettingsKept
  BY <1>3, ZenonT(30) DEF Init, SettingsKept
<1>11. Reported
  BY <1>3, ZenonT(30) DEF Init, Reported
<1>12. QED
  BY <1>6, <1>7, <1>8, <1>9, <1>10, <1>11 DEF OwnInv

\* A step that changes rows at most: it has to leave the session with what it
\* owns, once each, and to plan no deletion of others' rows.
LEMMA RowSteps ==
    ASSUME OwnInv, UNCHANGED <<foreign, network, dns, setting, initial, faults>>,
           record' \in RecordSet, record'.dnsChanged = record.dnsChanged, record'.before = record.before,
           record'.changed = record.changed, record'.removed = record.removed,
           record.removed => phase' = "done" /\ record'.owned = record.owned,
           os' = foreign \cup Range(record'.owned), foreign \cap Range(record'.owned) = {},
           IsInjective(record'.owned),
           phase' \in Phases, routes' \in [rows : SUBSET Row, default : Physical \cup {Offline}],
           monitor' \in [pending : UpdateSet, rollback : SUBSET Row], commands' \in Seq(CommandSet), updater' \in UpdaterSet,
           PlanTypes', Deletable'
    PROVE  OwnInv'
<1>1. Initial \subseteq Dests
  BY WindowsRoutesAssumption, ZenonT(30)
<1>2. foreign \subseteq Row
  BY <1>1 DEF OwnInv, WindowsTypes, Row
<1>3. record'.owned \in Seq(Row)
  BY ZenonT(30) DEF RecordSet
<1> DEFINE q == record'.owned
<1> HIDE DEF q
<1>4. \A i \in DOMAIN q : q[i] \in Row
  BY <1>3 DEF q
<1>5. Range(record'.owned) \subseteq Row
  BY <1>4, ZenonT(30) DEF Range, q
<1>6. WindowsTypes'
  BY <1>2, <1>5, ZenonT(30) DEF OwnInv, WindowsTypes
<1>7. Ownership'
  BY ZenonT(30) DEF Ownership
<1>8. SettingsKept'
  BY DEF OwnInv, SettingsKept
<1>9. Reported'
  BY ZenonT(30) DEF OwnInv, Reported
<1>10. QED
  BY <1>6, <1>7, <1>8, <1>9, ZenonT(30) DEF OwnInv

\* A step that changes no row and no record.
LEMMA RowsKept ==
    ASSUME OwnInv, UNCHANGED <<os, foreign, network, dns, setting, initial, record, faults>>,
           record.removed => phase' = "done",
           phase' \in Phases, routes' \in [rows : SUBSET Row, default : Physical \cup {Offline}],
           monitor' \in [pending : UpdateSet, rollback : SUBSET Row], commands' \in Seq(CommandSet), updater' \in UpdaterSet,
           PlanTypes', Deletable'
    PROVE  OwnInv'
BY RowSteps, ZenonT(30) DEF OwnInv, WindowsTypes, Ownership

\* The steps of the task that updates the upstream.
LEMMA UpdaterOwn ==
    ASSUME OwnInv, UpdaterStep \/ SkipPrepare \/ Stop, UNCHANGED faults
    PROVE  OwnInv'
<1>1. /\ UNCHANGED <<step, os, foreign, network, plan, routes, record, dns, setting, initial, monitor>>
      /\ phase' = phase \/ (phase = "running" /\ phase' = "stopping")
  BY ZenonT(30) DEF UpdaterStep, Request, DropGuard, CommitGuard, SkipPrepare, Stop
<1>2. /\ commands \in Seq(CommandSet) /\ phase \in Phases
      /\ record.removed => phase = "done"
      /\ routes \in [rows : SUBSET Row, default : Physical \cup {Offline}]
      /\ monitor \in [pending : UpdateSet, rollback : SUBSET Row]
      /\ updater \in UpdaterSet
  BY ZenonT(30) DEF OwnInv, WindowsTypes, Reported
<1>3. \A k \in {"rollback", "commit", "stop"} : Command(k) \in CommandSet
  BY ZenonT(30) DEF Command, CommandSet
<1>4. commands' \in Seq(CommandSet)
  <2>1. CASE Request
    <3> DEFINE n == updater.number + 1
    <3>1. PICK dests \in SUBSET Dests :
             commands' = Append(commands, [kind |-> "prepare", dests |-> dests, number |-> n])
      BY <2>1, ZenonT(30) DEF Request
    <3>0. n \in Nat
      BY <1>2 DEF UpdaterSet
    <3> HIDE DEF n
    <3>2. [kind |-> "prepare", dests |-> dests, number |-> n] \in CommandSet
      BY <3>0, ZenonT(30) DEF CommandSet
    <3>3. QED
      BY <1>2, <3>1, <3>2, SeqAppended
  <2>2. CASE DropGuard
    BY <1>2, <1>3, <2>2, SeqAppended, ZenonT(30) DEF DropGuard
  <2>3. CASE CommitGuard
    BY <1>2, <1>3, <2>3, SeqAppended DEF CommitGuard
  <2>4. CASE SkipPrepare
    BY <1>2, <2>4, SeqTail DEF SkipPrepare, Takes
  <2>5. CASE Stop
    BY <1>2, <1>3, <2>5, SeqAppended DEF Stop
  <2>6. QED
    BY <2>1, <2>2, <2>3, <2>4, <2>5 DEF UpdaterStep
<1>5. PlanTypes' /\ Deletable'
  BY <1>1, ZenonT(30) DEF OwnInv, PlanTypes, Deletable, Refreshing, ChannelOpen
<1>6. updater' \in UpdaterSet
  <2>1. CASE Request
    <3>1. updater' = [pc |-> "wait", number |-> updater.number + 1, reply |-> "none"] /\ updater.number + 1 \in Nat
      BY <1>2, <2>1 DEF Request, UpdaterSet
    <3>2. QED
      BY <3>1, ZenonT(30) DEF UpdaterSet
  <2>2. CASE DropGuard \/ CommitGuard
    <3>1. updater' = [updater EXCEPT !.pc = "idle", !.reply = "none"]
      BY <2>2, ZenonT(30) DEF DropGuard, CommitGuard
    <3>2. QED
      BY <1>2, <3>1, ZenonT(30) DEF UpdaterSet
  <2>3. CASE SkipPrepare \/ Stop
    BY <1>2, <2>3, ZenonT(30) DEF SkipPrepare, Stop
  <2>4. QED
    BY <2>1, <2>2, <2>3 DEF UpdaterStep
<1>7. QED
  BY <1>1, <1>2, <1>4, <1>5, <1>6, RowsKept DEF Phases

\* An update of what the record says of rows.
LEMMA RecordOwned ==
    ASSUME record \in RecordSet, NEW q \in Seq(Row), NEW w \in [Dests -> Row \cup {NoRow}],
           \/ record' = [record EXCEPT !.owned = q, !.desired = w]
           \/ record' = [record EXCEPT !.owned = q] /\ w = record.desired
           \/ record' = [record EXCEPT !.desired = w] /\ q = record.owned
           \/ record' = record /\ w = record.desired /\ q = record.owned
    PROVE  /\ record' \in RecordSet /\ record'.owned = q /\ record'.desired = w
           /\ record'.dnsChanged = record.dnsChanged /\ record'.before = record.before
           /\ record'.changed = record.changed /\ record'.removed = record.removed
<1>1. CASE record' = [record EXCEPT !.owned = q, !.desired = w]
  BY <1>1, ZenonT(30) DEF RecordSet
<1>2. CASE record' = [record EXCEPT !.owned = q] /\ w = record.desired
  BY <1>2, ZenonT(30) DEF RecordSet
<1>3. CASE record' = [record EXCEPT !.desired = w] /\ q = record.owned
  BY <1>3, ZenonT(30) DEF RecordSet
<1>4. CASE record' = record /\ w = record.desired /\ q = record.owned
  BY <1>4, ZenonT(30) DEF RecordSet
<1>5. QED
  BY <1>1, <1>2, <1>3, <1>4

\* What Without leaves, of rows none of which is foreign: the session's other
\* rows, in the system as well.
LEMMA WithoutOwned ==
    ASSUME OwnInv, NEW rows, foreign \cap rows = {}
    PROVE  /\ Without(rows) \in Seq(Row)
           /\ Range(Without(rows)) = Range(record.owned) \ rows
           /\ os \ rows = foreign \cup Range(Without(rows))
           /\ foreign \cap Range(Without(rows)) = {}
           /\ IsInjective(Without(rows))
<1>1. /\ record.owned \in Seq(Row) /\ IsInjective(record.owned)
      /\ os = foreign \cup Range(record.owned) /\ foreign \cap Range(record.owned) = {}
  BY ZenonT(30) DEF OwnInv, WindowsTypes, RecordSet, Ownership
<1> DEFINE q == record.owned
<1> HIDE DEF q
<1>2. /\ Drop(q, rows) \in Seq(Row) /\ Range(Drop(q, rows)) = Range(q) \ rows /\ IsInjective(Drop(q, rows))
  BY <1>1, DropProperties, ZenonT(30) DEF q
<1>3. QED
  BY <1>1, <1>2, ZenonT(30) DEF Without, q

\* The plan of the installation and what it starts with.
LEMMA MakePlanOwn ==
    ASSUME OwnInv, MakePlan, UNCHANGED faults
    PROVE  OwnInv'
<1>1. PICK order \in Orders(Initial), via \in [Initial -> Physical] :
         LET row == [d \in Initial |-> [dest |-> d, via |-> via[d]]]
         IN  /\ plan' = [i \in 1 .. Len(order) |-> row[order[i]]] \o <<Capture>>
             /\ record' = [record EXCEPT !.desired = [d \in Dests |-> IF d \in Initial THEN row[d] ELSE NoRow]]
  BY ZenonT(30) DEF MakePlan
<1>2. /\ phase = "install" /\ UNCHANGED <<phase, os, foreign, network, routes, dns, setting, monitor, commands, updater, initial>>
  BY ZenonT(30) DEF MakePlan
<1> DEFINE row == [d \in Initial |-> [dest |-> d, via |-> via[d]]]
           first == [i \in 1 .. Len(order) |-> row[order[i]]]
           w == [d \in Dests |-> IF d \in Initial THEN row[d] ELSE NoRow]
<1>3. IsFiniteSet(Initial) /\ Initial \subseteq Dests
  BY WindowsRoutesAssumption, FS_Subset, ZenonT(30)
<1>4. Cardinality(Initial) \in Nat
  BY <1>3, FS_CardinalityType, ZenonT(30)
<1>5. order \in [1 .. Cardinality(Initial) -> Initial]
  BY ZenonT(30) DEF Orders, Bijection, Injection
<1>6. order \in Seq(Initial) /\ Len(order) \in Nat
  BY <1>4, <1>5
<1>7. \A d \in Initial : row[d] \in Row
  BY <1>3, ZenonT(30) DEF Row
<1>8. w \in [Dests -> Row \cup {NoRow}]
  BY <1>7, ZenonT(30)
<1>9. first \in Seq(Row)
  <2>1. \A i \in 1 .. Len(order) : order[i] \in Initial
    BY <1>6
  <2> HIDE DEF row
  <2>2. first \in [1 .. Len(order) -> Row]
    BY <1>7, <2>1, ZenonT(30)
  <2> DEFINE n == Len(order)
  <2>3. n \in Nat /\ first \in [1 .. n -> Row]
    BY <1>6, <2>2
  <2> HIDE DEF first, n
  <2>4. QED
    BY <2>3
<1>10. Capture \in Row
  BY ZenonT(30) DEF Capture, Row
<1> HIDE DEF first, w
<1>11. plan' \in Seq(Row)
  BY <1>1, <1>9, <1>10 DEF first
<1>12. /\ record \in RecordSet /\ record.owned \in Seq(Row) /\ record' = [record EXCEPT !.desired = w]
  BY <1>1, ZenonT(30) DEF OwnInv, WindowsTypes, RecordSet, w
<1>13. /\ record' \in RecordSet /\ record'.owned = record.owned
       /\ record'.dnsChanged = record.dnsChanged /\ record'.before = record.before
       /\ record'.changed = record.changed /\ record'.removed = record.removed
  BY <1>8, <1>12, RecordOwned, ZenonT(30)
<1>14. PlanTypes' /\ Deletable'
  BY <1>2, <1>11, ZenonT(30) DEF OwnInv, PlanTypes, Deletable, Refreshing, ChannelOpen
<1>15. QED
  BY <1>2, <1>13, <1>14, RowSteps, ZenonT(30) DEF OwnInv, WindowsTypes, Ownership, Reported

\* Nothing is installed without a path.
LEMMA PlanFailsOwn ==
    ASSUME OwnInv, PlanFails, UNCHANGED faults
    PROVE  OwnInv'
<1>1. /\ phase' = "done"
      /\ UNCHANGED <<os, foreign, network, plan, routes, record, dns, setting, initial, monitor, commands, updater>>
  BY ZenonT(30) DEF PlanFails
<1>2. PlanTypes' /\ Deletable'
  BY <1>1, ZenonT(30) DEF OwnInv, PlanTypes, Deletable, Refreshing, ChannelOpen
<1>3. QED
  BY <1>1, <1>2, RowsKept DEF OwnInv, WindowsTypes, Phases

\* A row of the plan is added, and owned if it was not there.
LEMMA InstallRowOwn ==
    ASSUME OwnInv, InstallRow, UNCHANGED faults
    PROVE  OwnInv'
<1>1. /\ phase = "install" /\ step = "rows" /\ plan # <<>>
      /\ UNCHANGED <<foreign, network, routes, dns, setting, initial, monitor, commands, updater>>
  BY ZenonT(30) DEF InstallRow
<1>2. /\ plan \in Seq(Row) /\ record \in RecordSet /\ record.owned \in Seq(Row) /\ IsInjective(record.owned)
      /\ os = foreign \cup Range(record.owned) /\ foreign \cap Range(record.owned) = {} /\ ~ record.removed
      /\ record.desired \in [Dests -> Row \cup {NoRow}]
  BY <1>1, ZenonT(30) DEF OwnInv, WindowsTypes, PlanTypes, RecordSet, Ownership, Reported
<1>3. Head(plan) \in Row /\ Tail(plan) \in Seq(Row)
  BY <1>1, <1>2, TailRows
<1>4. CASE /\ os' = os \cup {Head(plan)} /\ plan' = Tail(plan) /\ UNCHANGED <<phase, step>>
           /\ record' = IF Head(plan) \in os THEN record
                        ELSE [record EXCEPT !.owned = Append(record.owned, Head(plan))]
  <2>1. PlanTypes' /\ Deletable'
    BY <1>1, <1>3, <1>4 DEF OwnInv, PlanTypes, Deletable, Refreshing, ChannelOpen
  <2>2. CASE Head(plan) \in os
    <3>1. os' = os /\ record' = record
      BY <1>4, <2>2
    <3>2. QED
      BY <1>1, <1>2, <1>4, <2>1, <3>1, RowsKept DEF OwnInv, WindowsTypes
  <2>3. CASE Head(plan) \notin os
    <3> DEFINE q == Append(record.owned, Head(plan))
    <3>1. q \in Seq(Row) /\ Range(q) = Range(record.owned) \cup {Head(plan)} /\ IsInjective(q)
      BY <1>2, <1>3, <2>3, AppendRow
    <3>2. record' = [record EXCEPT !.owned = q]
      BY <1>4, <2>3, ZenonT(30)
    <3> HIDE DEF q
    <3>3. /\ record' \in RecordSet /\ record'.owned = q
          /\ record'.dnsChanged = record.dnsChanged /\ record'.before = record.before
          /\ record'.changed = record.changed /\ record'.removed = record.removed
      BY <1>2, <3>1, <3>2, RecordOwned, ZenonT(30)
    <3>4. os' = foreign \cup Range(q) /\ foreign \cap Range(q) = {}
      BY <1>2, <1>4, <2>3, <3>1, ZenonT(30)
    <3>5. QED
      BY <1>1, <1>2, <1>4, <2>1, <3>1, <3>3, <3>4, RowSteps, ZenonT(30) DEF OwnInv, WindowsTypes
  <2>4. QED
    BY <2>2, <2>3
<1>5. CASE StartCleanup(record.owned) /\ UNCHANGED <<os, record>>
  <2>1. phase' = "cleanup" /\ plan' = record.owned
    BY <1>5, ZenonT(30) DEF StartCleanup
  <2>2. PlanTypes' /\ Deletable'
    BY <1>1, <1>2, <2>1 DEF OwnInv, PlanTypes, Deletable, Refreshing, ChannelOpen
  <2>3. QED
    BY <1>1, <1>2, <1>5, <2>1, <2>2, RowsKept DEF OwnInv, WindowsTypes, Phases
<1>6. QED
  BY <1>4, <1>5 DEF InstallRow

\* A step that changes no row and not what is owned.
LEMMA SettingSteps ==
    ASSUME OwnInv, UNCHANGED <<os, foreign, initial, faults>>,
           record' \in RecordSet, record'.owned = record.owned,
           phase' \in Phases, routes' \in [rows : SUBSET Row, default : Physical \cup {Offline}],
           network' \in [default : Physical \cup {Offline}, changes : Nat, turned : SUBSET Links],
           dns' \in {"before", "tun"}, setting' \in [Links -> BOOLEAN],
           monitor' \in [pending : UpdateSet, rollback : SUBSET Row], commands' \in Seq(CommandSet), updater' \in UpdaterSet,
           PlanTypes', Deletable', SettingsKept', Reported'
    PROVE  OwnInv'
<1>1. WindowsTypes'
  BY ZenonT(30) DEF OwnInv, WindowsTypes
<1>2. Ownership'
  BY ZenonT(30) DEF OwnInv, Ownership
<1>3. QED
  BY <1>1, <1>2 DEF OwnInv

\* The outside changes: the default route, or an interface's forwarding.
LEMMA OutsideOwn ==
    ASSUME OwnInv, NetworkChanges \/ SettingChanges, UNCHANGED faults
    PROVE  OwnInv'
<1>1. UNCHANGED <<phase, step, os, foreign, plan, routes, record, dns, initial, monitor, commands, updater>>
  BY ZenonT(30) DEF NetworkChanges, SettingChanges
<1>2. /\ network \in [default : Physical \cup {Offline}, changes : Nat, turned : SUBSET Links]
      /\ setting \in [Links -> BOOLEAN]
  BY ZenonT(30) DEF OwnInv, WindowsTypes
<1>3. PlanTypes' /\ Deletable' /\ Reported'
  BY <1>1 DEF OwnInv, PlanTypes, Deletable, Refreshing, ChannelOpen, Reported
<1>4. CASE NetworkChanges
  <2>1. PICK i \in (Physical \cup {Offline}) : network' = [network EXCEPT !.default = i, !.changes = @ + 1]
    BY <1>4, ZenonT(30) DEF NetworkChanges
  <2>2. /\ network' \in [default : Physical \cup {Offline}, changes : Nat, turned : SUBSET Links]
        /\ network'.turned = network.turned
    <3> DEFINE n == network.changes + 1
    <3>1. n \in Nat
      BY <1>2
    <3>2. network' = [network EXCEPT !.default = i, !.changes = n]
      BY <2>1, ZenonT(30)
    <3> HIDE DEF n
    <3>3. QED
      BY <1>2, <3>1, <3>2, ZenonT(30)
  <2>3. setting' = setting
    BY <1>4, ZenonT(30) DEF NetworkChanges
  <2>4. SettingsKept'
    BY <1>1, <2>2, <2>3, ZenonT(30) DEF OwnInv, SettingsKept
  <2>5. QED
    BY <1>1, <1>3, <2>2, <2>3, <2>4, SettingSteps DEF OwnInv, WindowsTypes
<1>5. CASE SettingChanges
  <2>1. PICK m \in Links : /\ setting' = [setting EXCEPT ![m] = FALSE]
                           /\ network' = [network EXCEPT !.changes = @ + 1, !.turned = @ \cup {m}]
    BY <1>5, ZenonT(30) DEF SettingChanges
  <2>2. /\ network' \in [default : Physical \cup {Offline}, changes : Nat, turned : SUBSET Links]
        /\ network'.turned = network.turned \cup {m}
    <3> DEFINE n == network.changes + 1
               s == network.turned \cup {m}
    <3>1. n \in Nat /\ s \in SUBSET Links
      BY <1>2
    <3>2. network' = [network EXCEPT !.changes = n, !.turned = s]
      BY <2>1, ZenonT(30)
    <3> HIDE DEF n, s
    <3>3. network' \in [default : Physical \cup {Offline}, changes : Nat, turned : SUBSET Links] /\ network'.turned = s
      BY <1>2, <3>1, <3>2, ZenonT(30)
    <3>4. QED
      BY <3>3, ZenonT(30) DEF s
  <2>3. /\ setting' \in [Links -> BOOLEAN] /\ ~ setting'[m]
        /\ \A l \in Links : l # m => setting'[l] = setting[l]
    BY <1>2, <2>1
  <2>4. SettingsKept'
    BY <1>1, <2>2, <2>3 DEF OwnInv, SettingsKept
  <2>5. QED
    BY <1>1, <1>3, <2>2, <2>3, <2>4, SettingSteps DEF OwnInv, WindowsTypes
<1>6. QED
  BY <1>4, <1>5, ZenonT(30)

\* Reconciling what was seen: what an interface was is remembered before its
\* setting is touched.
LEMMA ReconcileKeeps ==
    ASSUME OwnInv, ReconcilesAll \/ ReconcileFails, UNCHANGED <<initial, network>>
    PROVE  /\ record' \in RecordSet /\ setting' \in [Links -> BOOLEAN] /\ SettingsKept'
           /\ record'.owned = record.owned /\ record'.desired = record.desired
           /\ record'.dnsChanged = record.dnsChanged /\ record'.removed = record.removed
<1>1. \E seen, applied \in SUBSET Links : applied \subseteq seen /\ Reconciles(seen, applied)
  <2>1. CASE ReconcilesAll
    BY <2>1, ZenonT(30) DEF ReconcilesAll
  <2>2. CASE ReconcileFails
    <3>1. PICK seen \in SUBSET Links, missed \in SUBSET Links : Reconciles(seen, seen \ missed)
      BY <2>2, ZenonT(30) DEF ReconcileFails
    <3>2. QED
      BY <3>1, ZenonT(30)
  <2>3. QED
    BY <2>1, <2>2, ZenonT(30)
<1>2. PICK seen \in SUBSET Links, applied \in SUBSET Links : applied \subseteq seen /\ Reconciles(seen, applied)
  BY <1>1, ZenonT(30)
<1>3. record \in RecordSet /\ setting \in [Links -> BOOLEAN] /\ SettingsKept
  BY ZenonT(30) DEF OwnInv, WindowsTypes
<1> DEFINE was == [l \in Links |-> IF l \in seen /\ record.before[l] = "unseen"
                                   THEN IF setting[l] THEN "on" ELSE "off" ELSE record.before[l]]
           off == {l \in seen : ~ setting[l]}
<1>4. record' = [record EXCEPT !.before = was, !.changed = record.changed \cup off]
  BY <1>2, ZenonT(30) DEF Reconciles
<1>5. was \in [Links -> {"unseen", "on", "off"}] /\ off \in SUBSET Links
  BY <1>3, ZenonT(30) DEF RecordSet
<1>6. \A l \in Links :
        /\ (l \notin seen \/ record.before[l] # "unseen") => was[l] = record.before[l]
        /\ (l \in seen /\ record.before[l] = "unseen") => was[l] = IF setting[l] THEN "on" ELSE "off"
        /\ l \in off <=> l \in seen /\ ~ setting[l]
  BY ZenonT(30)
<1>7. setting' \in [Links -> BOOLEAN] /\ \A l \in Links : setting'[l] = (setting[l] \/ l \in applied)
  BY <1>2, <1>3, ZenonT(30) DEF Reconciles
<1> HIDE DEF was, off
<1>8. /\ record' \in RecordSet /\ record'.owned = record.owned /\ record'.desired = record.desired
      /\ record'.dnsChanged = record.dnsChanged /\ record'.removed = record.removed
      /\ record'.before = was /\ record'.changed = record.changed \cup off
  BY <1>3, <1>4, <1>5, ZenonT(30) DEF RecordSet
<1>9. SettingsKept'
  <2> SUFFICES ASSUME NEW l \in Links
               PROVE  /\ l \notin record.changed \cup off => /\ setting'[l] => initial[l]
                                                             /\ initial[l] => setting'[l] \/ l \in network.turned
                      /\ was[l] = "on" => initial[l]
                      /\ was[l] = "off" => ~ initial[l] \/ l \in network.turned
                      /\ was[l] = "unseen" => l \notin record.changed \cup off
    BY <1>8, ZenonT(30) DEF SettingsKept
  <2>1. /\ l \notin record.changed => /\ setting[l] => initial[l]
                                      /\ initial[l] => setting[l] \/ l \in network.turned
        /\ record.before[l] = "on" => initial[l]
        /\ record.before[l] = "off" => ~ initial[l] \/ l \in network.turned
        /\ record.before[l] = "unseen" => l \notin record.changed
    BY <1>3, ZenonT(30) DEF SettingsKept
  <2>2. setting'[l] = (setting[l] \/ l \in applied) /\ (l \in applied => l \in seen)
    BY <1>2, <1>7, Zenon
  <2>3. CASE l \in seen /\ record.before[l] = "unseen"
    <3>1. was[l] = IF setting[l] THEN "on" ELSE "off"
      BY <1>6, <2>3, ZenonT(30)
    <3>2. QED
      BY <1>6, <2>1, <2>2, <2>3, <3>1, ZenonT(30)
  <2>4. CASE ~ (l \in seen /\ record.before[l] = "unseen")
    <3>1. was[l] = record.before[l]
      BY <1>6, <2>4, ZenonT(30)
    <3>2. QED
      BY <1>6, <2>1, <2>2, <2>4, <3>1, ZenonT(30)
  <2>5. QED
    BY <2>3, <2>4, ZenonT(30)
<1>10. QED
  BY <1>7, <1>8, <1>9, ZenonT(30)

\* The settings step of the installation, and the monitor's.
LEMMA SettingsOwn ==
    ASSUME OwnInv, InstallSettings \/ Tick, UNCHANGED faults
    PROVE  OwnInv'
<1>1. /\ ReconcilesAll \/ ReconcileFails
      /\ UNCHANGED <<os, foreign, network, routes, dns, initial, monitor, commands, updater>>
  BY ZenonT(30) DEF InstallSettings, Tick
<1>2. /\ record' \in RecordSet /\ setting' \in [Links -> BOOLEAN] /\ SettingsKept'
      /\ record'.owned = record.owned /\ record'.dnsChanged = record.dnsChanged /\ record'.removed = record.removed
  BY <1>1, ReconcileKeeps, ZenonT(30)
<1>3. phase \in {"install", "running", "stopping"} /\ ~ record.removed /\ <<>> \in Seq(Row) /\ Range(<<>>) = {}
  BY SeqEmpty DEF InstallSettings, Tick, Idle, ChannelOpen, OwnInv, Reported, Range
<1>4. \/ UNCHANGED <<phase, plan>> /\ step' \in {"rows", "rollback"}
      \/ phase' = "cleanup" /\ plan' = <<>> /\ step' = "rows"
  BY ZenonT(30) DEF InstallSettings, Tick, StartCleanup
<1>5. PlanTypes' /\ Deletable'
  BY <1>1, <1>3, <1>4, ZenonT(30) DEF OwnInv, PlanTypes, Deletable, Refreshing, ChannelOpen
<1>6. Reported'
  BY <1>1, <1>2, <1>3, ZenonT(30) DEF OwnInv, Reported
<1>7. QED
  BY <1>1, <1>2, <1>4, <1>5, <1>6, SettingSteps DEF OwnInv, WindowsTypes, Phases

\* The adapter's DNS, at the end of the installation and in the cleanup.
LEMMA DnsOwn ==
    ASSUME OwnInv, InstallDns \/ CleanupDns, UNCHANGED faults
    PROVE  OwnInv'
<1>1. /\ UNCHANGED <<os, foreign, network, routes, setting, initial, monitor, commands, updater>>
      /\ phase \in {"install", "cleanup"} /\ ~ record.removed
  BY ZenonT(30) DEF InstallDns, CleanupDns, OwnInv, Reported
<1>2. /\ record \in RecordSet /\ record.owned \in Seq(Row) /\ foreign \cap Range(record.owned) = {}
      /\ dns \in {"before", "tun"}
  BY ZenonT(30) DEF OwnInv, WindowsTypes, RecordSet, Ownership
<1>3. PICK b \in BOOLEAN : /\ record' = [record EXCEPT !.dnsChanged = b]
                           /\ ~ b => dns' = "before"
                           /\ dns' \in {"before", "tun"}
  <2>1. CASE InstallDns
    BY <2>1, ZenonT(30) DEF InstallDns
  <2>2. CASE CleanupDns /\ record' = [record EXCEPT !.dnsChanged = FALSE]
    BY <1>2, <2>2, ZenonT(30) DEF CleanupDns, OwnInv, Reported
  <2>3. CASE CleanupDns /\ record.dnsChanged /\ UNCHANGED <<dns, record>>
    <3>1. record' = [record EXCEPT !.dnsChanged = TRUE]
      BY <1>2, <2>3, ZenonT(30) DEF RecordSet
    <3>2. QED
      BY <1>2, <2>3, <3>1, ZenonT(30)
  <2>4. QED
    BY <2>1, <2>2, <2>3, ZenonT(30) DEF CleanupDns
<1>4. /\ record' \in RecordSet /\ record'.owned = record.owned /\ record'.removed = record.removed
      /\ record'.before = record.before /\ record'.changed = record.changed /\ record'.dnsChanged = b
  BY <1>2, <1>3, ZenonT(30) DEF RecordSet
<1>5. SettingsKept' /\ Reported'
  BY <1>1, <1>3, <1>4, ZenonT(30) DEF OwnInv, SettingsKept, Reported
<1>6. \/ phase = "install" /\ phase' = "running" /\ step' = "wait" /\ plan' = plan
      \/ phase' = "cleanup" /\ plan' = record.owned
      \/ phase = "cleanup" /\ phase' = phase /\ plan' = plan
  BY ZenonT(30) DEF InstallDns, CleanupDns, StartCleanup
<1>7. PlanTypes' /\ Deletable'
  <2>1. PlanTypes'
    BY <1>1, <1>2, <1>6, ZenonT(30) DEF OwnInv, PlanTypes, Refreshing, ChannelOpen
  <2>2. Deletable'
    BY <1>1, <1>2, <1>6, ZenonT(30) DEF OwnInv, Deletable
  <2>3. QED
    BY <2>1, <2>2, ZenonT(30)
<1>8. QED
  BY <1>1, <1>3, <1>4, <1>5, <1>6, <1>7, SettingSteps DEF OwnInv, WindowsTypes, Phases

\* The end of a cleanup attempt: the settings go back.
LEMMA LinksOwn ==
    ASSUME OwnInv, CleanupLinks, UNCHANGED faults
    PROVE  OwnInv'
<1>1. /\ UNCHANGED <<os, foreign, network, routes, dns, initial, monitor, commands, updater>>
      /\ phase = "cleanup" /\ step = "links" /\ ~ record.removed
  BY ZenonT(30) DEF CleanupLinks, OwnInv, Reported
<1>2. /\ record \in RecordSet /\ record.owned \in Seq(Row) /\ foreign \cap Range(record.owned) = {}
      /\ setting \in [Links -> BOOLEAN] /\ record.changed \subseteq Links
  BY ZenonT(30) DEF OwnInv, WindowsTypes, RecordSet, Ownership
<1> DEFINE left(failed) == [l \in Links |-> IF l \in failed THEN record.before[l] ELSE "unseen"]
           clean(failed) == failed = {} /\ record.owned = <<>> /\ ~ record.dnsChanged
<1>3. PICK failed \in SUBSET record.changed :
        /\ setting' = [l \in Links |-> IF l \in record.changed \ failed
                                       THEN record.before[l] = "on" ELSE setting[l]]
        /\ record' = [record EXCEPT !.removed = clean(failed), !.changed = failed, !.before = left(failed)]
        /\ IF clean(failed) \/ ~ RetryAllowed
           THEN phase' = "done" /\ UNCHANGED plan
           ELSE step' = "rows" /\ plan' = record.owned /\ UNCHANGED phase
  BY ZenonT(30) DEF CleanupLinks
<1>4. clean(failed) \in BOOLEAN /\ left(failed) \in [Links -> {"unseen", "on", "off"}] /\ failed \subseteq Links
  BY <1>2, ZenonT(30) DEF RecordSet
<1>5. \A l \in Links : left(failed)[l] = IF l \in failed THEN record.before[l] ELSE "unseen"
  BY ZenonT(30)
<1>6. clean(failed) => failed = {} /\ record.owned = <<>> /\ ~ record.dnsChanged
  BY ZenonT(30)
<1> DEFINE c == clean(failed)
           w == left(failed)
<1> HIDE DEF c, w
<1>7. /\ record' \in RecordSet /\ record'.owned = record.owned /\ record'.removed = c
      /\ record'.before = w /\ record'.changed = failed /\ record'.dnsChanged = record.dnsChanged
  <2>1. record' = [record EXCEPT !.removed = c, !.changed = failed, !.before = w]
    BY <1>3, ZenonT(30) DEF c, w
  <2>2. c \in BOOLEAN /\ w \in [Links -> {"unseen", "on", "off"}]
    BY <1>4, ZenonT(30) DEF c, w
  <2>3. QED
    BY <1>2, <1>4, <2>1, <2>2, ZenonT(30) DEF RecordSet
<1>8. Reported'
  <2>1. c => failed = {} /\ record.owned = <<>> /\ ~ record.dnsChanged /\ phase' = "done"
    BY <1>3, <1>6, ZenonT(30) DEF c
  <2>2. QED
    BY <1>1, <1>7, <2>1 DEF OwnInv, Reported
<1>9. /\ setting' \in [Links -> BOOLEAN]
      /\ \A l \in Links : setting'[l] = IF l \in record.changed \ failed THEN record.before[l] = "on" ELSE setting[l]
  BY <1>2, <1>3, ZenonT(30)
<1>10. SettingsKept'
  <2> SUFFICES ASSUME NEW l \in Links
               PROVE  /\ l \notin failed => /\ setting'[l] => initial[l]
                                            /\ initial[l] => setting'[l] \/ l \in network.turned
                      /\ w[l] = "on" => initial[l]
                      /\ w[l] = "off" => ~ initial[l] \/ l \in network.turned
                      /\ w[l] = "unseen" => l \notin failed
    BY <1>1, <1>7, ZenonT(30) DEF SettingsKept
  <2>1. /\ l \notin record.changed => /\ setting[l] => initial[l]
                                      /\ initial[l] => setting[l] \/ l \in network.turned
        /\ record.before[l] = "on" => initial[l]
        /\ record.before[l] = "off" => ~ initial[l] \/ l \in network.turned
        /\ record.before[l] = "unseen" => l \notin record.changed
        /\ record.before[l] \in {"unseen", "on", "off"}
    BY <1>2, ZenonT(30) DEF OwnInv, SettingsKept, RecordSet
  <2>2. setting'[l] = IF l \in record.changed \ failed THEN record.before[l] = "on" ELSE setting[l]
    BY <1>9, ZenonT(30)
  <2>3. w[l] = IF l \in failed THEN record.before[l] ELSE "unseen"
    BY <1>5, ZenonT(30) DEF w
  <2>4. l \in failed => l \in record.changed
    BY ZenonT(30)
  <2>5. QED
    BY <2>1, <2>2, <2>3, <2>4, ZenonT(30)
<1>11. (phase' = "done" /\ plan' = plan) \/ (plan' = record.owned /\ phase' = phase)
  BY <1>3, ZenonT(30)
<1>12. PlanTypes' /\ Deletable'
  BY <1>1, <1>2, <1>11, ZenonT(30) DEF OwnInv, PlanTypes, Deletable, Refreshing, ChannelOpen
<1>13. QED
  BY <1>1, <1>7, <1>8, <1>9, <1>10, <1>11, <1>12, SettingSteps, ZenonT(30) DEF OwnInv, WindowsTypes, Phases

\* A step that deletes rows, none of them foreign.
LEMMA DeleteOwn ==
    ASSUME OwnInv, UNCHANGED <<foreign, network, dns, setting, initial, faults>>, ~ record.removed,
           NEW gone, foreign \cap gone = {}, os' = os \ gone,
           record' = [record EXCEPT !.owned = Without(gone)],
           phase' \in Phases, routes' \in [rows : SUBSET Row, default : Physical \cup {Offline}],
           monitor' \in [pending : UpdateSet, rollback : SUBSET Row], commands' \in Seq(CommandSet), updater' \in UpdaterSet,
           PlanTypes', Deletable'
    PROVE  OwnInv'
<1> DEFINE q == Without(gone)
<1>1. q \in Seq(Row) /\ os' = foreign \cup Range(q) /\ foreign \cap Range(q) = {} /\ IsInjective(q)
  BY WithoutOwned, ZenonT(30)
<1>2. record \in RecordSet /\ record.desired \in [Dests -> Row \cup {NoRow}] /\ record' = [record EXCEPT !.owned = q]
  BY ZenonT(30) DEF OwnInv, WindowsTypes, RecordSet
<1> HIDE DEF q
<1>3. /\ record' \in RecordSet /\ record'.owned = q
      /\ record'.dnsChanged = record.dnsChanged /\ record'.before = record.before
      /\ record'.changed = record.changed /\ record'.removed = record.removed
  BY <1>1, <1>2, RecordOwned, ZenonT(30)
<1>4. QED
  BY <1>1, <1>3, RowSteps, ZenonT(30)

\* The types of what the monitor works with.
LEMMA MonitorTypes ==
    ASSUME OwnInv, ChannelOpen
    PROVE  /\ phase \in {"running", "stopping"} /\ ~ record.removed
           /\ monitor \in [pending : UpdateSet, rollback : SUBSET Row]
           /\ monitor.pending \in UpdateSet /\ monitor.rollback \subseteq Row
           /\ monitor.pending.added \subseteq Row /\ monitor.pending.desired \subseteq Row
           /\ foreign \cap monitor.rollback = {} /\ foreign \cap monitor.pending.added = {}
           /\ NoUpdate \in UpdateSet /\ NoUpdate.added = {} /\ NoUpdate.desired = {} /\ ~ NoUpdate.open
           /\ commands \in Seq(CommandSet) /\ (commands # <<>> => Tail(commands) \in Seq(CommandSet))
           /\ commands # <<>> => Head(commands) \in CommandSet
           /\ updater \in UpdaterSet /\ record \in RecordSet /\ record.owned \in Seq(Row)
           /\ record.desired \in [Dests -> Row \cup {NoRow}]
           /\ routes \in [rows : SUBSET Row, default : Physical \cup {Offline}]
           /\ phase \in Phases /\ os \subseteq Row
           /\ network.default \in Physical \cup {Offline}
<1>1. /\ monitor \in [pending : UpdateSet, rollback : SUBSET Row] /\ commands \in Seq(CommandSet)
      /\ updater \in UpdaterSet /\ record \in RecordSet /\ phase \in Phases /\ os \subseteq Row
      /\ network \in [default : Physical \cup {Offline}, changes : Nat, turned : SUBSET Links]
      /\ routes \in [rows : SUBSET Row, default : Physical \cup {Offline}]
  BY ZenonT(30) DEF OwnInv, WindowsTypes
<1>2. /\ monitor.pending \in UpdateSet /\ monitor.rollback \subseteq Row
      /\ monitor.pending.added \subseteq Row /\ monitor.pending.desired \subseteq Row
  BY <1>1, ZenonT(30) DEF UpdateSet
<1>3. NoUpdate \in UpdateSet /\ NoUpdate.added = {} /\ NoUpdate.desired = {} /\ ~ NoUpdate.open
  BY ZenonT(30) DEF NoUpdate, UpdateSet
<1>4. commands # <<>> => Tail(commands) \in Seq(CommandSet) /\ Head(commands) \in CommandSet
  BY <1>1, SeqTail, ZenonT(30)
<1>5. phase \in {"running", "stopping"} /\ ~ record.removed
  BY ZenonT(30) DEF ChannelOpen, OwnInv, Reported
<1>6. record.owned \in Seq(Row) /\ record.desired \in [Dests -> Row \cup {NoRow}]
  BY <1>1, ZenonT(30) DEF RecordSet
<1>7. foreign \cap monitor.rollback = {} /\ foreign \cap monitor.pending.added = {}
  BY ZenonT(30) DEF OwnInv, Deletable
<1>8. QED
  BY <1>1, <1>2, <1>3, <1>4, <1>5, <1>6, <1>7

\* While the monitor is between two refreshes the plan says nothing.
LEMMA WaitingPlan ==
    ASSUME OwnInv, ChannelOpen, phase' = phase, foreign' = foreign,
           foreign \cap monitor'.rollback = {}, foreign \cap monitor'.pending.added = {}
    PROVE  Deletable' /\ (step' \notin {"create", "retire"} => PlanTypes')
BY ZenonT(30) DEF OwnInv, Deletable, ChannelOpen, PlanTypes, Refreshing

\* What an update wanted is wanted now.
LEMMA CommitOwn ==
    ASSUME OwnInv, Commit, UNCHANGED faults
    PROVE  OwnInv'
<1>1. ChannelOpen /\ step = "wait" /\ commands # <<>>
  BY ZenonT(30) DEF Commit, Takes, Idle
<1>2. /\ UNCHANGED <<phase, step, os, foreign, network, plan, routes, dns, setting, updater, initial>>
      /\ commands' = Tail(commands) /\ monitor' = [monitor EXCEPT !.pending = NoUpdate]
  BY ZenonT(30) DEF Commit
<1> DEFINE rows(d) == {r \in monitor.pending.desired : r.dest = d}
           w == [d \in Dests |-> IF rows(d) = {} THEN record.desired[d] ELSE CHOOSE r \in rows(d) : TRUE]
<1>3. record' = [record EXCEPT !.desired = w]
  BY ZenonT(30) DEF Commit
<1>4. w \in [Dests -> Row \cup {NoRow}]
  <2>1. \A d \in Dests : rows(d) # {} => (CHOOSE r \in rows(d) : TRUE) \in rows(d)
    BY ZenonT(30)
  <2>2. \A d \in Dests : rows(d) \subseteq Row
    BY <1>1, MonitorTypes, ZenonT(30)
  <2> HIDE DEF rows
  <2>3. QED
    BY <1>1, <2>1, <2>2, MonitorTypes, ZenonT(30)
<1> HIDE DEF w
<1>5. /\ record' \in RecordSet /\ record'.owned = record.owned
      /\ record'.dnsChanged = record.dnsChanged /\ record'.before = record.before
      /\ record'.changed = record.changed /\ record'.removed = record.removed
  BY <1>1, <1>3, <1>4, RecordOwned, MonitorTypes, ZenonT(30)
<1>6. /\ monitor' \in [pending : UpdateSet, rollback : SUBSET Row]
      /\ monitor'.rollback = monitor.rollback /\ monitor'.pending.added = {}
  BY <1>1, <1>2, MonitorTypes, ZenonT(30)
<1>7. PlanTypes' /\ Deletable'
  BY <1>1, <1>2, <1>6, WaitingPlan, MonitorTypes, ZenonT(30)
<1>8. QED
  BY <1>1, <1>2, <1>5, <1>6, <1>7, RowSteps, MonitorTypes, ZenonT(30) DEF OwnInv, Ownership

\* The provisional rows of an update, and what is still due, are deleted.
LEMMA RollbackOwn ==
    ASSUME OwnInv, Rollback, UNCHANGED faults
    PROVE  OwnInv'
<1>1. ChannelOpen /\ step = "wait" /\ commands # <<>>
  BY ZenonT(30) DEF Rollback, Takes, Idle
<1>2. /\ UNCHANGED <<phase, step, foreign, network, plan, routes, dns, setting, updater, initial>>
      /\ commands' = Tail(commands)
  BY ZenonT(30) DEF Rollback
<1> DEFINE due == monitor.rollback \cup monitor.pending.added
<1>3. PICK failed \in FailedRollbacks(due) :
         /\ os' = os \ (due \ failed)
         /\ record' = [record EXCEPT !.owned = Without(due \ failed)]
         /\ monitor' = [pending |-> NoUpdate, rollback |-> failed]
  BY ZenonT(30) DEF Rollback
<1>4. failed \subseteq due
  BY ZenonT(30) DEF FailedRollbacks
<1>5. due \subseteq Row /\ foreign \cap due = {}
  BY <1>1, MonitorTypes, ZenonT(30)
<1>6. foreign \cap (due \ failed) = {} /\ foreign \cap failed = {} /\ failed \subseteq Row
  BY <1>4, <1>5, ZenonT(30)
<1> HIDE DEF due
<1>7. /\ monitor' \in [pending : UpdateSet, rollback : SUBSET Row]
      /\ monitor'.rollback = failed /\ monitor'.pending.added = {}
  BY <1>1, <1>3, <1>6, MonitorTypes, ZenonT(30)
<1>8. PlanTypes' /\ Deletable'
  BY <1>1, <1>2, <1>6, <1>7, WaitingPlan, ZenonT(30)
<1>9. QED
  BY <1>1, <1>2, <1>3, <1>6, <1>7, <1>8, DeleteOwn, MonitorTypes, ZenonT(30)

\* What the monitor's second starts with: rows still due are deleted, and the
\* destinations to refresh are planned.
LEMMA TickOwn ==
    ASSUME OwnInv, TickRollsBack, UNCHANGED faults
    PROVE  OwnInv'
<1>1. ChannelOpen /\ step = "rollback"
  BY ZenonT(30) DEF TickRollsBack
<1>2. UNCHANGED <<phase, foreign, network, dns, setting, commands, updater, initial>>
  BY ZenonT(30) DEF TickRollsBack
<1> DEFINE due == monitor.rollback
<1>3. PICK failed \in FailedRollbacks(due) :
         /\ os' = os \ (due \ failed)
         /\ record' = [record EXCEPT !.owned = Without(due \ failed)]
         /\ monitor' = [monitor EXCEPT !.rollback = failed]
  BY ZenonT(30) DEF TickRollsBack
<1>4. failed \subseteq due
  BY ZenonT(30) DEF FailedRollbacks
<1>5. foreign \cap (due \ failed) = {} /\ foreign \cap failed = {} /\ failed \subseteq Row
  BY <1>1, <1>4, MonitorTypes, ZenonT(30)
<1>6. /\ monitor' \in [pending : UpdateSet, rollback : SUBSET Row]
      /\ monitor'.rollback = failed /\ monitor'.pending = monitor.pending
  BY <1>1, <1>3, <1>5, MonitorTypes, ZenonT(30)
<1>7. os' \subseteq Row
  BY <1>1, <1>3, MonitorTypes, ZenonT(30)
<1> HIDE DEF due
<1>0. /\ ~ record.removed /\ phase' \in Phases /\ commands' \in Seq(CommandSet) /\ updater' \in UpdaterSet
      /\ routes \in [rows : SUBSET Row, default : Physical \cup {Offline}]
      /\ phase' = phase /\ foreign' = foreign /\ ChannelOpen
      /\ foreign \cap monitor'.rollback = {} /\ foreign \cap monitor'.pending.added = {}
  BY <1>1, <1>2, <1>5, <1>6, MonitorTypes, ZenonT(30)
<1>8. CASE monitor.pending.open
  <2>1. step' = "wait" /\ UNCHANGED <<plan, routes>>
    BY <1>8, ZenonT(30) DEF TickRollsBack
  <2>2. PlanTypes' /\ Deletable'
    BY <1>0, <2>1, WaitingPlan, ZenonT(30)
  <2>3. QED
    BY <1>0, <1>2, <1>3, <1>5, <1>6, <2>1, <2>2, DeleteOwn, ZenonT(30)
<1>9. CASE ~ monitor.pending.open
  <2>1. step' = "create" /\ plan' = InOrder(Desired) /\ routes' = [rows |-> os', default |-> network.default]
    BY <1>9, ZenonT(30) DEF TickRollsBack, See
  <2>2. IsFiniteSet(Desired) /\ Desired \subseteq Dests
    BY WindowsRoutesAssumption, FS_Subset, ZenonT(30) DEF Desired
  <2>3. InOrder(Desired) \in Seq(Desired)
    BY <2>2, InOrderProperties, ZenonT(30)
  <2>4. plan' \in Seq(Dests)
    <3> DEFINE o == InOrder(Desired)
    <3>1. o \in Seq(Dests)
      <4>1. o \in Seq(Desired)
        BY <2>3
      <4> HIDE DEF o
      <4>2. QED
        BY <2>2, <4>1
    <3>2. QED
      BY <2>1, <3>1
  <2>5. routes' \in [rows : SUBSET Row, default : Physical \cup {Offline}]
    BY <1>1, <1>7, <2>1, MonitorTypes, ZenonT(30)
  <2>6. Deletable'
    BY <1>0, WaitingPlan, ZenonT(30)
  <2>7. PlanTypes'
    BY <1>1, <1>2, <2>1, <2>4, ZenonT(30) DEF PlanTypes, ChannelOpen
  <2>8. QED
    BY <1>0, <1>2, <1>3, <1>5, <1>6, <2>5, <2>6, <2>7, DeleteOwn, ZenonT(30)
<1>10. QED
  BY <1>8, <1>9, ZenonT(30)

\* A path the monitor finds is an interface.
LEMMA ViasRows ==
    ASSUME NEW d \in Dests, NEW seen \in [rows : SUBSET Row, default : Physical \cup {Offline}],
           NEW v \in Vias(d, seen)
    PROVE  [dest |-> d, via |-> v] \in Row
<1>1. v \in Physical \cup {"tun"}
  <2> DEFINE specific == {r \in seen.rows : r.dest = d /\ r \notin Range(record.owned)}
  <2>1. CASE specific # {}
    <3>1. PICK r \in seen.rows : v = r.via
      BY <2>1, ZenonT(30) DEF Vias
    <3>2. r \in Row
      BY ZenonT(30)
    <3>3. QED
      BY <3>1, <3>2, ZenonT(30) DEF Row
  <2>2. CASE specific = {}
    BY <2>2, ZenonT(30) DEF Vias
  <2>3. QED
    BY <2>1, <2>2, ZenonT(30)
<1>2. QED
  BY <1>1, ZenonT(30) DEF Row

\* A refresh that ends, or the monitor itself.
LEMMA EndsOwn ==
    ASSUME OwnInv, RefreshEnds \/ MonitorStops, UNCHANGED faults
    PROVE  OwnInv'
<1>1. ChannelOpen /\ UNCHANGED <<os, foreign, network, record, dns, setting, initial, monitor, updater>>
  BY ZenonT(30) DEF RefreshEnds, MonitorStops, Takes, Idle
<1>2. {} \subseteq Row /\ NoRoutes \in [rows : SUBSET Row, default : Physical \cup {Offline}] /\ <<>> \in Seq(CommandSet)
  BY DEF NoRoutes
<1>3. CASE RefreshEnds
  <2>1. step' = "wait" /\ routes' = NoRoutes /\ UNCHANGED <<phase, commands>>
    BY <1>3, ZenonT(30) DEF RefreshEnds, RefreshStops
  <2>2. PlanTypes' /\ Deletable'
    BY <1>1, <2>1, WaitingPlan, MonitorTypes, ZenonT(30)
  <2>3. QED
    BY <1>1, <1>2, <2>1, <2>2, RowsKept, MonitorTypes, ZenonT(30)
<1>4. CASE MonitorStops
  <2>1. phase' = "cleanup" /\ plan' = record.owned /\ commands' = <<>> /\ routes' = routes
    BY <1>4, ZenonT(30) DEF MonitorStops, StartCleanup
  <2>2. PlanTypes' /\ Deletable'
    BY <1>1, <2>1, MonitorTypes, ZenonT(30) DEF OwnInv, Ownership, Deletable, PlanTypes, Refreshing, ChannelOpen
  <2>3. QED
    BY <1>1, <1>2, <2>1, <2>2, RowsKept, MonitorTypes DEF Phases
<1>5. QED
  BY <1>3, <1>4, ZenonT(30)

\* The row wanted now is added, and owned if it is new.
LEMMA RefreshCreateOwn ==
    ASSUME OwnInv, RefreshCreate, UNCHANGED faults
    PROVE  OwnInv'
<1>1. ChannelOpen /\ step = "create" /\ plan # <<>> /\ plan \in Seq(Dests)
  BY ZenonT(30) DEF RefreshCreate, OwnInv, PlanTypes, Refreshing
<1>2. UNCHANGED <<phase, foreign, network, dns, setting, initial, monitor, commands, updater>>
  BY ZenonT(30) DEF RefreshCreate
<1> DEFINE d == Head(plan)
<1>3. d \in Dests /\ Tail(plan) \in Seq(Dests)
  BY <1>1, TailRows, ZenonT(30)
<1>4. Deletable'
  BY <1>1, <1>2, WaitingPlan, MonitorTypes, ZenonT(30)
<1>5. {} \subseteq Row /\ NoRoutes \in [rows : SUBSET Row, default : Physical \cup {Offline}]
  BY ZenonT(30) DEF NoRoutes
<1>6. CASE plan' = Tail(plan) /\ UNCHANGED <<step, os, record, routes>>
  <2>1. PlanTypes'
    BY <1>1, <1>2, <1>3, <1>6, ZenonT(30) DEF PlanTypes, ChannelOpen
  <2>2. QED
    BY <1>1, <1>2, <1>4, <1>6, <2>1, RowsKept, MonitorTypes, ZenonT(30)
<1>7. CASE RefreshStops /\ UNCHANGED <<os, record>>
  <2>1. step' = "wait" /\ routes' = NoRoutes
    BY <1>7, ZenonT(30) DEF RefreshStops
  <2>2. PlanTypes'
    BY <1>1, <1>2, <2>1, ZenonT(30) DEF PlanTypes, ChannelOpen, Refreshing
  <2>3. QED
    BY <1>1, <1>2, <1>4, <1>5, <1>7, <2>1, <2>2, RowsKept, MonitorTypes, ZenonT(30)
<1>8. ASSUME NEW v \in Vias(d, routes),
             LET new == [dest |-> d, via |-> v]
                 created == new \notin routes.rows /\ new \notin os
             IN  /\ os' = IF new \in routes.rows THEN os ELSE os \cup {new}
                 /\ record' = [record EXCEPT
                       !.desired[d] = new,
                       !.owned = IF created /\ new \notin Range(@) THEN Append(@, new) ELSE @]
                 /\ step' = "retire" /\ UNCHANGED <<plan, routes>>
      PROVE  OwnInv'
  <2> DEFINE new == [dest |-> d, via |-> v]
             created == new \notin routes.rows /\ new \notin os
             q == IF created /\ new \notin Range(record.owned) THEN Append(record.owned, new) ELSE record.owned
             w == [record.desired EXCEPT ![d] = new]
  <2>1. new \in Row
    BY <1>1, <1>3, ViasRows, MonitorTypes, ZenonT(30)
  <2>2. /\ os' = IF new \in routes.rows THEN os ELSE os \cup {new}
        /\ record' = [record EXCEPT !.desired = w, !.owned = q]
        /\ step' = "retire" /\ UNCHANGED <<plan, routes>>
    BY <1>8, ZenonT(30)
  <2>3. /\ record.owned \in Seq(Row) /\ IsInjective(record.owned)
        /\ os = foreign \cup Range(record.owned) /\ foreign \cap Range(record.owned) = {}
    BY <1>1, MonitorTypes, ZenonT(30) DEF OwnInv, Ownership
  <2>4. new \in Range(record.owned) => new \in os
    BY <2>3, ZenonT(30)
  <2> HIDE DEF new
  <2>5. q \in Seq(Row) /\ IsInjective(q) /\ os' = foreign \cup Range(q) /\ foreign \cap Range(q) = {}
    <3>1. CASE created
      <4>1. q = Append(record.owned, new) /\ new \notin os /\ os' = os \cup {new}
        BY <2>2, <2>4, <3>1, ZenonT(30)
      <4>2. Range(q) = Range(record.owned) \cup {new} /\ q \in Seq(Row) /\ IsInjective(q)
        BY <2>1, <2>3, <4>1, AppendRow
      <4>3. QED
        BY <2>3, <4>1, <4>2, ZenonT(30)
    <3>2. CASE ~ created
      <4>1. q = record.owned /\ os' = os
        BY <2>2, <3>2, ZenonT(30)
      <4>2. QED
        BY <2>3, <4>1, ZenonT(30)
    <3>3. QED
      BY <3>1, <3>2, ZenonT(30)
  <2>6. w \in [Dests -> Row \cup {NoRow}]
    BY <1>1, <1>3, <2>1, MonitorTypes, ZenonT(30)
  <2>7. record' = [record EXCEPT !.owned = q, !.desired = w]
    BY <1>1, <2>2, MonitorTypes, ZenonT(30) DEF RecordSet
  <2> HIDE DEF q, w
  <2>8. /\ record' \in RecordSet /\ record'.owned = q
        /\ record'.dnsChanged = record.dnsChanged /\ record'.before = record.before
        /\ record'.changed = record.changed /\ record'.removed = record.removed
    BY <1>1, <2>5, <2>6, <2>7, RecordOwned, MonitorTypes, ZenonT(30)
  <2>9. PlanTypes'
    BY <1>1, <1>2, <2>2, ZenonT(30) DEF PlanTypes, ChannelOpen
  <2>10. /\ ~ record.removed /\ phase' \in Phases /\ commands' \in Seq(CommandSet) /\ updater' \in UpdaterSet
         /\ routes' \in [rows : SUBSET Row, default : Physical \cup {Offline}]
         /\ monitor' \in [pending : UpdateSet, rollback : SUBSET Row]
    BY <1>1, <1>2, <2>2, MonitorTypes, ZenonT(30)
  <2>11. QED
    BY <1>2, <1>4, <2>2, <2>5, <2>8, <2>9, <2>10, RowSteps, ZenonT(30)
<1>9. QED
  BY <1>6, <1>7, <1>8, ZenonT(30) DEF RefreshCreate

\* The owned rows that are replaced are deleted.
LEMMA RefreshRetireOwn ==
    ASSUME OwnInv, RefreshRetire, UNCHANGED faults
    PROVE  OwnInv'
<1>1. ChannelOpen /\ step = "retire" /\ plan # <<>> /\ plan \in Seq(Dests)
  BY ZenonT(30) DEF RefreshRetire, OwnInv, PlanTypes, Refreshing
<1>2. UNCHANGED <<phase, foreign, network, dns, setting, initial, monitor, commands, updater>>
  BY ZenonT(30) DEF RefreshRetire
<1>3. Tail(plan) \in Seq(Dests)
  BY <1>1, TailRows, ZenonT(30)
<1>4. Deletable'
  BY <1>1, <1>2, WaitingPlan, MonitorTypes, ZenonT(30)
<1>5. {} \subseteq Row /\ NoRoutes \in [rows : SUBSET Row, default : Physical \cup {Offline}]
  BY ZenonT(30) DEF NoRoutes
<1> DEFINE old == {r \in Range(record.owned) : r.dest = Head(plan) /\ r # record.desired[Head(plan)]}
<1>6. \A gone \in SUBSET old : foreign \cap gone = {}
  BY ZenonT(30) DEF OwnInv, Ownership
<1>7. PICK gone \in SUBSET old :
        /\ os' = os \ gone /\ record' = [record EXCEPT !.owned = Without(gone)]
        /\ \/ step' = "create" /\ plan' = Tail(plan) /\ UNCHANGED routes
           \/ RefreshStops
  BY ZenonT(30) DEF RefreshRetire
<1> HIDE DEF old
<1>8. PlanTypes' /\ routes' \in [rows : SUBSET Row, default : Physical \cup {Offline}]
  BY <1>1, <1>2, <1>3, <1>5, <1>7, MonitorTypes, ZenonT(30) DEF PlanTypes, ChannelOpen, Refreshing, RefreshStops
<1>9. QED
  BY <1>1, <1>2, <1>4, <1>6, <1>7, <1>8, DeleteOwn, MonitorTypes, ZenonT(30)

\* A row the session owns is deleted, or stays owned.
LEMMA CleanupRowOwn ==
    ASSUME OwnInv, CleanupRow, UNCHANGED faults
    PROVE  OwnInv'
<1>1. /\ phase = "cleanup" /\ plan # <<>> /\ plan \in Seq(Row) /\ foreign \cap Range(plan) = {} /\ ~ record.removed
      /\ UNCHANGED <<phase, step, foreign, network, routes, dns, setting, initial, monitor, commands, updater>>
      /\ plan' = Front(plan)
  BY ZenonT(30) DEF CleanupRow, OwnInv, PlanTypes, Deletable, Reported, Front
<1>2. Last(plan) \in Range(plan) /\ Front(plan) \in Seq(Row) /\ Range(Front(plan)) \subseteq Range(plan)
  BY <1>1, FrontRows, ZenonT(30)
<1>3. PlanTypes' /\ Deletable'
  BY <1>1, <1>2, ZenonT(30) DEF OwnInv, PlanTypes, Deletable, Refreshing, ChannelOpen
<1>4. foreign \cap {Last(plan)} = {}
  BY <1>1, <1>2, ZenonT(30)
<1>5. CASE UNCHANGED <<os, record>>
  BY <1>1, <1>3, <1>5, RowsKept, ZenonT(30) DEF OwnInv, WindowsTypes
<1>6. CASE os' = os \ {Last(plan)} /\ record' = [record EXCEPT !.owned = Without({Last(plan)})]
  BY <1>1, <1>3, <1>4, <1>6, DeleteOwn, ZenonT(30) DEF OwnInv, WindowsTypes
<1>7. QED
  BY <1>5, <1>6, ZenonT(30) DEF CleanupRow, Last

\* What one reply may be.
LEMMA ReplyTypes ==
    ASSUME updater \in UpdaterSet, NEW n, NEW reply \in {"ok", "error"}, ReplyTo(n, reply)
    PROVE  updater' \in UpdaterSet
BY ZenonT(30) DEF ReplyTo, UpdaterSet

\* The rows an update asks for, where a path was found for each.
LEMMA MadeRows ==
    ASSUME NEW dests \in SUBSET Dests, NEW via \in [dests -> Physical \cup {Offline}], NEW done \in SUBSET dests,
           (\E d \in dests : via[d] = Offline) => done = {}
    PROVE  LET made == {[dest |-> d, via |-> via[d]] : d \in done}
           IN  made \subseteq Row /\ IsFiniteSet(made) /\ \A d \in done : \E r \in made : r.dest = d
<1> DEFINE made == {[dest |-> d, via |-> via[d]] : d \in done}
           f == [d \in done |-> [dest |-> d, via |-> via[d]]]
<1>1. IsFiniteSet(done)
  BY WindowsRoutesAssumption, FS_Subset, ZenonT(30)
<1>2. \A d \in done : via[d] \in Physical
  BY ZenonT(30)
<1>3. made \subseteq Row
  BY <1>2 DEF Row
<1>4. f \in Surjection(done, made)
  BY ZenonT(30) DEF Surjection
<1>5. IsFiniteSet(made)
  <2> HIDE DEF f, made
  <2>1. QED
    BY <1>1, <1>4, FS_Surjection, ZenonT(30)
<1>6. \A d \in done : [dest |-> d, via |-> via[d]] \in made
  BY ZenonT(30)
<1>7. QED
  BY <1>3, <1>5, <1>6, ZenonT(30)

\* The rows of an update are added: what was not there is owned, and provisional.
LEMMA PrepareOwn ==
    ASSUME OwnInv, Prepare, UNCHANGED faults
    PROVE  OwnInv'
<1>1. ChannelOpen /\ step = "wait" /\ commands # <<>> /\ commands' = Tail(commands)
  BY ZenonT(30) DEF Prepare, Takes, Idle
<1>2. UNCHANGED <<phase, step, foreign, network, plan, routes, dns, setting, initial>>
  BY ZenonT(30) DEF Prepare
<1>3. PICK failed \in FailedRollbacks(monitor.rollback) :
          LET undone == monitor.rollback \ failed
              kept == Without(undone)
              rows == os \ undone
              dests == Head(commands).dests
          IN  IF failed # {}
              THEN /\ os' = rows
                   /\ record' = [record EXCEPT !.owned = kept]
                   /\ monitor' = [monitor EXCEPT !.rollback = failed]
                   /\ ReplyTo(Head(commands).number, "error")
              ELSE \E via \in [dests -> Physical \cup {Offline}], done \in SUBSET dests :
                   /\ \A d \in dests :
                         IF Vias(d, See(rows)) = {} THEN via[d] = Offline ELSE via[d] \in Vias(d, See(rows))
                   /\ done # dests => \/ Fails("create")
                                      \/ done = {} /\ \E d \in dests : via[d] = Offline
                   /\ (\E d \in dests : via[d] = Offline) => done = {}
                   /\ LET made == {[dest |-> d, via |-> via[d]] : d \in done}
                          new == made \ rows
                      IN  /\ os' = rows \cup made
                          /\ record' = [record EXCEPT !.owned =
                                kept \o InOrder(new \ Range(kept))]
                          /\ monitor' = [pending |-> [open |-> TRUE,
                                             added |-> new \ Range(kept), desired |-> made],
                                         rollback |-> {}]
                   /\ ReplyTo(Head(commands).number, IF done = dests THEN "ok" ELSE "error")
  BY ZenonT(30) DEF Prepare
<1> DEFINE dests == Head(commands).dests
           undone == monitor.rollback \ failed
           kept == Without(undone)
           rows == os \ undone
<1>4. failed \subseteq monitor.rollback
  BY ZenonT(30) DEF FailedRollbacks
<1>5. foreign \cap undone = {} /\ foreign \cap failed = {} /\ failed \subseteq Row
  BY <1>1, <1>4, MonitorTypes, ZenonT(30)
<1>6. /\ kept \in Seq(Row) /\ IsInjective(kept) /\ rows = foreign \cup Range(kept)
      /\ foreign \cap Range(kept) = {}
  BY <1>5, WithoutOwned
<1>7. CASE failed # {}
  <2>1. /\ os' = os \ undone /\ record' = [record EXCEPT !.owned = Without(undone)]
        /\ monitor' = [monitor EXCEPT !.rollback = failed] /\ ReplyTo(Head(commands).number, "error")
    BY <1>3, <1>7, ZenonT(30)
  <2>2. /\ monitor' \in [pending : UpdateSet, rollback : SUBSET Row]
        /\ monitor'.rollback = failed /\ monitor'.pending = monitor.pending
    BY <1>1, <1>5, <2>1, MonitorTypes
  <2>3. updater' \in UpdaterSet
    BY <1>1, <2>1, ReplyTypes, MonitorTypes, ZenonT(30)
  <2>4. PlanTypes' /\ Deletable'
    BY <1>1, <1>2, <1>5, <2>2, WaitingPlan, MonitorTypes, ZenonT(30)
  <2> HIDE DEF undone
  <2>5. QED
    BY <1>1, <1>2, <1>5, <2>1, <2>2, <2>3, <2>4, DeleteOwn, MonitorTypes, ZenonT(30)
<1>8. CASE failed = {}
  <2>1. PICK via \in [dests -> Physical \cup {Offline}], done \in SUBSET dests :
          /\ (\E d \in dests : via[d] = Offline) => done = {}
          /\ LET made == {[dest |-> d, via |-> via[d]] : d \in done}
                 new == made \ rows
             IN  /\ os' = rows \cup made
                 /\ record' = [record EXCEPT !.owned = kept \o InOrder(new \ Range(kept))]
                 /\ monitor' = [pending |-> [open |-> TRUE, added |-> new \ Range(kept), desired |-> made],
                                rollback |-> {}]
          /\ ReplyTo(Head(commands).number, IF done = dests THEN "ok" ELSE "error")
    BY <1>3, <1>8, ZenonT(30)
  <2> DEFINE made == {[dest |-> d, via |-> via[d]] : d \in done}
             added == (made \ rows) \ Range(kept)
  <2>2. dests \in SUBSET Dests
    BY <1>1, MonitorTypes, ZenonT(30) DEF CommandSet
  <2>3. made \subseteq Row /\ IsFiniteSet(made)
    <3> HIDE DEF dests
    <3>1. QED
      BY <2>1, <2>2, MadeRows, ZenonT(30)
  <2>4. /\ os' = rows \cup made
        /\ record' = [record EXCEPT !.owned = kept \o InOrder(added)]
        /\ monitor' = [pending |-> [open |-> TRUE, added |-> added, desired |-> made], rollback |-> {}]
    BY <2>1, ZenonT(30)
  <2>5. updater' \in UpdaterSet
    BY <1>1, <2>1, ReplyTypes, MonitorTypes, ZenonT(30)
  <2> HIDE DEF made, kept, rows, undone, dests
  <2>6. /\ added \subseteq Row /\ IsFiniteSet(added) /\ foreign \cap added = {} /\ Range(kept) \cap added = {}
        /\ os' = foreign \cup (Range(kept) \cup added)
    BY <1>6, <2>3, <2>4, FS_Subset, ZenonT(30)
  <2> HIDE DEF added
  <2> DEFINE more == InOrder(added)
  <2>7. more \in Seq(added) /\ Range(more) = added /\ IsInjective(more)
    BY <2>6, InOrderProperties, ZenonT(30)
  <2> HIDE DEF more
  <2>8. more \in Seq(Row)
    BY <2>6, <2>7
  <2> DEFINE q == kept \o more
  <2>9. q \in Seq(Row) /\ Range(q) = Range(kept) \cup added /\ IsInjective(q)
    BY <1>6, <2>6, <2>7, <2>8, ConcatRows
  <2>10. record' = [record EXCEPT !.owned = q]
    BY <2>4, ZenonT(30) DEF more
  <2> HIDE DEF q
  <2>11. /\ record' \in RecordSet /\ record'.owned = q
         /\ record'.dnsChanged = record.dnsChanged /\ record'.before = record.before
         /\ record'.changed = record.changed /\ record'.removed = record.removed
    BY <1>1, <2>9, <2>10, RecordOwned, MonitorTypes, ZenonT(30)
  <2>12. os' = foreign \cup Range(q) /\ foreign \cap Range(q) = {}
    BY <1>6, <2>6, <2>9, ZenonT(30)
  <2>13. /\ monitor' \in [pending : UpdateSet, rollback : SUBSET Row]
         /\ monitor'.rollback = {} /\ monitor'.pending.added = added
    BY <2>3, <2>4, <2>6, ZenonT(30) DEF UpdateSet
  <2>14. PlanTypes' /\ Deletable'
    BY <1>1, <1>2, <2>6, <2>13, WaitingPlan, MonitorTypes
  <2>15. QED
    BY <1>1, <1>2, <2>5, <2>9, <2>11, <2>12, <2>13, <2>14, RowSteps, MonitorTypes, ZenonT(30)
<1>9. QED
  BY <1>7, <1>8, ZenonT(30)

\* Every step keeps what the session owns and remembers in order.
LEMMA OwnKept == OwnInv /\ [Next]_vars => OwnInv'
<1> SUFFICES ASSUME OwnInv, [Next]_vars
             PROVE  OwnInv'
  BY ZenonT(30)
<1>1. CASE Next
  <2>1. Step /\ UNCHANGED faults
    BY <1>1, ZenonT(30) DEF Next
  <2>2. CASE NetworkChanges \/ SettingChanges
    BY <2>1, <2>2, OutsideOwn, ZenonT(30)
  <2>3. CASE MakePlan
    BY <2>1, <2>3, MakePlanOwn, ZenonT(30)
  <2>4. CASE PlanFails
    BY <2>1, <2>4, PlanFailsOwn, ZenonT(30)
  <2>5. CASE InstallSettings \/ Tick
    BY <2>1, <2>5, SettingsOwn, ZenonT(30)
  <2>6. CASE InstallRow
    BY <2>1, <2>6, InstallRowOwn, ZenonT(30)
  <2>7. CASE InstallDns \/ CleanupDns
    BY <2>1, <2>7, DnsOwn, ZenonT(30)
  <2>8. CASE UpdaterStep \/ SkipPrepare \/ Stop
    BY <2>1, <2>8, UpdaterOwn, ZenonT(30)
  <2>9. CASE Prepare
    BY <2>1, <2>9, PrepareOwn, ZenonT(30)
  <2>10. CASE Commit
    BY <2>1, <2>10, CommitOwn, ZenonT(30)
  <2>11. CASE Rollback
    BY <2>1, <2>11, RollbackOwn, ZenonT(30)
  <2>12. CASE TickRollsBack
    BY <2>1, <2>12, TickOwn, ZenonT(30)
  <2>13. CASE RefreshCreate
    BY <2>1, <2>13, RefreshCreateOwn, ZenonT(30)
  <2>14. CASE RefreshRetire
    BY <2>1, <2>14, RefreshRetireOwn, ZenonT(30)
  <2>15. CASE RefreshEnds \/ MonitorStops
    BY <2>1, <2>15, EndsOwn, ZenonT(30)
  <2>16. CASE CleanupRow
    BY <2>1, <2>16, CleanupRowOwn, ZenonT(30)
  <2>17. CASE CleanupLinks
    BY <2>1, <2>17, LinksOwn, ZenonT(30)
  <2>18. QED
    BY <2>1, <2>2, <2>3, <2>4, <2>5, <2>6, <2>7, <2>8, <2>9, <2>10, <2>11, <2>12, <2>13, <2>14,
       <2>15, <2>16, <2>17, ZenonT(30) DEF Step, InstallStep, MonitorStep, CleanupStep
<1>2. CASE UNCHANGED vars
  BY <1>2 DEF vars, OwnInv, WindowsTypes, PlanTypes, Ownership, Deletable, SettingsKept, Reported,
     Refreshing, ChannelOpen
<1>3. QED
  BY <1>1, <1>2, ZenonT(30)

\* Whatever fails and however updates, refreshes and teardown interleave, the
\* system's rows are those it held before and those the session owns, once each.
THEOREM RowsOwned == Spec => []Ownership
<1>1. OwnInv => Ownership
  BY ZenonT(30) DEF OwnInv
<1>2. QED
  BY <1>1, OwnStarts, OwnKept, PTL DEF Spec

\* A teardown that reports success has restored the rows, the DNS and the
\* forwarding settings.
THEOREM TeardownRestores == Spec => []Restored
<1>1. OwnInv => Restored
  <2> SUFFICES ASSUME OwnInv, record.removed
               PROVE  /\ os = foreign /\ dns = "before"
                      /\ \A l \in Links : /\ setting[l] => initial[l]
                                          /\ initial[l] => setting[l] \/ l \in network.turned
    BY ZenonT(30) DEF Restored
  <2>1. record.owned = <<>> /\ dns = "before" /\ record.changed = {} /\ os = foreign \cup Range(record.owned)
    BY ZenonT(30) DEF OwnInv, Reported, Ownership
  <2>2. Range(<<>>) = {}
    BY DEF Range
  <2>3. QED
    BY <2>1, <2>2, ZenonT(30) DEF OwnInv, SettingsKept
<1>2. QED
  BY <1>1, OwnStarts, OwnKept, PTL DEF Spec

-----------------------------------------------------------------------------
(* The loop barrier, where deletions succeed.                              *)

\* Nothing is wanted and nothing captured at the start.
LEMMA BarrierStarts == Init => Barrier
<1> SUFFICES ASSUME Init
             PROVE  Barrier
  BY ZenonT(30)
<1>1. phase = "install" /\ step = "plan" /\ plan = <<>> /\ IsInjective(<<>>)
  BY DEF Init, IsInjective
<1>2. monitor = [pending |-> NoUpdate, rollback |-> {}] /\ ~ NoUpdate.open
  BY ZenonT(30) DEF Init, NoUpdate
<1>3. Capture \notin os
  BY WindowsRoutesAssumption, ZenonT(30) DEF Init, Capture
<1>4. Desired = {}
  BY ZenonT(30) DEF Init, Desired
<1>5. QED
  BY <1>1, <1>2, <1>3, <1>4, ZenonT(30) DEF Barrier, ChannelOpen, Refreshing

\* A step that changes neither rows nor what is wanted or planned.
LEMMA BarrierSame ==
    ASSUME Barrier, UNCHANGED <<step, plan, os, routes, monitor>>, record'.desired = record.desired,
           phase' = phase \/ (phase = "running" /\ phase' = "stopping")
    PROVE  Barrier'
<1>1. Desired' = Desired /\ \A d : (Wanted(d)' <=> Wanted(d)) /\ (Planned(d)' <=> Planned(d))
  BY ZenonT(30) DEF Desired, Wanted, Planned
<1>2. /\ phase' = "install" => phase = "install"
      /\ ChannelOpen' <=> ChannelOpen
      /\ Refreshing' <=> Refreshing
  BY ZenonT(30) DEF ChannelOpen, Refreshing
<1>3. QED
  BY <1>1, <1>2, ZenonT(30) DEF Barrier

\* Teardown has no barrier to keep.
LEMMA BarrierEnds ==
    ASSUME Barrier, monitor' = monitor, phase' \in {"cleanup", "done"}
    PROVE  Barrier'
BY ZenonT(30) DEF Barrier, ChannelOpen, Refreshing

\* Every step of the monitor between two refreshes: what is wanted stays, and
\* what is pending is there.
LEMMA BarrierWaits ==
    ASSUME Barrier, ChannelOpen, phase' = phase, step' \notin {"create", "retire"},
           monitor'.rollback = {}, ~ monitor'.pending.open => monitor'.pending = NoUpdate,
           monitor'.pending.desired \subseteq os',
           \A d \in Desired' : Wanted(d)' /\ record'.desired[d] \notin monitor'.pending.added
    PROVE  Barrier'
BY ZenonT(30) DEF Barrier, ChannelOpen, Refreshing

\* The installation: the capture row comes last.
LEMMA MakePlanBarrier ==
    ASSUME OwnInv, Barrier, MakePlan
    PROVE  Barrier'
<1>1. PICK order \in Orders(Initial), via \in [Initial -> Physical] :
         LET row == [d \in Initial |-> [dest |-> d, via |-> via[d]]]
         IN  /\ plan' = [i \in 1 .. Len(order) |-> row[order[i]]] \o <<Capture>>
             /\ record' = [record EXCEPT !.desired = [d \in Dests |-> IF d \in Initial THEN row[d] ELSE NoRow]]
  BY ZenonT(30) DEF MakePlan
<1>2. phase = "install" /\ step = "plan" /\ step' = "settings" /\ UNCHANGED <<phase, os, monitor, routes>>
  BY ZenonT(30) DEF MakePlan
<1> DEFINE row == [d \in Initial |-> [dest |-> d, via |-> via[d]]]
           first == [i \in 1 .. Len(order) |-> row[order[i]]]
           w == [d \in Dests |-> IF d \in Initial THEN row[d] ELSE NoRow]
           n == Cardinality(Initial)
<1>3. Initial \subseteq Dests /\ "capture" \notin Dests /\ IsFiniteSet(Initial)
  BY WindowsRoutesAssumption, FS_Subset, ZenonT(30)
<1>4. n \in Nat /\ IsFiniteSet(1 .. n) /\ Cardinality(1 .. n) = n
  BY <1>3, FS_CardinalityType, FS_Interval
<1>5. order \in [1 .. n -> Initial] /\ IsInjective(order) /\ Len(order) = n
  BY <1>4 DEF Orders, Bijection, Injection, IsInjective
<1>6. \A d \in Initial : \E i \in 1 .. n : order[i] = d
  <2>1. order \in Injection(1 .. n, Initial)
    BY <1>5, ZenonT(30) DEF Injection
  <2> HIDE DEF n
  <2>2. order \in Surjection(1 .. n, Initial)
    BY <1>3, <1>4, <2>1, FS_Injection, ZenonT(30) DEF n
  <2>3. QED
    BY <2>2, ZenonT(30) DEF Surjection
<1>7. \A d \in Initial : row[d] \in Row /\ row[d].dest = d /\ row[d] # Capture
  BY <1>3, ZenonT(30) DEF Row, Capture
<1>8. \A d, e \in Initial : row[d] = row[e] => d = e
  BY <1>7, ZenonT(30)
<1>9. first \in [1 .. n -> Row] /\ \A i \in 1 .. n : first[i] = row[order[i]] /\ order[i] \in Initial
  <2> HIDE DEF row
  <2>1. QED
    BY <1>5, <1>7, ZenonT(30)
<1>10. w \in [Dests -> Row \cup {NoRow}] /\ \A d \in Dests : w[d] = IF d \in Initial THEN row[d] ELSE NoRow
  BY <1>7, ZenonT(30)
<1>11. record' = [record EXCEPT !.desired = w] /\ plan' = first \o <<Capture>>
  BY <1>1, ZenonT(30)
<1> HIDE DEF row, first, w, n
<1>12. first \in Seq(Row) /\ DOMAIN first = 1 .. n
  BY <1>4, <1>9
<1>13. IsInjective(first) /\ Capture \notin Range(first)
  BY <1>5, <1>7, <1>8, <1>9, <1>12 DEF IsInjective, Range
<1>14. \A d \in Initial : row[d] \in Range(first)
  BY <1>6, <1>9, <1>12 DEF Range
<1>15. /\ Capture \in Row /\ <<Capture>> \in Seq(Row) /\ IsInjective(<<Capture>>) /\ Range(<<Capture>>) = {Capture}
       /\ Len(<<Capture>>) = 1 /\ <<Capture>>[1] = Capture
  BY DEF Capture, Row, IsInjective, Range
<1> DEFINE q == first \o <<Capture>>
<1>16. q \in Seq(Row) /\ Range(q) = Range(first) \cup {Capture} /\ IsInjective(q)
  <2> DEFINE s == <<Capture>>
  <2>1. s \in Seq(Row) /\ IsInjective(s) /\ Range(s) = {Capture} /\ Range(first) \cap Range(s) = {}
    BY <1>13, <1>15, ZenonT(30)
  <2> HIDE DEF s
  <2>2. first \o s \in Seq(Row) /\ Range(first \o s) = Range(first) \cup Range(s) /\ IsInjective(first \o s)
    BY <1>12, <1>13, <2>1, ConcatRows, ZenonT(30)
  <2>3. QED
    BY <2>1, <2>2, ZenonT(30) DEF s
<1>17. q # <<>> /\ Last(q) = Capture
  <2>1. /\ Len(q) = Len(first) + 1 /\ Len(first) \in Nat
        /\ \A i \in 1 .. Len(first) + 1 : q[i] = IF i <= Len(first) THEN first[i] ELSE <<Capture>>[i - Len(first)]
    BY <1>12, <1>15, SeqJoined
  <2> HIDE DEF q
  <2>2. q[Len(first) + 1] = Capture
    BY <1>15, <2>1
  <2>3. QED
    BY <1>16, <2>1, <2>2, SeqEmpty DEF Last
<1>18. record'.desired = w
  BY <1>10, <1>11, RecordOwned, ZenonT(30) DEF OwnInv, WindowsTypes, RecordSet
<1>19. plan' = q
  BY <1>11, ZenonT(30)
<1> HIDE DEF q
<1>20. \A d \in Desired' : Planned(d)'
  BY <1>7, <1>10, <1>14, <1>16, <1>18, <1>19 DEF Desired, Planned
<1>21. QED
  BY <1>2, <1>16, <1>17, <1>19, <1>20, ZenonT(30) DEF Barrier, ChannelOpen, Refreshing

\* The settings step keeps the plan as it is.
LEMMA SettingsBarrier ==
    ASSUME OwnInv, Barrier, InstallSettings \/ Tick
    PROVE  Barrier'
<1>1. /\ ReconcilesAll \/ ReconcileFails
      /\ UNCHANGED <<os, foreign, network, routes, dns, initial, monitor, commands, updater>>
  BY ZenonT(30) DEF InstallSettings, Tick
<1>2. record'.desired = record.desired
  BY <1>1, ReconcileKeeps, ZenonT(30)
<1>3. Desired' = Desired /\ \A d : Wanted(d)' <=> Wanted(d)
  BY <1>1, <1>2, ZenonT(30) DEF Desired, Wanted
<1>4. CASE phase = "install" /\ step = "settings" /\ phase' = phase /\ step' = "rows" /\ plan' = plan
  <2>1. \A d : Planned(d)' <=> Planned(d)
    BY <1>2, <1>4, ZenonT(30) DEF Planned
  <2>2. QED
    BY <1>1, <1>3, <1>4, <2>1 DEF Barrier, ChannelOpen, Refreshing
<1>5. CASE phase' = "cleanup"
  BY <1>1, <1>5, BarrierEnds, ZenonT(30)
<1>6. CASE ChannelOpen /\ phase' = phase /\ step' = "rollback"
  <2>0. /\ monitor.rollback = {} /\ (~ monitor.pending.open => monitor.pending = NoUpdate)
        /\ \A d \in Desired : Wanted(d) /\ record.desired[d] \notin monitor.pending.added
        /\ monitor.pending.desired \subseteq os
    BY <1>6, ZenonT(30) DEF Barrier
  <2>1. \A d \in Desired' : Wanted(d)' /\ record'.desired[d] \notin monitor'.pending.added
    BY <1>1, <1>2, <1>3, <2>0, ZenonT(30)
  <2>2. step' \notin {"create", "retire"}
    BY <1>6
  <2>3. QED
    BY <1>1, <1>6, <2>0, <2>1, <2>2, BarrierWaits, ZenonT(30)
<1>7. QED
  BY <1>4, <1>5, <1>6, ZenonT(30) DEF InstallSettings, Tick, StartCleanup, Idle

\* A row of the plan is in the system once it is no longer planned.
LEMMA InstallRowBarrier ==
    ASSUME OwnInv, Barrier, InstallRow
    PROVE  Barrier'
<1>1. phase = "install" /\ step = "rows" /\ plan # <<>> /\ UNCHANGED <<routes, monitor>>
  BY ZenonT(30) DEF InstallRow
<1>2. plan \in Seq(Row) /\ record \in RecordSet /\ record.owned \in Seq(Row)
  BY <1>1, ZenonT(30) DEF OwnInv, WindowsTypes, PlanTypes, RecordSet
<1>3. /\ Tail(plan) \in Seq(Row) /\ Range(plan) = Range(Tail(plan)) \cup {Head(plan)}
      /\ Tail(plan) # <<>> => Last(Tail(plan)) = Last(plan)
      /\ IsInjective(plan) => IsInjective(Tail(plan)) /\ Head(plan) \notin Range(Tail(plan))
  BY <1>1, <1>2, TailRows, ZenonT(30)
<1>4. /\ IsInjective(plan) /\ Last(plan) = Capture /\ Capture \notin os
      /\ \A d \in Desired : Wanted(d) \/ Planned(d)
  BY <1>1, ZenonT(30) DEF Barrier
<1>5. CASE phase' = "cleanup"
  BY <1>1, <1>5, BarrierEnds, ZenonT(30)
<1>6. CASE /\ os' = os \cup {Head(plan)} /\ plan' = Tail(plan) /\ UNCHANGED <<phase, step>>
           /\ record' = IF Head(plan) \in os THEN record
                        ELSE [record EXCEPT !.owned = Append(@, Head(plan))]
  <2>1. record'.desired = record.desired
    BY <1>2, <1>6, ZenonT(30) DEF RecordSet
  <2>2. Desired' = Desired
    BY <2>1, ZenonT(30) DEF Desired
  <2>3. \A d \in Desired' : Wanted(d)' \/ Planned(d)'
    BY <1>3, <1>4, <1>6, <2>1, <2>2 DEF Wanted, Planned
  <2>4. plan' # <<>> => Last(plan') = Capture /\ Capture \in Range(plan')
    BY <1>3, <1>4, <1>6, FrontRows, ZenonT(30)
  <2>5. plan' # <<>> => Capture \notin os'
    BY <1>3, <1>4, <1>6, <2>4, ZenonT(30)
  <2>6. QED
    BY <1>1, <1>3, <1>4, <1>6, <2>3, <2>4, <2>5 DEF Barrier, ChannelOpen, Refreshing
<1>7. QED
  BY <1>5, <1>6, ZenonT(30) DEF InstallRow, StartCleanup

\* When the session runs, everything that was planned is there.
LEMMA InstallDnsBarrier ==
    ASSUME OwnInv, Barrier, InstallDns
    PROVE  Barrier'
<1>1. phase = "install" /\ plan = <<>> /\ UNCHANGED <<os, monitor, routes>>
  BY ZenonT(30) DEF InstallDns
<1>2. record' = [record EXCEPT !.dnsChanged = TRUE]
  BY ZenonT(30) DEF InstallDns
<1>3. record'.desired = record.desired
  BY <1>2, ZenonT(30) DEF OwnInv, WindowsTypes, RecordSet
<1>4. Range(<<>>) = {}
  BY DEF Range
<1>5. \A d \in Desired' : Wanted(d)'
  BY <1>1, <1>3, <1>4, ZenonT(30) DEF Barrier, Desired, Wanted, Planned
<1>6. monitor.pending = NoUpdate /\ NoUpdate.added = {} /\ NoUpdate.desired = {} /\ ~ NoUpdate.open
  BY <1>1, ZenonT(30) DEF Barrier, NoUpdate
<1>7. CASE phase' = "running" /\ step' = "wait"
  BY <1>1, <1>5, <1>6, <1>7, ZenonT(30) DEF Barrier, ChannelOpen, Refreshing
<1>8. CASE phase' = "cleanup"
  BY <1>1, <1>8, BarrierEnds, ZenonT(30)
<1>9. QED
  BY <1>7, <1>8, ZenonT(30) DEF InstallDns, StartCleanup

\* Where deletions succeed a rollback leaves nothing.
LEMMA NothingFails ==
    ASSUME "delete" \notin faults, NEW rows, NEW failed \in FailedRollbacks(rows)
    PROVE  failed = {}
BY ZenonT(30) DEF FailedRollbacks, Fails

\* The rows of an update are added to what there is.
LEMMA PrepareBarrier ==
    ASSUME OwnInv, Barrier, "delete" \notin faults, Prepare
    PROVE  Barrier'
<1>1. ChannelOpen /\ step = "wait" /\ UNCHANGED <<phase, step>>
  BY ZenonT(30) DEF Prepare, Takes, Idle
<1>2. monitor.rollback = {}
  BY ZenonT(30) DEF Barrier
<1>3. PICK failed \in FailedRollbacks(monitor.rollback) :
          LET undone == monitor.rollback \ failed
              kept == Without(undone)
              rows == os \ undone
              dests == Head(commands).dests
          IN  IF failed # {}
              THEN /\ os' = rows
                   /\ record' = [record EXCEPT !.owned = kept]
                   /\ monitor' = [monitor EXCEPT !.rollback = failed]
                   /\ ReplyTo(Head(commands).number, "error")
              ELSE \E via \in [dests -> Physical \cup {Offline}], done \in SUBSET dests :
                   /\ \A d \in dests :
                         IF Vias(d, See(rows)) = {} THEN via[d] = Offline ELSE via[d] \in Vias(d, See(rows))
                   /\ done # dests => \/ Fails("create")
                                      \/ done = {} /\ \E d \in dests : via[d] = Offline
                   /\ (\E d \in dests : via[d] = Offline) => done = {}
                   /\ LET made == {[dest |-> d, via |-> via[d]] : d \in done}
                          new == made \ rows
                      IN  /\ os' = rows \cup made
                          /\ record' = [record EXCEPT !.owned =
                                kept \o InOrder(new \ Range(kept))]
                          /\ monitor' = [pending |-> [open |-> TRUE,
                                             added |-> new \ Range(kept), desired |-> made],
                                         rollback |-> {}]
                   /\ ReplyTo(Head(commands).number, IF done = dests THEN "ok" ELSE "error")
  BY ZenonT(30) DEF Prepare
<1>4. failed = {}
  BY NothingFails, ZenonT(30)
<1> DEFINE undone == monitor.rollback \ failed
           kept == Without(undone)
           rows == os \ undone
           dests == Head(commands).dests
<1>5. PICK via \in [dests -> Physical \cup {Offline}], done \in SUBSET dests :
        LET made == {[dest |-> d, via |-> via[d]] : d \in done}
            new == made \ rows
        IN  /\ os' = rows \cup made
            /\ record' = [record EXCEPT !.owned = kept \o InOrder(new \ Range(kept))]
            /\ monitor' = [pending |-> [open |-> TRUE, added |-> new \ Range(kept), desired |-> made],
                           rollback |-> {}]
  BY <1>3, <1>4, ZenonT(30)
<1> DEFINE made == {[dest |-> d, via |-> via[d]] : d \in done}
           added == (made \ rows) \ Range(kept)
           q == kept \o InOrder(added)
<1>6. /\ os' = rows \cup made /\ record' = [record EXCEPT !.owned = q]
      /\ monitor' = [pending |-> [open |-> TRUE, added |-> added, desired |-> made], rollback |-> {}]
  BY <1>5, ZenonT(30)
<1>7. rows = os
  BY <1>2, ZenonT(30)
<1> HIDE DEF made, kept, q
<1>8. record'.desired = record.desired
  BY <1>6, ZenonT(30) DEF OwnInv, WindowsTypes, RecordSet
<1>9. added \cap os = {}
  BY <1>7, ZenonT(30)
<1> HIDE DEF added, rows, undone, dests
<1>10. /\ monitor'.pending.open /\ monitor'.pending.added = added /\ monitor'.pending.desired = made
       /\ monitor'.rollback = {}
  BY <1>6, ZenonT(30)
<1>11. \A d \in Desired' : Wanted(d)' /\ record'.desired[d] \notin monitor'.pending.added
  <2>1. ASSUME NEW d \in Dests, record.desired[d] # NoRow
        PROVE  record.desired[d] \in os /\ record.desired[d].dest = d
    BY <1>1, <2>1, ZenonT(30) DEF Barrier, Desired, Wanted
  <2>2. ASSUME NEW d \in Desired' PROVE d \in Dests /\ record'.desired[d] = record.desired[d] /\ record.desired[d] # NoRow
    BY <1>8, <2>2, ZenonT(30) DEF Desired
  <2>3. os \subseteq os'
    BY <1>6, <1>7, ZenonT(30)
  <2>4. QED
    BY <1>9, <1>10, <2>1, <2>2, <2>3, ZenonT(30) DEF Wanted
<1>12. QED
  BY <1>1, <1>6, <1>10, <1>11, BarrierWaits

\* What an update wanted is there when it is committed.
LEMMA CommitBarrier ==
    ASSUME OwnInv, Barrier, Commit
    PROVE  Barrier'
<1>1. /\ ChannelOpen /\ step = "wait" /\ UNCHANGED <<phase, step, os>>
      /\ monitor' = [monitor EXCEPT !.pending = NoUpdate]
  BY ZenonT(30) DEF Commit, Takes, Idle
<1> DEFINE rows(d) == {r \in monitor.pending.desired : r.dest = d}
           w == [d \in Dests |-> IF rows(d) = {} THEN record.desired[d] ELSE CHOOSE r \in rows(d) : TRUE]
<1>2. record' = [record EXCEPT !.desired = w]
  BY ZenonT(30) DEF Commit
<1>3. \A d \in Dests : IF rows(d) = {} THEN w[d] = record.desired[d] ELSE w[d] \in rows(d)
  BY ZenonT(30)
<1>4. \A d \in Dests : rows(d) \subseteq os /\ \A r \in rows(d) : r.dest = d
  BY <1>1, ZenonT(30) DEF Barrier
<1> HIDE DEF rows, w
<1>5. record'.desired = w
  BY <1>2, ZenonT(30) DEF OwnInv, WindowsTypes, RecordSet
<1>6. /\ monitor'.pending = NoUpdate /\ monitor'.rollback = {}
      /\ NoUpdate.added = {} /\ NoUpdate.desired = {} /\ ~ NoUpdate.open
  BY <1>1, MonitorTypes, ZenonT(30) DEF Barrier
<1>7. \A d \in Desired' : Wanted(d)'
  <2> SUFFICES ASSUME NEW d \in Dests, w[d] # NoRow
               PROVE  w[d] \in os /\ w[d].dest = d
    BY <1>1, <1>5, ZenonT(30) DEF Desired, Wanted
  <2>1. CASE rows(d) = {}
    BY <1>1, <1>3, <2>1, ZenonT(30) DEF Barrier, Desired, Wanted
  <2>2. CASE rows(d) # {}
    BY <1>3, <1>4, <2>2, ZenonT(30)
  <2>3. QED
    BY <2>1, <2>2, ZenonT(30)
<1>8. QED
  BY <1>1, <1>6, <1>7, BarrierWaits

\* A rollback takes back no row that is wanted.
LEMMA RollbackBarrier ==
    ASSUME OwnInv, Barrier, "delete" \notin faults, Rollback
    PROVE  Barrier'
<1>1. ChannelOpen /\ step = "wait" /\ UNCHANGED <<phase, step>> /\ monitor.rollback = {}
  BY ZenonT(30) DEF Rollback, Takes, Idle, Barrier
<1> DEFINE due == monitor.rollback \cup monitor.pending.added
<1>2. PICK failed \in FailedRollbacks(due) :
         /\ os' = os \ (due \ failed)
         /\ record' = [record EXCEPT !.owned = Without(due \ failed)]
         /\ monitor' = [pending |-> NoUpdate, rollback |-> failed]
  BY ZenonT(30) DEF Rollback
<1>3. failed = {}
  BY NothingFails, ZenonT(30)
<1>4. record'.desired = record.desired
  BY <1>2, ZenonT(30) DEF OwnInv, WindowsTypes, RecordSet
<1>5. os' = os \ monitor.pending.added
  BY <1>1, <1>2, <1>3, ZenonT(30)
<1>6. /\ monitor'.pending = NoUpdate /\ monitor'.rollback = {}
      /\ NoUpdate.added = {} /\ NoUpdate.desired = {} /\ ~ NoUpdate.open
  <2>1. NoUpdate.added = {} /\ NoUpdate.desired = {} /\ ~ NoUpdate.open
    BY <1>1, MonitorTypes, ZenonT(30)
  <2>2. QED
    BY <1>2, <1>3, <2>1, ZenonT(30)
<1>7. \A d \in Desired' : Wanted(d)'
  BY <1>1, <1>4, <1>5 DEF Barrier, Desired, Wanted
<1>8. QED
  BY <1>1, <1>6, <1>7, BarrierWaits, ZenonT(30)

\* A refresh starts from the rows as they are.
LEMMA TickBarrier ==
    ASSUME OwnInv, Barrier, "delete" \notin faults, TickRollsBack
    PROVE  Barrier'
<1>1. ChannelOpen /\ UNCHANGED phase /\ monitor.rollback = {}
  BY ZenonT(30) DEF TickRollsBack, Barrier
<1>2. PICK failed \in FailedRollbacks(monitor.rollback) :
         /\ os' = os \ (monitor.rollback \ failed)
         /\ record' = [record EXCEPT !.owned = Without(monitor.rollback \ failed)]
         /\ monitor' = [monitor EXCEPT !.rollback = failed]
  BY ZenonT(30) DEF TickRollsBack
<1>3. failed = {}
  BY NothingFails, ZenonT(30)
<1>4. record'.desired = record.desired /\ os' = os
  BY <1>1, <1>2, ZenonT(30) DEF OwnInv, WindowsTypes, RecordSet
<1>5. monitor'.pending = monitor.pending /\ monitor'.rollback = {}
  BY <1>1, <1>2, <1>3, MonitorTypes
<1>6. /\ \A d \in Desired' : Wanted(d)' /\ record'.desired[d] \notin monitor'.pending.added
      /\ monitor'.pending.desired \subseteq os'
      /\ ~ monitor'.pending.open => monitor'.pending = NoUpdate
  BY <1>1, <1>4, <1>5, ZenonT(30) DEF Barrier, Desired, Wanted
<1>7. CASE monitor.pending.open
  <2>1. step' = "wait"
    BY <1>7, ZenonT(30) DEF TickRollsBack
  <2>2. QED
    BY <1>1, <1>5, <1>6, <2>1, BarrierWaits
<1>8. CASE ~ monitor.pending.open
  <2>1. plan' = InOrder(Desired) /\ routes' = [rows |-> os', default |-> network.default]
    BY <1>8, ZenonT(30) DEF TickRollsBack, See
  <2>2. IsFiniteSet(Desired)
    BY WindowsRoutesAssumption, FS_Subset, ZenonT(30) DEF Desired
  <2>3. IsInjective(plan') /\ routes'.rows = os'
    BY <2>1, <2>2, InOrderProperties, ZenonT(30)
  <2>4. QED
    BY <1>1, <1>5, <1>6, <1>8, <2>3 DEF Barrier, ChannelOpen
<1>9. QED
  BY <1>7, <1>8, ZenonT(30)

\* The row wanted now is there before it is wanted.
LEMMA RefreshCreateBarrier ==
    ASSUME OwnInv, Barrier, RefreshCreate
    PROVE  Barrier'
<1>1. ChannelOpen /\ step = "create" /\ plan # <<>> /\ plan \in Seq(Dests) /\ UNCHANGED <<phase, monitor>>
  BY ZenonT(30) DEF RefreshCreate, OwnInv, PlanTypes, Refreshing
<1>2. Refreshing /\ phase \in {"running", "stopping"}
  BY <1>1 DEF Refreshing, ChannelOpen
<1>3. /\ monitor.rollback = {} /\ ~ monitor.pending.open /\ monitor.pending = NoUpdate /\ IsInjective(plan)
      /\ \A r \in routes.rows : r.dest \in Range(plan) => r \in os
      /\ \A d \in Desired : Wanted(d)
      /\ NoUpdate.added = {} /\ NoUpdate.desired = {}
  BY <1>1, <1>2, ZenonT(30) DEF Barrier, NoUpdate
<1> DEFINE d == Head(plan)
<1>4. /\ d \in Dests /\ d \in Range(plan) /\ Range(Tail(plan)) \subseteq Range(plan) /\ IsInjective(Tail(plan))
  <2>1. plan \in Seq(Dests) /\ plan # <<>> /\ IsInjective(plan)
    BY <1>1, <1>3, ZenonT(30)
  <2>2. QED
    BY <2>1, TailRows
<1>5. CASE plan' = Tail(plan) /\ UNCHANGED <<step, os, record, routes>>
  <2>1. \A e \in Desired' : Wanted(e)'
    BY <1>3, <1>5, ZenonT(30) DEF Desired, Wanted
  <2>2. QED
    BY <1>1, <1>2, <1>3, <1>4, <1>5, <2>1 DEF Barrier
<1>6. CASE RefreshStops /\ UNCHANGED <<os, record>>
  <2>1. \A e \in Desired' : Wanted(e)' /\ record'.desired[e] \notin monitor'.pending.added
    BY <1>1, <1>3, <1>6, ZenonT(30) DEF Desired, Wanted
  <2>2. QED
    BY <1>1, <1>3, <1>6, <2>1, BarrierWaits DEF RefreshStops
<1>7. ASSUME NEW v \in Vias(d, routes),
             LET new == [dest |-> d, via |-> v]
                 created == new \notin routes.rows /\ new \notin os
             IN  /\ os' = IF new \in routes.rows THEN os ELSE os \cup {new}
                 /\ record' = [record EXCEPT
                       !.desired[d] = new,
                       !.owned = IF created /\ new \notin Range(@) THEN Append(@, new) ELSE @]
                 /\ step' = "retire" /\ UNCHANGED <<plan, routes>>
      PROVE  Barrier'
  <2> DEFINE new == [dest |-> d, via |-> v]
             created == new \notin routes.rows /\ new \notin os
             q == IF created /\ new \notin Range(record.owned) THEN Append(record.owned, new) ELSE record.owned
             w == [record.desired EXCEPT ![d] = new]
  <2>1. /\ os' = IF new \in routes.rows THEN os ELSE os \cup {new}
        /\ record' = [record EXCEPT !.desired = w, !.owned = q]
        /\ step' = "retire" /\ UNCHANGED <<plan, routes>>
    BY <1>7, ZenonT(30)
  <2>2. new.dest = d
    BY ZenonT(30)
  <2> HIDE DEF new
  <2>3. new \in os' /\ os \subseteq os'
    BY <1>3, <1>4, <2>1, <2>2
  <2>4. w[d] = new /\ \A e \in Dests : e # d => w[e] = record.desired[e]
    BY <1>1, <1>4, MonitorTypes, ZenonT(30)
  <2> HIDE DEF q, w
  <2>5. record'.desired = w
    BY <2>1, ZenonT(30) DEF OwnInv, WindowsTypes, RecordSet
  <2> HIDE DEF d
  <2>6. \A e \in Desired' : Wanted(e)'
    <3>1. ASSUME NEW e \in Desired' PROVE w[e] \in os' /\ w[e].dest = e
      <4>1. e \in Dests /\ w[e] # NoRow
        BY <2>5, <3>1 DEF Desired
      <4>2. CASE e = d
        BY <2>2, <2>3, <2>4, <4>2, ZenonT(30)
      <4>3. CASE e # d
        <5>1. w[e] = record.desired[e] /\ e \in Desired
          BY <2>4, <4>1, <4>3, ZenonT(30) DEF Desired
        <5>2. record.desired[e] \in os /\ record.desired[e].dest = e
          BY <1>3, <5>1, ZenonT(30) DEF Wanted
        <5>3. QED
          BY <2>3, <5>1, <5>2, ZenonT(30)
      <4>4. QED
        BY <4>2, <4>3, ZenonT(30)
    <3>2. QED
      BY <2>5, <3>1, ZenonT(30) DEF Wanted
  <2>7. QED
    BY <1>1, <1>2, <1>3, <2>1, <2>3, <2>6, ZenonT(30) DEF Barrier, ChannelOpen
<1>8. QED
  BY <1>5, <1>6, <1>7, ZenonT(30) DEF RefreshCreate

\* Only rows that were replaced are retired.
LEMMA RefreshRetireBarrier ==
    ASSUME OwnInv, Barrier, "delete" \notin faults, RefreshRetire
    PROVE  Barrier'
<1>1. ChannelOpen /\ step = "retire" /\ plan # <<>> /\ plan \in Seq(Dests) /\ UNCHANGED <<phase, monitor>>
  BY ZenonT(30) DEF RefreshRetire, OwnInv, PlanTypes, Refreshing
<1>2. Refreshing /\ phase \in {"running", "stopping"}
  BY <1>1, ZenonT(30) DEF Refreshing, ChannelOpen
<1>3. /\ monitor.rollback = {} /\ ~ monitor.pending.open /\ monitor.pending = NoUpdate /\ IsInjective(plan)
      /\ \A r \in routes.rows : r.dest \in Range(plan) => r \in os
      /\ \A d \in Desired : Wanted(d)
      /\ NoUpdate.added = {} /\ NoUpdate.desired = {}
  BY <1>1, <1>2, ZenonT(30) DEF Barrier, NoUpdate
<1>4. /\ Range(Tail(plan)) \subseteq Range(plan) /\ IsInjective(Tail(plan)) /\ Head(plan) \notin Range(Tail(plan))
  <2>1. plan \in Seq(Dests) /\ plan # <<>> /\ IsInjective(plan)
    BY <1>1, <1>3, ZenonT(30)
  <2>2. QED
    BY <2>1, TailRows
<1> DEFINE old == {r \in Range(record.owned) : r.dest = Head(plan) /\ r # record.desired[Head(plan)]}
<1>5. /\ os' = os \ old /\ record' = [record EXCEPT !.owned = Without(old)]
      /\ step' = "create" /\ plan' = Tail(plan) /\ UNCHANGED routes
  BY ZenonT(30) DEF RefreshRetire, Fails
<1>6. \A r \in old : r.dest = Head(plan) /\ r # record.desired[Head(plan)]
  BY ZenonT(30)
<1> HIDE DEF old
<1>7. record'.desired = record.desired
  BY <1>5, ZenonT(30) DEF OwnInv, WindowsTypes, RecordSet
<1>8. \A d \in Desired' : Wanted(d)'
  BY <1>3, <1>5, <1>6, <1>7 DEF Desired, Wanted
<1>9. \A r \in routes'.rows : r.dest \in Range(plan') => r \in os'
  BY <1>3, <1>4, <1>5, <1>6, ZenonT(30)
<1>10. QED
  BY <1>1, <1>2, <1>3, <1>4, <1>5, <1>8, <1>9, ZenonT(30) DEF Barrier, ChannelOpen

\* A refresh that ends leaves what is wanted.
LEMMA RefreshEndsBarrier ==
    ASSUME Barrier, RefreshEnds
    PROVE  Barrier'
<1>1. ChannelOpen /\ step' = "wait" /\ UNCHANGED <<phase, os, record, monitor>>
  BY ZenonT(30) DEF RefreshEnds, RefreshStops
<1>2. \A d \in Desired' : Wanted(d)' /\ record'.desired[d] \notin monitor'.pending.added
  BY <1>1, ZenonT(30) DEF Barrier, Desired, Wanted
<1>3. QED
  BY <1>1, <1>2, BarrierWaits, ZenonT(30) DEF Barrier

\* Every step keeps the barrier, where deletions succeed.
LEMMA BarrierKept == OwnInv /\ Barrier /\ "delete" \notin faults /\ [Next]_vars => Barrier'
<1> SUFFICES ASSUME OwnInv, Barrier, "delete" \notin faults, [Next]_vars
             PROVE  Barrier'
  BY ZenonT(30)
<1>1. CASE NetworkChanges \/ SettingChanges \/ UpdaterStep \/ SkipPrepare \/ Stop
  <2>1. /\ UNCHANGED <<step, plan, os, routes, monitor, record>>
        /\ phase' = phase \/ (phase = "running" /\ phase' = "stopping")
    BY <1>1, ZenonT(30) DEF NetworkChanges, SettingChanges, UpdaterStep, Request, DropGuard, CommitGuard, SkipPrepare, Stop
  <2>2. QED
    BY <2>1, BarrierSame, ZenonT(30)
<1>2. CASE PlanFails \/ MonitorStops \/ CleanupStep
  <2>1. monitor' = monitor /\ phase' \in {"cleanup", "done"}
    BY <1>2, ZenonT(30) DEF PlanFails, MonitorStops, StartCleanup, CleanupStep, CleanupRow, CleanupDns, CleanupLinks
  <2>2. QED
    BY <2>1, BarrierEnds, ZenonT(30)
<1>3. CASE MakePlan
  BY <1>3, MakePlanBarrier
<1>4. CASE InstallSettings \/ Tick
  BY <1>4, SettingsBarrier
<1>5. CASE InstallRow
  BY <1>5, InstallRowBarrier, ZenonT(30)
<1>6. CASE InstallDns
  BY <1>6, InstallDnsBarrier, ZenonT(30)
<1>7. CASE Prepare
  BY <1>7, PrepareBarrier, ZenonT(30)
<1>8. CASE Commit
  BY <1>8, CommitBarrier, ZenonT(30)
<1>9. CASE Rollback
  BY <1>9, RollbackBarrier, ZenonT(30)
<1>10. CASE TickRollsBack
  BY <1>10, TickBarrier, ZenonT(30)
<1>11. CASE RefreshCreate
  BY <1>11, RefreshCreateBarrier, ZenonT(30)
<1>12. CASE RefreshRetire
  BY <1>12, RefreshRetireBarrier, ZenonT(30)
<1>13. CASE RefreshEnds
  BY <1>13, RefreshEndsBarrier, ZenonT(30)
<1>14. CASE UNCHANGED vars
  <2>1. UNCHANGED <<phase, step, plan, os, routes, monitor, record>>
    BY <1>14, ZenonT(30) DEF vars
  <2>2. QED
    BY <2>1, BarrierSame, ZenonT(30)
<1>15. QED
  BY <1>1, <1>2, <1>3, <1>4, <1>5, <1>6, <1>7, <1>8, <1>9, <1>10, <1>11, <1>12, <1>13, <1>14, ZenonT(30)
     DEF Next, Step, InstallStep, MonitorStep

\* The inductive invariant of the session holds throughout, in every
\* environment.
THEOREM WindowsInvariant == Spec => []WindowsInv
<1>1. Init => WindowsInv
  BY OwnStarts, BarrierStarts, ZenonT(30) DEF WindowsInv
<1>2. [Next]_vars => UNCHANGED faults
  BY ZenonT(30) DEF Next, vars
<1>3. WindowsInv /\ [Next]_vars => WindowsInv'
  BY <1>2, OwnKept, BarrierKept, ZenonT(30) DEF WindowsInv
<1>4. QED
  BY <1>1, <1>3, PTL DEF Spec

\* From the moment the capture route is installed until the monitor has stopped,
\* every bypassed destination has a row of its own, where deletions succeed.
THEOREM BarrierHolds == Spec => []LoopBarrier
<1>1. WindowsInv => LoopBarrier
  <2> SUFFICES ASSUME WindowsInv, "delete" \notin faults, phase \in {"install", "running", "stopping"},
                      Capture \in os, NEW d \in Desired
               PROVE  \E r \in os : r.dest = d
    BY ZenonT(30) DEF LoopBarrier
  <2>1. Barrier
    BY ZenonT(30) DEF WindowsInv
  <2>2. Range(<<>>) = {}
    BY DEF Range
  <2>3. Wanted(d)
    BY <2>1, <2>2, ZenonT(30) DEF Barrier, ChannelOpen, Planned
  <2>4. QED
    BY <2>3, ZenonT(30) DEF Wanted
<1>2. QED
  BY <1>1, WindowsInvariant, PTL
=============================================================================
