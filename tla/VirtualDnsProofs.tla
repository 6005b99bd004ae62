-------------------------- MODULE VirtualDnsProofs --------------------------
(***************************************************************************)
(* Proofs about VirtualDns for every pool, every set of names, every       *)
(* journal and every set of faults: the two maps stay inverse to each      *)
(* other, a load replays exactly the live lines of the journal, a name in  *)
(* use keeps its address, a journal believed up to date holds what the     *)
(* memory holds, and allocator and journal implement the abstract          *)
(* StableMap.                                                              *)
(***************************************************************************)
EXTENDS VirtualDns, TLAPS

-----------------------------------------------------------------------------
(* A sequence is a function on the places up to its length.                *)
LEMMA SeqLength ==
    ASSUME NEW S, NEW q \in Seq(S)
    PROVE  Len(q) \in Nat /\ q \in [1 .. Len(q) -> S] /\ DOMAIN q = 1 .. Len(q)
OBVIOUS

(* What a sequence holds.                                                  *)
LEMMA SeqElement ==
    ASSUME NEW S, NEW q \in Seq(S), NEW i \in 1 .. Len(q)
    PROVE  q[i] \in S
OBVIOUS

(* The empty sequence, and the others.                                     *)
LEMMA SeqEmpty ==
    ASSUME NEW S
    PROVE  <<>> \in Seq(S) /\ Len(<<>>) = 0 /\ \A q \in Seq(S) : q # <<>> => Len(q) \in Nat \ {0}
OBVIOUS

(* A sequence over a set is one over a larger set.                         *)
LEMMA SeqWider ==
    ASSUME NEW S, NEW T, S \subseteq T, NEW q \in Seq(S)
    PROVE  q \in Seq(T)
OBVIOUS

(* A sequence followed by another one.                                     *)
LEMMA SeqJoined ==
    ASSUME NEW S, NEW q \in Seq(S), NEW r \in Seq(S)
    PROVE  /\ q \o r \in Seq(S) /\ Len(q \o r) = Len(q) + Len(r)
           /\ \A i \in 1 .. Len(q) + Len(r) : (q \o r)[i] = IF i <= Len(q) THEN q[i] ELSE r[i - Len(q)]
OBVIOUS

(* Part of a sequence.                                                     *)
LEMMA SeqPart ==
    ASSUME NEW S, NEW q, NEW m \in Int, NEW n \in Int, \A i \in m .. n : q[i] \in S
    PROVE  /\ SubSeq(q, m, n) \in Seq(S)
           /\ Len(SubSeq(q, m, n)) = IF m <= n THEN n - m + 1 ELSE 0
           /\ \A i \in 1 .. n - m + 1 : SubSeq(q, m, n)[i] = q[m + i - 1]
OBVIOUS

(* A sequence without its first element.                                   *)
LEMMA SeqTail ==
    ASSUME NEW S, NEW q \in Seq(S), q # <<>>
    PROVE  /\ Head(q) \in S /\ Tail(q) \in Seq(S) /\ Len(Tail(q)) = Len(q) - 1
           /\ \A i \in 1 .. Len(Tail(q)) : Tail(q)[i] = q[i + 1]
OBVIOUS

(* A sequence with an element appended.                                    *)
LEMMA SeqAppended ==
    ASSUME NEW S, NEW q \in Seq(S), NEW x \in S
    PROVE  /\ Append(q, x) \in Seq(S) /\ Append(q, x) # <<>> /\ Len(Append(q, x)) = Len(q) + 1
           /\ \A i \in 1 .. Len(q) : Append(q, x)[i] = q[i]
           /\ Append(q, x)[Len(q) + 1] = x
OBVIOUS

-----------------------------------------------------------------------------
(* Sequences without duplicate addresses.                                  *)

\* No address occurs twice.
Distinct(s) == \A i, j \in DOMAIN s : s[i].ip = s[j].ip => i = j

\* TakenOut closes the gap the removed element leaves.
LEMMA TakenOutElements ==
    ASSUME NEW S, NEW s \in Seq(S), NEW i \in DOMAIN s
    PROVE  /\ TakenOut(s, i) \in Seq(S)
           /\ Len(TakenOut(s, i)) = Len(s) - 1
           /\ \A j \in 1 .. Len(s) - 1 :
                 TakenOut(s, i)[j] = IF j < i THEN s[j] ELSE s[j + 1]
<1>0. /\ Len(s) \in Nat
      /\ DOMAIN s = 1 .. Len(s)
      /\ i \in 1 .. Len(s)
  BY SeqLength, ZenonT(30)
<1> DEFINE a == SubSeq(s, 1, i - 1)
           b == SubSeq(s, i + 1, Len(s))
<1>1. a \in Seq(S) /\ Len(a) = i - 1 /\ \A j \in 1 .. i - 1 : a[j] = s[j]
  BY <1>0, SeqPart
<1>2. b \in Seq(S) /\ Len(b) = Len(s) - i /\ \A j \in 1 .. Len(s) - i : b[j] = s[j + i]
  BY <1>0, SeqPart
<1>3. TakenOut(s, i) = a \o b
  BY ZenonT(30) DEF TakenOut
<1> HIDE DEF a, b
<1>3a. /\ a \o b \in Seq(S)
       /\ Len(a \o b) = Len(a) + Len(b)
  BY <1>1, <1>2, SeqJoined, Zenon
<1>4. /\ a \o b \in Seq(S)
      /\ Len(a \o b) = Len(s) - 1
  BY <1>0, <1>1, <1>2, <1>3a
<1>5. ASSUME NEW j \in 1 .. Len(s) - 1
      PROVE  (a \o b)[j] = IF j < i THEN s[j] ELSE s[j + 1]
  <2>1. (a \o b)[j] = IF j <= Len(a) THEN a[j] ELSE b[j - Len(a)]
    BY <1>0, <1>1, <1>2, SeqJoined
  <2>2. CASE j < i
    BY <2>1, <2>2, <1>0, <1>1
  <2>3. CASE ~(j < i)
    <3>1. j - Len(a) \in 1 .. Len(s) - i /\ (j - Len(a)) + i = j + 1
      BY <2>3, <1>0, <1>1
    <3>2. b[j - Len(a)] = s[j + 1]
      BY <3>1, <1>2, ZenonT(30)
    <3>3. QED
      BY <3>2, <2>1, <2>3, <1>0, <1>1
  <2>4. QED
    BY <2>2, <2>3, ZenonT(30)
<1>6. QED
  BY <1>3, <1>4, <1>5, ZenonT(30)

\* The members of a sequence are its elements.
LEMMA ToSetMember ==
    ASSUME NEW S, NEW s \in Seq(S)
    PROVE  /\ Range(s) \subseteq S
           /\ \A i \in DOMAIN s : s[i] \in Range(s)
           /\ \A e \in Range(s) : \E i \in DOMAIN s : s[i] = e
BY SeqElement, SeqLength, ZenonT(30) DEF Range

\* Removing the entry at i keeps addresses distinct and removes exactly it.
LEMMA TakenOutDistinct ==
    ASSUME NEW S, NEW s \in Seq(S), Distinct(s), NEW i \in DOMAIN s
    PROVE  /\ TakenOut(s, i) \in Seq(S)
           /\ Distinct(TakenOut(s, i))
           /\ Range(TakenOut(s, i)) = {e \in Range(s) : e.ip # s[i].ip}
<1> DEFINE r == TakenOut(s, i)
<1>0. Len(s) \in Nat /\ DOMAIN s = 1 .. Len(s)
  BY SeqLength, ZenonT(30)
<1>1. /\ r \in Seq(S)
      /\ Len(r) = Len(s) - 1
      /\ \A j \in 1 .. Len(s) - 1 : r[j] = IF j < i THEN s[j] ELSE s[j + 1]
  BY TakenOutElements, Zenon
<1> HIDE DEF r
<1>2. DOMAIN r = 1 .. Len(s) - 1
  BY <1>1, SeqLength, ZenonT(30)
<1>3. Distinct(r)
  <2> SUFFICES ASSUME NEW j \in DOMAIN r, NEW k \in DOMAIN r, r[j].ip = r[k].ip
               PROVE  j = k
    BY ZenonT(30) DEF Distinct
  <2>1. \A a, b \in DOMAIN s : s[a].ip = s[b].ip => a = b
    BY ZenonT(30) DEF Distinct
  <2> DEFINE p(m) == IF m < i THEN m ELSE m + 1
  <2>2. p(j) \in DOMAIN s /\ p(k) \in DOMAIN s
    BY <1>0, <1>2
  <2>3. r[j] = s[p(j)] /\ r[k] = s[p(k)]
    BY <1>0, <1>1, <1>2, ZenonT(30)
  <2>4. p(j) = p(k)
    BY <2>1, <2>2, <2>3, ZenonT(30)
  <2>5. QED
    BY <2>4, <1>0, <1>2
<1>4. Range(r) \subseteq {e \in Range(s) : e.ip # s[i].ip}
  <2> SUFFICES ASSUME NEW j \in DOMAIN r
               PROVE  r[j] \in Range(s) /\ r[j].ip # s[i].ip
    BY ZenonT(30) DEF Range
  <2>1. PICK k \in DOMAIN s : r[j] = s[k] /\ k # i
    BY <1>0, <1>1, <1>2
  <2>2. QED
    BY <2>1, ZenonT(30) DEF Distinct, Range
<1>5. {e \in Range(s) : e.ip # s[i].ip} \subseteq Range(r)
  <2> SUFFICES ASSUME NEW k \in DOMAIN s, s[k].ip # s[i].ip
               PROVE  s[k] \in Range(r)
    BY ZenonT(30) DEF Range
  <2>1. k # i
    BY ZenonT(30)
  <2>2. PICK j \in DOMAIN r : r[j] = s[k]
    <3>1. CASE k < i
      BY <3>1, <1>0, <1>1, <1>2
    <3>2. CASE k > i
      <4>1. k - 1 \in DOMAIN r /\ r[k - 1] = s[k]
        BY <3>2, <1>0, <1>1, <1>2
      <4>2. QED
        BY <4>1, ZenonT(30)
    <3>3. QED
      BY <3>1, <3>2, <2>1, <1>0
  <2>3. QED
    BY <2>2, ZenonT(30) DEF Range
<1>6. QED
  BY <1>1, <1>3, <1>4, <1>5, ZenonT(30) DEF r

\* Appending adds exactly the new element, and keeps addresses distinct when
\* its address is new.
LEMMA AppendDistinct ==
    ASSUME NEW S, NEW s \in Seq(S), NEW e \in S
    PROVE  /\ Append(s, e) \in Seq(S)
           /\ Len(Append(s, e)) = Len(s) + 1
           /\ Range(Append(s, e)) = Range(s) \cup {e}
           /\ Distinct(s) /\ (\A f \in Range(s) : f.ip # e.ip) => Distinct(Append(s, e))
<1> DEFINE r == Append(s, e)
<1>0. Len(s) \in Nat /\ DOMAIN s = 1 .. Len(s)
  BY SeqLength, ZenonT(30)
<1>1. /\ r \in Seq(S)
      /\ Len(r) = Len(s) + 1
      /\ \A j \in 1 .. Len(s) : r[j] = s[j]
      /\ r[Len(s) + 1] = e
  BY SeqAppended
<1> HIDE DEF r
<1>2. DOMAIN r = 1 .. Len(s) + 1
  BY <1>1, SeqLength, ZenonT(30)
<1>3. Range(r) = Range(s) \cup {e}
  <2>1. ASSUME NEW x \in Range(r) PROVE x \in Range(s) \cup {e}
    <3>1. PICK j \in DOMAIN r : r[j] = x
      BY ZenonT(30) DEF Range
    <3>2. QED
      BY <3>1, <1>0, <1>1, <1>2 DEF Range
  <2>2. ASSUME NEW x \in Range(s) PROVE x \in Range(r)
    <3>1. PICK j \in DOMAIN s : s[j] = x
      BY ZenonT(30) DEF Range
    <3>2. QED
      BY <3>1, <1>0, <1>1, <1>2 DEF Range
  <2>3. e \in Range(r)
    BY <1>0, <1>1, <1>2 DEF Range
  <2>4. QED
    BY <2>1, <2>2, <2>3, ZenonT(30)
<1>4. ASSUME Distinct(s), \A f \in Range(s) : f.ip # e.ip
      PROVE  Distinct(r)
  <2> SUFFICES ASSUME NEW j \in DOMAIN r, NEW k \in DOMAIN r, r[j].ip = r[k].ip
               PROVE  j = k
    BY ZenonT(30) DEF Distinct
  <2>1. \A a \in DOMAIN s : s[a].ip # e.ip
    BY <1>4, ZenonT(30) DEF Range
  <2>2. QED
    BY <2>1, <1>0, <1>1, <1>2, <1>4 DEF Distinct
<1>5. QED
  BY <1>1, <1>3, <1>4, ZenonT(30) DEF r

\* Evict removes exactly the entries of the address.
LEMMA EvictDistinct ==
    ASSUME NEW S, NEW s \in Seq(S), Distinct(s), NEW ip
    PROVE  /\ Evict(s, ip) \in Seq(S)
           /\ Distinct(Evict(s, ip))
           /\ Range(Evict(s, ip)) = {e \in Range(s) : e.ip # ip}
<1>1. CASE \E i \in DOMAIN s : s[i].ip = ip
  <2> DEFINE k == CHOOSE i \in DOMAIN s : s[i].ip = ip
  <2>1. k \in DOMAIN s /\ s[k].ip = ip
    BY <1>1, ZenonT(30)
  <2>2. Evict(s, ip) = TakenOut(s, k)
    BY <1>1, ZenonT(30) DEF Evict
  <2> HIDE DEF k
  <2>3. QED
    BY <2>1, <2>2, TakenOutDistinct
<1>2. CASE ~ \E i \in DOMAIN s : s[i].ip = ip
  <2>1. Evict(s, ip) = s
    BY <1>2, ZenonT(30) DEF Evict
  <2>2. \A e \in Range(s) : e.ip # ip
    BY <1>2, ZenonT(30) DEF Range
  <2>3. QED
    BY <2>1, <2>2, ZenonT(30)
<1>3. QED
  BY <1>1, <1>2, ZenonT(30)

\* Touch reorders and nothing else.
LEMMA TouchDistinct ==
    ASSUME NEW S, NEW s \in Seq(S), Distinct(s), NEW ip
    PROVE  /\ Touch(s, ip) \in Seq(S)
           /\ Distinct(Touch(s, ip))
           /\ Range(Touch(s, ip)) = Range(s)
<1>1. CASE \E i \in DOMAIN s : s[i].ip = ip
  <2> DEFINE k == CHOOSE i \in DOMAIN s : s[i].ip = ip
             r == TakenOut(s, k)
  <2>1. k \in DOMAIN s /\ s[k].ip = ip
    BY <1>1, ZenonT(30)
  <2>2. Touch(s, ip) = Append(r, s[k])
    BY <1>1, ZenonT(30) DEF Touch
  <2> HIDE DEF k
  <2>3. /\ r \in Seq(S)
        /\ Distinct(r)
        /\ Range(r) = {e \in Range(s) : e.ip # s[k].ip}
    BY <2>1, TakenOutDistinct
  <2> HIDE DEF r
  <2>4. s[k] \in S /\ s[k] \in Range(s)
    BY <2>1, ToSetMember, ZenonT(30)
  <2>5. /\ Append(r, s[k]) \in Seq(S)
        /\ Range(Append(r, s[k])) = Range(r) \cup {s[k]}
        /\ Distinct(Append(r, s[k]))
    BY <2>3, <2>4, AppendDistinct
  <2>6. \A e \in Range(s) : e.ip = s[k].ip => e = s[k]
    BY <2>1, ZenonT(30) DEF Range, Distinct
  <2>7. Range(r) \cup {s[k]} = Range(s)
    BY <2>3, <2>4, <2>6, ZenonT(30)
  <2>8. QED
    BY <2>2, <2>5, <2>7
<1>2. CASE ~ \E i \in DOMAIN s : s[i].ip = ip
  BY <1>2, ZenonT(30) DEF Touch
<1>3. QED
  BY <1>1, <1>2, ZenonT(30)

\* remove_lru takes the first entry and only it.
LEMMA TailDistinct ==
    ASSUME NEW S, NEW s \in Seq(S), Distinct(s), s # <<>>
    PROVE  /\ Head(s) \in Range(s)
           /\ Tail(s) \in Seq(S)
           /\ Len(Tail(s)) = Len(s) - 1
           /\ Distinct(Tail(s))
           /\ Range(Tail(s)) = {e \in Range(s) : e.ip # Head(s).ip}
<1>0. Len(s) \in Nat \ {0} /\ DOMAIN s = 1 .. Len(s)
  BY SeqLength, SeqEmpty, ZenonT(30)
<1>1. /\ Head(s) = s[1]
      /\ Tail(s) \in Seq(S)
      /\ Len(Tail(s)) = Len(s) - 1
      /\ \A i \in 1 .. Len(s) - 1 : Tail(s)[i] = s[i + 1]
  BY <1>0, SeqTail
<1> DEFINE r == Tail(s)
<1>2. DOMAIN r = 1 .. Len(s) - 1
  BY <1>1, SeqLength, ZenonT(30)
<1>2a. \A i \in 1 .. Len(s) - 1 : r[i] = s[i + 1]
  BY <1>1, ZenonT(30)
<1> HIDE DEF r
<1>3. Head(s) \in Range(s)
  BY <1>0, <1>1 DEF Range
<1>4. Distinct(r)
  <2> SUFFICES ASSUME NEW j \in DOMAIN r, NEW k \in DOMAIN r, r[j].ip = r[k].ip
               PROVE  j = k
    BY ZenonT(30) DEF Distinct
  <2>1. j + 1 \in DOMAIN s /\ k + 1 \in DOMAIN s /\ s[j + 1].ip = s[k + 1].ip
    BY <1>0, <1>2, <1>2a
  <2>2. j + 1 = k + 1
    BY <2>1, ZenonT(30) DEF Distinct
  <2>3. QED
    BY <2>2, <1>0, <1>2
<1>5. ASSUME NEW e \in Range(r) PROVE e \in Range(s) /\ e.ip # Head(s).ip
  <2>1. PICK j \in DOMAIN r : r[j] = e
    BY ZenonT(30) DEF Range
  <2>2. j + 1 \in DOMAIN s /\ s[j + 1] = e /\ j + 1 # 1 /\ 1 \in DOMAIN s
    BY <2>1, <1>0, <1>2, <1>2a
  <2>3. QED
    BY <2>2, <1>1, ZenonT(30) DEF Range, Distinct
<1>6. ASSUME NEW e \in Range(s), e.ip # Head(s).ip PROVE e \in Range(r)
  <2>1. PICK j \in DOMAIN s : s[j] = e
    BY ZenonT(30) DEF Range
  <2>2. j # 1
    BY <2>1, <1>1, <1>6, ZenonT(30)
  <2>3. j - 1 \in DOMAIN r /\ r[j - 1] = e
    BY <2>1, <2>2, <1>0, <1>2, <1>2a
  <2>4. QED
    BY <2>3, ZenonT(30) DEF Range
<1>7. QED
  BY <1>1, <1>3, <1>4, <1>5, <1>6 DEF r

-----------------------------------------------------------------------------
(* The cache and the reverse index.                                        *)

\* A cache s and a reverse index x that are inverse to each other.
InverseMaps(s, x) ==
    /\ s \in Seq(Entry)
    /\ Distinct(s)
    /\ x \in [Names -> Pool \cup {NoIp}]
    /\ \A n \in Names, ip \in Pool :
          x[n] = ip <=> [ip |-> ip, name |-> n] \in Range(s)

\* VirtualDns::new starts with two empty maps.
LEMMA InverseEmpty == InverseMaps(<<>>, NoNames)
<1>1. <<>> \in Seq(Entry) /\ DOMAIN <<>> = {}
  BY SeqEmpty, SeqLength
<1>2. Range(<<>>) = {}
  BY <1>1, ZenonT(30) DEF Range
<1>3. QED
  BY <1>1, <1>2, VirtualDnsAssumption, ZenonT(30) DEF InverseMaps, Distinct, NoNames

\* An entry's address and name are determined by each other.
LEMMA InverseUnique ==
    ASSUME NEW s, NEW x, InverseMaps(s, x)
    PROVE  /\ Range(s) \subseteq Entry
           /\ \A e \in Range(s) : x[e.name] = e.ip
           /\ \A d, e \in Range(s) : d.ip = e.ip \/ d.name = e.name => d = e
<1>1. Range(s) \subseteq Entry
  BY ToSetMember, ZenonT(30) DEF InverseMaps
<1>2. \A e \in Range(s) : x[e.name] = e.ip
  <2> SUFFICES ASSUME NEW e \in Range(s) PROVE x[e.name] = e.ip
    BY ZenonT(30)
  <2>1. e = [ip |-> e.ip, name |-> e.name] /\ e.ip \in Pool /\ e.name \in Names
    BY <1>1, ZenonT(30) DEF Entry
  <2>2. QED
    BY <2>1 DEF InverseMaps
<1>3. ASSUME NEW d \in Range(s), NEW e \in Range(s), d.ip = e.ip \/ d.name = e.name
      PROVE  d = e
  <2>1. d.ip = e.ip
    BY <1>2, <1>3, ZenonT(30)
  <2>2. QED
    BY <2>1 DEF Range, InverseMaps, Distinct
<1>4. QED
  BY <1>1, <1>2, <1>3, ZenonT(30)

\* touch_ip
LEMMA InverseTouch ==
    ASSUME NEW s, NEW x, InverseMaps(s, x), NEW ip
    PROVE  InverseMaps(Touch(s, ip), x) /\ Range(Touch(s, ip)) = Range(s)
BY TouchDistinct, ZenonT(30) DEF InverseMaps

\* A vacant address given to a new name.
LEMMA InverseAdd ==
    ASSUME NEW s, NEW x, InverseMaps(s, x), NEW n \in Names, x[n] = NoIp,
           NEW ip \in Pool, \A e \in Range(s) : e.ip # ip
    PROVE  /\ InverseMaps(Append(s, [ip |-> ip, name |-> n]), [x EXCEPT ![n] = ip])
           /\ Range(Append(s, [ip |-> ip, name |-> n])) =
                 Range(s) \cup {[ip |-> ip, name |-> n]}
<1> DEFINE e == [ip |-> ip, name |-> n]
           t == Append(s, e)
           y == [x EXCEPT ![n] = ip]
<1>1. e \in Entry /\ s \in Seq(Entry) /\ Distinct(s) /\ e.ip = ip
  BY ZenonT(30) DEF Entry, InverseMaps
<1>2. t \in Seq(Entry) /\ Range(t) = Range(s) \cup {e} /\ Distinct(t)
  BY <1>1, AppendDistinct
<1>3. y \in [Names -> Pool \cup {NoIp}]
  BY ZenonT(30) DEF InverseMaps
<1>4. ASSUME NEW m \in Names, NEW a \in Pool
      PROVE  y[m] = a <=> [ip |-> a, name |-> m] \in Range(t)
  <2>1. x[m] = a <=> [ip |-> a, name |-> m] \in Range(s)
    BY ZenonT(30) DEF InverseMaps
  <2>2. CASE m = n
    <3>1. y[m] = ip
      BY <2>2, ZenonT(30) DEF InverseMaps
    <3>2. [ip |-> a, name |-> m] \notin Range(s)
      BY <2>1, <2>2, VirtualDnsAssumption, ZenonT(30)
    <3>3. [ip |-> a, name |-> m] = e <=> a = ip
      BY <2>2, ZenonT(30)
    <3>4. QED
      BY <3>1, <3>2, <3>3, <1>2, ZenonT(30)
  <2>3. CASE m # n
    <3>1. y[m] = x[m]
      BY <2>3, ZenonT(30) DEF InverseMaps
    <3>2. [ip |-> a, name |-> m] # e
      BY <2>3, ZenonT(30)
    <3>3. QED
      BY <3>1, <3>2, <2>1, <1>2, ZenonT(30)
  <2>4. QED
    BY <2>2, <2>3, ZenonT(30)
<1>5. QED
  BY <1>2, <1>3, <1>4, ZenonT(30) DEF InverseMaps

\* An entry e is dropped from both maps.
LEMMA InverseDrop ==
    ASSUME NEW s, NEW x, InverseMaps(s, x), NEW e \in Range(s),
           NEW t \in Seq(Entry), Distinct(t), Range(t) = {f \in Range(s) : f.ip # e.ip}
    PROVE  InverseMaps(t, [x EXCEPT ![e.name] = NoIp])
<1> DEFINE y == [x EXCEPT ![e.name] = NoIp]
<1>1. e \in Entry /\ e.name \in Names /\ e.ip \in Pool
  BY InverseUnique, ZenonT(30) DEF Entry
<1>2. y \in [Names -> Pool \cup {NoIp}]
  BY ZenonT(30) DEF InverseMaps
<1>3. ASSUME NEW m \in Names, NEW a \in Pool
      PROVE  y[m] = a <=> [ip |-> a, name |-> m] \in Range(t)
  <2> DEFINE f == [ip |-> a, name |-> m]
  <2>1. x[m] = a <=> f \in Range(s)
    BY ZenonT(30) DEF InverseMaps
  <2>2. f.ip = a /\ f.name = m
    BY ZenonT(30)
  <2>3. f \in Range(t) <=> f \in Range(s) /\ a # e.ip
    BY <2>2, ZenonT(30)
  <2> HIDE DEF f
  <2>4. f \in Range(s) => (a = e.ip <=> m = e.name)
    BY <2>2, InverseUnique, ZenonT(30)
  <2>5. CASE m = e.name
    <3>1. y[m] = NoIp /\ NoIp # a
      BY <2>5, VirtualDnsAssumption, ZenonT(30) DEF InverseMaps
    <3>2. QED
      BY <3>1, <2>3, <2>4, <2>5, ZenonT(30) DEF f
  <2>6. CASE m # e.name
    <3>1. y[m] = x[m]
      BY <2>6, ZenonT(30) DEF InverseMaps
    <3>2. QED
      BY <3>1, <2>1, <2>3, <2>4, <2>6, ZenonT(30) DEF f
  <2>7. QED
    BY <2>5, <2>6, ZenonT(30)
<1>4. QED
  BY <1>2, <1>3, ZenonT(30) DEF InverseMaps

\* The least recently used entry gives its address to a new name.
LEMMA InverseRecycle ==
    ASSUME NEW s, NEW x, InverseMaps(s, x), s # <<>>, NEW n \in Names, x[n] = NoIp,
           NEW ip, ip = Head(s).ip
    PROVE  /\ InverseMaps(Append(Tail(s), [ip |-> ip, name |-> n]),
                          [x EXCEPT ![Head(s).name] = NoIp, ![n] = ip])
           /\ Range(Append(Tail(s), [ip |-> ip, name |-> n])) =
                 (Range(s) \ {Head(s)}) \cup {[ip |-> ip, name |-> n]}
<1> DEFINE h == Head(s)
           t == Tail(s)
           y == [x EXCEPT ![h.name] = NoIp]
<1>1. /\ h \in Range(s)
      /\ t \in Seq(Entry)
      /\ Distinct(t)
      /\ Range(t) = {e \in Range(s) : e.ip # h.ip}
  BY TailDistinct, ZenonT(30) DEF InverseMaps
<1>2. h \in Entry /\ h.ip \in Pool /\ h.name \in Names
  BY <1>1, InverseUnique, ZenonT(30) DEF Entry
<1> HIDE DEF h, t
<1>3. InverseMaps(t, y)
  BY <1>1, InverseDrop, ZenonT(30)
<1>4. y[n] = NoIp
  BY <1>2, ZenonT(30) DEF InverseMaps
<1>5. ip = h.ip /\ ip \in Pool /\ \A e \in Range(t) : e.ip # ip
  BY <1>1, <1>2, ZenonT(30) DEF h
<1>6. [x EXCEPT ![h.name] = NoIp, ![n] = ip] = [y EXCEPT ![n] = ip]
  BY ZenonT(30)
<1> HIDE DEF y
<1>7. /\ InverseMaps(Append(t, [ip |-> ip, name |-> n]), [y EXCEPT ![n] = ip])
      /\ Range(Append(t, [ip |-> ip, name |-> n])) =
            Range(t) \cup {[ip |-> ip, name |-> n]}
  BY <1>3, <1>4, <1>5, InverseAdd
<1>8. Range(t) = Range(s) \ {h}
  BY <1>1, InverseUnique, ZenonT(30)
<1>9. QED
  BY <1>6, <1>7, <1>8, ZenonT(30) DEF h, t

\* restore_mapping
LEMMA InverseRestore ==
    ASSUME NEW s, NEW x, InverseMaps(s, x), NEW line \in Entry
    PROVE  /\ InverseMaps(RestoredCache(s, x, line), RestoredIndex(s, x, line))
           /\ Range(RestoredCache(s, x, line)) =
                 {e \in Range(s) : e.ip # line.ip /\ e.name # line.name} \cup {line}
<1> DEFINE a == Evict(s, x[line.name])
           b == Evict(a, line.ip)
           t == RestoredCache(s, x, line)
           y == RestoredIndex(s, x, line)
<1>0. line.ip \in Pool /\ line.name \in Names /\ line = [ip |-> line.ip, name |-> line.name]
  BY ZenonT(30) DEF Entry
<1>1. /\ a \in Seq(Entry)
      /\ Distinct(a)
      /\ Range(a) = {e \in Range(s) : e.ip # x[line.name]}
  BY EvictDistinct DEF InverseMaps
<1> HIDE DEF a
<1>2. /\ b \in Seq(Entry)
      /\ Distinct(b)
      /\ Range(b) = {e \in Range(a) : e.ip # line.ip}
  BY <1>1, EvictDistinct
<1>3. t = Append(b, line)
  BY ZenonT(30) DEF RestoredCache, a, b
<1> HIDE DEF b, t
<1>4. t \in Seq(Entry) /\ Distinct(t) /\ Range(t) = Range(b) \cup {line}
  BY <1>2, <1>3, AppendDistinct
<1>5. \A e \in Range(s) : e.ip = x[line.name] <=> e.name = line.name
  <2> SUFFICES ASSUME NEW e \in Range(s)
               PROVE  e.ip = x[line.name] <=> e.name = line.name
    BY ZenonT(30)
  <2>1. x[e.name] = e.ip /\ e.ip \in Pool
    BY InverseUnique, ZenonT(30) DEF Entry
  <2>2. ASSUME e.ip = x[line.name] PROVE e.name = line.name
    <3>1. [ip |-> e.ip, name |-> line.name] \in Range(s)
      BY <2>1, <2>2, <1>0, ZenonT(30) DEF InverseMaps
    <3>2. [ip |-> e.ip, name |-> line.name] = e
      BY <3>1, InverseUnique, ZenonT(30)
    <3>3. QED
      BY <3>2
  <2>3. QED
    BY <2>1, <2>2, ZenonT(30)
<1>6. Range(t) = {e \in Range(s) : e.ip # line.ip /\ e.name # line.name} \cup {line}
  BY <1>1, <1>2, <1>4, <1>5, ZenonT(30)
<1>7. y \in [Names -> Pool \cup {NoIp}]
  BY <1>0, ZenonT(30) DEF RestoredIndex, InverseMaps
<1>8. ASSUME NEW m \in Names, NEW p \in Pool
      PROVE  y[m] = p <=> [ip |-> p, name |-> m] \in Range(t)
  <2> DEFINE f == [ip |-> p, name |-> m]
             g == [ip |-> line.ip, name |-> m]
  <2>1. f.ip = p /\ f.name = m /\ g.ip = line.ip /\ g.name = m
    BY ZenonT(30)
  <2>2. x[m] = p <=> f \in Range(s)
    BY ZenonT(30) DEF InverseMaps
  <2>3. y[m] = IF m = line.name THEN line.ip ELSE IF g \in Range(s) THEN NoIp ELSE x[m]
    BY ZenonT(30) DEF RestoredIndex
  <2>4. p = line.ip => f = g
    BY ZenonT(30)
  <2>5. m = line.name /\ p = line.ip => f = line
    BY <1>0, ZenonT(30)
  <2>6. f = line => m = line.name /\ p = line.ip
    BY <2>1, ZenonT(30)
  <2>7. g \in Range(s) /\ f \in Range(s) => f = g
    BY <2>1, InverseUnique, ZenonT(30)
  <2> HIDE DEF f, g
  <2>8. CASE m = line.name
    BY <2>1, <2>3, <2>5, <2>6, <2>8, <1>6 DEF f
  <2>9. CASE m # line.name /\ g \in Range(s)
    <3>1. y[m] # p
      BY <2>3, <2>9, VirtualDnsAssumption, ZenonT(30)
    <3>2. f \notin Range(t)
      BY <2>1, <2>6, <2>7, <2>9, <1>6
    <3>3. QED
      BY <3>1, <3>2, ZenonT(30) DEF f
  <2>10. CASE m # line.name /\ g \notin Range(s)
    <3>1. y[m] = x[m]
      BY <2>3, <2>10, ZenonT(30)
    <3>2. f \in Range(t) <=> f \in Range(s)
      BY <2>1, <2>4, <2>6, <2>10, <1>6, ZenonT(30)
    <3>3. QED
      BY <3>1, <3>2, <2>2, ZenonT(30) DEF f
  <2>11. QED
    BY <2>8, <2>9, <2>10, ZenonT(30)
<1>9. QED
  BY <1>4, <1>6, <1>7, <1>8, ZenonT(30) DEF InverseMaps, t

-----------------------------------------------------------------------------
(* The journal's types.                                                    *)

Outcome == [file : Journal, dirty : BOOLEAN, records : Nat]

\* Replacing an element of a sequence gives a sequence.
LEMMA ExceptIsSeq ==
    ASSUME NEW S, NEW s \in Seq(S), NEW i, NEW e \in S
    PROVE  [s EXCEPT ![i] = e] \in Seq(S)
<1>1. Len(s) \in Nat /\ DOMAIN s = 1 .. Len(s) /\ \A k \in 1 .. Len(s) : s[k] \in S
  BY SeqLength, SeqElement, ZenonT(30)
<1>2. [s EXCEPT ![i] = e] = [k \in 1 .. Len(s) |-> IF k = i THEN e ELSE s[k]]
  BY <1>1, ZenonT(30)
<1>3. [s EXCEPT ![i] = e] \in [1 .. Len(s) -> S]
  BY <1>1, <1>2, ZenonT(30)
<1>4. QED
  BY <1>1, <1>3

\* Writing a record, a fragment, or a record without newline gives a journal.
LEMMA JournalWrites ==
    ASSUME NEW f \in Journal, NEW line \in Entry
    PROVE  /\ WithRecord(f, line) \in Journal
           /\ WithFragment(f, line) \in Journal
           /\ WithoutNewline(f, line) \in Journal
<1>1. line \in Line /\ GarbledLine(line.ip) \in Line /\ GarbledLine(line.ip).ip = line.ip
  BY ZenonT(30) DEF Entry, Line, GarbledLine
<1>2. ASSUME NEW l \in Line PROVE WithRecord(f, l) \in Journal
  <2>1. f.lines \in Seq(Line) /\ l.ip \in Pool /\ GarbledLine(l.ip) \in Line
    BY ZenonT(30) DEF Journal, Line, GarbledLine
  <2>2. [f.lines EXCEPT ![Len(f.lines)] = GarbledLine(l.ip)] \in Seq(Line)
    BY <2>1, ExceptIsSeq, ZenonT(30)
  <2>3. Append(f.lines, l) \in Seq(Line)
    BY <2>1, SeqAppended, ZenonT(30)
  <2>4. CASE f.open
    <3>1. WithRecord(f, l) = [f EXCEPT !.lines = [f.lines EXCEPT ![Len(f.lines)] = GarbledLine(l.ip)],
                                       !.open = FALSE]
      BY <2>4, ZenonT(30) DEF WithRecord, Journal
    <3>2. QED
      BY <3>1, <2>2, ZenonT(30) DEF Journal
  <2>5. CASE ~f.open
    BY <2>3, <2>5, ZenonT(30) DEF WithRecord, Journal
  <2>6. QED
    BY <2>4, <2>5, ZenonT(30)
<1>3. \A g \in Journal : [g EXCEPT !.open = TRUE] \in Journal
  BY ZenonT(30) DEF Journal
<1>4. QED
  BY <1>1, <1>2, <1>3, ZenonT(30) DEF WithFragment, WithoutNewline

\* A successful rewrite gives a journal.
LEMMA RewrittenType ==
    ASSUME NEW s \in Seq(Entry), NEW cursor \in Pool
    PROVE  Rewritten(s, cursor) \in Outcome
<1>1. s \in Seq(Line) /\ Len(s) \in Nat
  BY SeqWider, SeqLength, ZenonT(30) DEF Entry, Line
<1>2. QED
  BY <1>1, ZenonT(30) DEF Rewritten, Outcome, Journal

\* A missing, an empty and a foreign journal are journals.
LEMMA NoJournalType ==
    \A h \in {"missing", "empty", "foreign", "ok"} :
       [NoJournal EXCEPT !.head = h] \in Journal /\ NoJournal \in Journal
<1>1. 0 \in Pool
  BY VirtualDnsAssumption DEF Pool
<1>2. <<>> \in Seq(Line)
  BY SeqEmpty, ZenonT(30)
<1>3. QED
  BY <1>1, <1>2, ZenonT(30) DEF NoJournal, Journal

\* What a failed rewrite leaves is a journal.
LEMMA RewriteErrorsType ==
    ASSUME NEW f \in Journal
    PROVE  RewriteErrors(f) \subseteq Journal
BY NoJournalType, ZenonT(30) DEF RewriteErrors

\* What a failed or an interrupted append leaves is a journal.
LEMMA AppendErrorsType ==
    ASSUME NEW f \in Journal, NEW line \in Entry
    PROVE  /\ AppendErrors(f, line) \subseteq Journal
           /\ InterruptedAppends(f, line) \subseteq Journal
BY JournalWrites, ZenonT(30) DEF AppendErrors, InterruptedAppends

\* The outcomes of persist_mapping and of retry_dirty_persistence have the type
\* of an outcome.
LEMMA OutcomeTypes ==
    ASSUME file \in Journal, cache \in [dirty : BOOLEAN, journal_records : Nat],
           NEW s \in Seq(Entry), NEW cursor \in Pool, NEW entry \in Entry
    PROVE  /\ PersistMapping(s, cursor, entry) \subseteq Outcome
           /\ RetryDirty(s, cursor) \subseteq Outcome
<1>1. Rewritten(s, cursor) \in Outcome
  BY RewrittenType, ZenonT(30)
<1>2. ASSUME NEW f \in Journal, NEW r \in Nat PROVE Repaired(s, cursor, f, r) \subseteq Outcome
  <2>1. \A g \in RewriteErrors(f) : [file |-> g, dirty |-> TRUE, records |-> r] \in Outcome
    BY RewriteErrorsType, ZenonT(30) DEF Outcome
  <2>2. QED
    BY <1>1, <2>1, ZenonT(30) DEF Repaired
<1>3. cache.journal_records \in Nat /\ cache.journal_records + 1 \in Nat
  OBVIOUS
<1>4. /\ WithRecord(file, entry) \in Journal
      /\ RewriteErrors(file) \subseteq Journal
      /\ AppendErrors(file, entry) \subseteq Journal
  BY JournalWrites, RewriteErrorsType, AppendErrorsType, ZenonT(30)
<1>5. RewriteErrors(WithRecord(file, entry)) \subseteq Journal
  BY <1>4, RewriteErrorsType, ZenonT(30)
<1>6. [file |-> WithRecord(file, entry), dirty |-> FALSE,
       records |-> cache.journal_records + 1] \in Outcome
  BY <1>3, <1>4, ZenonT(30) DEF Outcome
<1>7. PersistMapping(s, cursor, entry) \subseteq Outcome
  <2> DEFINE old == cache.journal_records
             appended == WithRecord(file, entry)
             A == UNION {Repaired(s, cursor, f, old) : f \in RewriteErrors(file)}
             B == UNION {Repaired(s, cursor, f, old + 1) : f \in RewriteErrors(appended)}
             C == UNION {Repaired(s, cursor, f, old) : f \in AppendErrors(file, entry)}
             D == [file |-> appended, dirty |-> FALSE, records |-> old + 1]
  <2>1. A \subseteq Outcome /\ B \subseteq Outcome /\ C \subseteq Outcome
    <3>1. old \in Nat /\ old + 1 \in Nat
      BY <1>3, ZenonT(30)
    <3>2. \A f \in Journal, r \in Nat : Repaired(s, cursor, f, r) \subseteq Outcome
      BY <1>2, ZenonT(30)
    <3> HIDE DEF old, appended
    <3>3. appended \in Journal => RewriteErrors(appended) \subseteq Journal
      BY RewriteErrorsType, ZenonT(30)
    <3>4. RewriteErrors(appended) \subseteq Journal
      BY <3>3, <1>4, ZenonT(30) DEF appended
    <3>5. QED
      BY <3>1, <3>2, <3>4, <1>4
  <2>2. D \in Outcome
    BY <1>6, ZenonT(30)
  <2>3. PersistMapping(s, cursor, entry) =
           IF NeedsRewrite
           THEN {Rewritten(s, cursor)} \cup A
           ELSE (IF ShouldCompact(old + 1, Len(s))
                 THEN {Rewritten(s, cursor)} \cup B ELSE {D}) \cup C
    BY Zenon DEF PersistMapping
  <2> HIDE DEF A, B, C, D
  <2>4. QED
    BY <1>1, <2>1, <2>2, <2>3
<1>8. RetryDirty(s, cursor) \subseteq Outcome
  <2>1. [file |-> file, dirty |-> FALSE, records |-> cache.journal_records] \in Outcome
    BY <1>3, ZenonT(30) DEF Outcome
  <2>2. QED
    BY <1>2, <1>3, <2>1, ZenonT(30) DEF RetryDirty
<1>9. QED
  BY <1>7, <1>8, ZenonT(30)

-----------------------------------------------------------------------------
(* The two maps are always inverse to each other.                          *)

\* The types of everything but the two maps.
RestOK ==
    /\ next_addr \in Pool
    /\ phase \in {"up", "loading"}
    /\ persistence \in BOOLEAN
    /\ cache \in [dirty : BOOLEAN, journal_records : Nat]
    /\ load \in [pos : Nat, repair : BOOLEAN]
    /\ file \in Journal
    /\ last \in Pool \cup {NoIp}

\* The inductive invariant: TypeOK and Consistent, in the form the lemmas use.
MapsInv == InverseMaps(lru_cache, name_to_ip) /\ RestOK

\* The inductive invariant is the conjunction of TypeOK and Consistent.
LEMMA MapsInvMeans == MapsInv <=> TypeOK /\ Consistent
BY ZenonT(30) DEF MapsInv, RestOK, InverseMaps, Distinct, TypeOK, Consistent, Mapped

\* Addresses of the pool, and no address, are what last may hold.
LEMMA PoolFacts == /\ 0 \in Pool
                   /\ UpperHalfStart \in Pool
                   /\ NoIp \notin Pool
<1>1. PoolSize \in Nat \ {0} /\ NoIp \notin Pool
  BY VirtualDnsAssumption, ZenonT(30)
<1>2. UpperHalfStart \in 0 .. PoolSize - 1
  BY <1>1 DEF UpperHalfStart
<1>3. QED
  BY <1>1, <1>2 DEF Pool

\* A stored outcome leaves a journal and a PersistentCache.
LEMMA StoredType ==
    ASSUME NEW outcome \in Outcome, Stored(outcome)
    PROVE  file' \in Journal /\ cache' \in [dirty : BOOLEAN, journal_records : Nat]
BY ZenonT(30) DEF Outcome, Stored

\* A new process has empty maps.
LEMMA NewProcessMaps ==
    ASSUME NewProcess, file' \in Journal
    PROVE  MapsInv'
<1>1. InverseMaps(lru_cache, name_to_ip)'
  BY InverseEmpty, ZenonT(30) DEF NewProcess, InverseMaps
<1>2. RestOK'
  <2>1. /\ cache' \in [dirty : BOOLEAN, journal_records : Nat]
        /\ load' \in [pos : Nat, repair : BOOLEAN]
    BY ZenonT(30) DEF NewProcess, NewCache, NoLoad
  <2>2. next_addr' \in Pool /\ last' \in Pool \cup {NoIp}
    BY PoolFacts, ZenonT(30) DEF NewProcess
  <2>3. phase' \in {"up", "loading"} /\ persistence' \in BOOLEAN
    BY ZenonT(30) DEF NewProcess
  <2>4. QED
    BY <2>1, <2>2, <2>3, ZenonT(30) DEF RestOK
<1>3. QED
  BY <1>1, <1>2, ZenonT(30) DEF MapsInv

\* enable_persistence's rewrite installs the maps it was given.
LEMMA FirstRewriteMaps ==
    ASSUME RestOK, NEW entries, NEW index, InverseMaps(entries, index),
           NEW cursor \in Pool, NEW records \in Nat,
           FirstRewrite(entries, index, cursor, records)
    PROVE  MapsInv'
<1>1. file \in Journal /\ RewriteErrors(file) \subseteq Journal
  <2>1. file \in Journal
    BY ZenonT(30) DEF RestOK
  <2>2. QED
    BY <2>1, RewriteErrorsType, ZenonT(30)
<1>2. CASE /\ \E outcome \in FirstOutcomes(entries, cursor, records) : Stored(outcome)
           /\ lru_cache' = entries
           /\ name_to_ip' = index
           /\ next_addr' = cursor
           /\ phase' = "up"
           /\ persistence' = TRUE
           /\ load' = NoLoad
           /\ last' = NoIp
  <2>1. Rewritten(entries, cursor) \in Outcome
    BY RewrittenType, ZenonT(30) DEF InverseMaps
  <2>2. \A f \in RewriteErrors(file) :
           [file |-> f, dirty |-> FALSE, records |-> records] \in Outcome
    BY <1>1, ZenonT(30) DEF Outcome
  <2>3. FirstOutcomes(entries, cursor, records) \subseteq Outcome
    BY <2>1, <2>2, ZenonT(30) DEF FirstOutcomes
  <2>4. file' \in Journal /\ cache' \in [dirty : BOOLEAN, journal_records : Nat]
    <3>1. \A o \in Outcome : Stored(o) =>
             file' \in Journal /\ cache' \in [dirty : BOOLEAN, journal_records : Nat]
      BY StoredType, ZenonT(30)
    <3>2. QED
      BY <1>2, <2>3, <3>1, Zenon
  <2>5. InverseMaps(lru_cache', name_to_ip')
    BY <1>2, ZenonT(30)
  <2>6. RestOK'
    BY <1>2, <2>4, ZenonT(30) DEF RestOK, NoLoad
  <2>7. QED
    BY <2>5, <2>6, ZenonT(30) DEF MapsInv, InverseMaps
<1>3. CASE file' \in RewriteErrors(file) /\ NewProcess
  BY <1>1, <1>3, NewProcessMaps, ZenonT(30)
<1>4. QED
  BY <1>2, <1>3, Zenon DEF FirstRewrite

\* What a query does to the journal keeps its type.
LEMMA PersistsTypes ==
    ASSUME RestOK, NEW n \in Names, NEW ip \in Pool, Persists(n, ip),
           lru_cache' \in Seq(Entry), next_addr' \in Pool
    PROVE  /\ file' \in Journal
           /\ cache' \in [dirty : BOOLEAN, journal_records : Nat]
<1>1. [ip |-> ip, name |-> n] \in Entry
  BY ZenonT(30) DEF Entry
<1>2. PersistMapping(lru_cache', next_addr', [ip |-> ip, name |-> n]) \subseteq Outcome
  BY <1>1, OutcomeTypes, ZenonT(30) DEF RestOK
<1>3. QED
  BY <1>2, StoredType, ZenonT(30) DEF Persists, RestOK

\* Addresses of cached entries, as elements and as a set.
LEMMA VacantMeans ==
    ASSUME lru_cache \in Seq(Entry), NEW ip \in Vacant
    PROVE  ip \in Pool /\ \A e \in Mapped : e.ip # ip
BY ZenonT(30) DEF Vacant, MappedIps, Mapped, Range

INSTANCE FiniteSetTheorems

\* Every step keeps the two maps inverse to each other.
LEMMA MapsStep == MapsInv /\ [Next]_vars => MapsInv'
<1> SUFFICES ASSUME MapsInv, [Next]_vars PROVE MapsInv'
  BY ZenonT(30)
<1> USE DEF MapsInv
<1>0. InverseMaps(lru_cache, name_to_ip) /\ RestOK /\ lru_cache \in Seq(Entry)
  BY ZenonT(30) DEF InverseMaps
<1>1. ASSUME NEW n \in Names, Hit(n) PROVE MapsInv'
  <2>1. InverseMaps(lru_cache', name_to_ip')
    BY <1>0, <1>1, InverseTouch, ZenonT(30) DEF Hit
  <2>2. file' \in Journal /\ cache' \in [dirty : BOOLEAN, journal_records : Nat]
    <3>1. CASE persistence
      <4>1. \E outcome \in RetryDirty(lru_cache', next_addr) : Stored(outcome)
        BY <1>1, <3>1, ZenonT(30) DEF Hit
      <4>2. name_to_ip[n] \in Pool
        BY <1>1, <1>0, ZenonT(30) DEF Hit, InverseMaps
      <4>3. [ip |-> name_to_ip[n], name |-> n] \in Entry
        BY <4>2, ZenonT(30) DEF Entry
      <4>4. RetryDirty(lru_cache', next_addr) \subseteq Outcome
        BY <1>0, <2>1, <4>3, OutcomeTypes DEF RestOK, InverseMaps
      <4>5. QED
        BY <4>1, <4>4, StoredType, ZenonT(30)
    <3>2. CASE ~persistence
      BY <1>0, <1>1, <3>2, ZenonT(30) DEF Hit, RestOK
    <3>3. QED
      BY <3>1, <3>2, ZenonT(30)
  <2>3. last' \in Pool \cup {NoIp}
    BY <1>0, <1>1, ZenonT(30) DEF Hit, InverseMaps
  <2>4. RestOK'
    BY <1>0, <1>1, <2>2, <2>3 DEF Hit, RestOK
  <2>5. QED
    BY <2>1, <2>4, ZenonT(30) DEF InverseMaps
<1>2. ASSUME NEW n \in Names, NEW ip \in Pool, Allocates(n, ip), Persists(n, ip)
      PROVE  MapsInv'
  <2>1. \A e \in Range(lru_cache) : e.ip # ip
    BY <1>0, <1>2, VacantMeans, ZenonT(30) DEF Allocates, Mapped
  <2>2. InverseMaps(lru_cache', name_to_ip')
    BY <1>0, <1>2, <2>1, InverseAdd, ZenonT(30) DEF Allocates
  <2>3. next_addr' \in Pool /\ last' \in Pool \cup {NoIp}
    BY <1>2, ZenonT(30) DEF Allocates
  <2>4. file' \in Journal /\ cache' \in [dirty : BOOLEAN, journal_records : Nat]
    BY <1>0, <1>2, <2>2, <2>3, PersistsTypes DEF InverseMaps
  <2>5. RestOK'
    BY <1>0, <1>2, <2>3, <2>4 DEF Persists, RestOK
  <2>6. QED
    BY <2>2, <2>5, ZenonT(30) DEF InverseMaps
<1>3. ASSUME NEW n \in Names, NEW ip \in Pool, Recycles(n, ip), Persists(n, ip)
      PROVE  MapsInv'
  <2>2. InverseMaps(lru_cache', name_to_ip')
    BY <1>0, <1>3, InverseRecycle, ZenonT(30) DEF Recycles
  <2>3. next_addr' \in Pool /\ last' \in Pool \cup {NoIp}
    BY <1>0, <1>3 DEF Recycles, RestOK
  <2>4. file' \in Journal /\ cache' \in [dirty : BOOLEAN, journal_records : Nat]
    BY <1>0, <1>3, <2>2, <2>3, PersistsTypes, ZenonT(30) DEF InverseMaps
  <2>5. RestOK'
    BY <1>0, <1>3, <2>3, <2>4, ZenonT(30) DEF Persists, RestOK
  <2>6. QED
    BY <2>2, <2>5, ZenonT(30) DEF InverseMaps
<1>4. ASSUME NEW n \in Names, RestartInAppend(n) PROVE MapsInv'
  <2>1. PICK ip \in Pool : file' \in InterruptedAppends(file, [ip |-> ip, name |-> n])
    BY <1>4, ZenonT(30) DEF RestartInAppend
  <2>2. [ip |-> ip, name |-> n] \in Entry
    BY ZenonT(30) DEF Entry
  <2>3. file' \in Journal
    BY <1>0, <2>1, <2>2, AppendErrorsType, ZenonT(30) DEF RestOK
  <2>4. QED
    BY <1>4, <2>3, NewProcessMaps, ZenonT(30) DEF RestartInAppend
<1>5. ASSUME NEW ip \in Pool, ResolveIp(ip) PROVE MapsInv'
  <2>1. InverseMaps(lru_cache', name_to_ip')
    BY <1>0, <1>5, InverseTouch, ZenonT(30) DEF ResolveIp
  <2>2. RestOK'
    BY <1>0, <1>5, ZenonT(30) DEF ResolveIp, RestOK
  <2>3. QED
    BY <2>1, <2>2, ZenonT(30) DEF InverseMaps
<1>6. CASE EnableMissing
  <2>1. (IF lru_cache = <<>> THEN UpperHalfStart ELSE next_addr) \in Pool
    BY <1>0, PoolFacts, ZenonT(30) DEF RestOK
  <2>2. QED
    BY <1>0, <1>6, <2>1, FirstRewriteMaps DEF EnableMissing
<1>7. CASE EnableIncompatible
  BY <1>0, <1>7, InverseEmpty, PoolFacts, FirstRewriteMaps DEF EnableIncompatible
<1>8. CASE EnableLoaded
  <2>1. InverseMaps(lru_cache', name_to_ip')
    BY <1>8, InverseEmpty, ZenonT(30) DEF EnableLoaded
  <2>2. file.lines \in Seq(Line) /\ file.cursor \in Pool
    BY <1>0, ZenonT(30) DEF RestOK, Journal
  <2>3. IsFiniteSet(DOMAIN file.lines)
    <3>1. Len(file.lines) \in Nat /\ DOMAIN file.lines = 1 .. Len(file.lines)
      BY <2>2, SeqLength, ZenonT(30)
    <3>2. IsFiniteSet(1 .. Len(file.lines))
      BY <3>1, FS_Interval
    <3>3. QED
      BY <3>1, <3>2, ZenonT(30)
  <2>4. Cardinality({k \in DOMAIN file.lines : file.lines[k].name # Garbled}) \in Nat
    BY <2>3, FS_Subset, FS_CardinalityType, ZenonT(30)
  <2>5. cache' \in [dirty : BOOLEAN, journal_records : Nat]
    BY <1>8, <2>4, ZenonT(30) DEF EnableLoaded
  <2>6. RestOK'
    <3>1. load' \in [pos : Nat, repair : BOOLEAN]
      BY <1>8, ZenonT(30) DEF EnableLoaded
    <3>2. phase' = "loading" /\ last' = NoIp /\ next_addr' \in Pool
          /\ UNCHANGED <<persistence, file>>
      BY <1>8, <2>2, ZenonT(30) DEF EnableLoaded
    <3>3. QED
      BY <1>0, <2>5, <3>1, <3>2, ZenonT(30) DEF RestOK
  <2>7. QED
    BY <2>1, <2>6, ZenonT(30) DEF InverseMaps
<1>9. CASE RestoreMapping
  <2> DEFINE line == file.lines[load.pos + 1]
  <2>1. line \in Line
    <3>1. file.lines \in Seq(Line) /\ load.pos \in Nat
      BY <1>0, ZenonT(30) DEF RestOK, Journal
    <3>2. Len(file.lines) \in Nat /\ load.pos < Len(file.lines)
      BY <1>9, <3>1, SeqLength, ZenonT(30) DEF RestoreMapping
    <3>3. QED
      BY <3>1, <3>2, SeqElement
  <2> HIDE DEF line
  <2>2. InverseMaps(lru_cache', name_to_ip')
    <3>1. CASE Restores(line)
      <4>1. line \in Entry
        BY <2>1, <3>1, ZenonT(30) DEF Restores, Line, Entry
      <4>2. /\ lru_cache' = RestoredCache(lru_cache, name_to_ip, line)
            /\ name_to_ip' = RestoredIndex(lru_cache, name_to_ip, line)
        BY <1>9, <3>1, ZenonT(30) DEF RestoreMapping, line
      <4>3. QED
        BY <1>0, <4>1, <4>2, InverseRestore, ZenonT(30)
    <3>2. CASE ~Restores(line)
      BY <1>0, <1>9, <3>2, ZenonT(30) DEF RestoreMapping, line
    <3>3. QED
      BY <3>1, <3>2, ZenonT(30)
  <2>3. load' \in [pos : Nat, repair : BOOLEAN]
    <3>1. load' = [pos |-> load.pos + 1, repair |-> load.repair \/ ~Restores(line)]
      BY <1>9, ZenonT(30) DEF RestoreMapping, line
    <3>2. QED
      BY <1>0, <3>1 DEF RestOK
  <2>4. RestOK'
    BY <1>0, <1>9, <2>3, ZenonT(30) DEF RestoreMapping, RestOK
  <2>5. QED
    BY <2>2, <2>4, ZenonT(30) DEF InverseMaps
<1>10. CASE FinishLoad
  <2>1. CASE load.repair
    BY <1>0, <1>10, <2>1, FirstRewriteMaps DEF FinishLoad, RestOK
  <2>2. CASE ~load.repair
    <3>1. InverseMaps(lru_cache', name_to_ip')
      BY <1>0, <1>10, <2>2, ZenonT(30) DEF FinishLoad, memory
    <3>2. RestOK'
      <4>2. phase' = "up" /\ persistence' = TRUE /\ load' = NoLoad
            /\ UNCHANGED <<memory, cache, file>>
        BY <1>10, <2>2, Zenon DEF FinishLoad
      <4>1. load' \in [pos : Nat, repair : BOOLEAN]
        BY <4>2, ZenonT(30) DEF NoLoad
      <4>3. QED
        BY <1>0, <4>1, <4>2, ZenonT(30) DEF memory, RestOK
    <3>3. QED
      BY <3>1, <3>2, ZenonT(30) DEF InverseMaps
  <2>3. QED
    BY <2>1, <2>2, ZenonT(30)
<1>11. CASE Restart
  BY <1>0, <1>11, NewProcessMaps, ZenonT(30) DEF Restart, RestOK
<1>12. CASE RestartInReplace
  BY <1>12, NewProcessMaps, NoJournalType, ZenonT(30) DEF RestartInReplace
<1>13. CASE JournalRemoved
  <2>1. file' \in Journal
    BY <1>13, NoJournalType, ZenonT(30) DEF JournalRemoved
  <2>2. InverseMaps(lru_cache', name_to_ip') /\ RestOK'
    BY <1>0, <1>13, <2>1, ZenonT(30) DEF JournalRemoved, memory, RestOK
  <2>3. QED
    BY <2>2, ZenonT(30) DEF InverseMaps
<1>14. CASE UNCHANGED vars
  <2>1. InverseMaps(lru_cache', name_to_ip') /\ RestOK'
    BY <1>0, <1>14, ZenonT(30) DEF vars, RestOK
  <2>2. QED
    BY <2>1, ZenonT(30) DEF InverseMaps
<1>15. QED
  BY <1>1, <1>2, <1>3, <1>4, <1>5, <1>6, <1>7, <1>8, <1>9, <1>10, <1>11, <1>12,
     <1>13, <1>14, Zenon DEF Next, Step, Allocate, Recycle

\* TypeOK and Consistent hold in every reachable state.
LEMMA MapsAlways == Spec => []MapsInv
<1>1. Init => MapsInv
  <2>1. ASSUME Init PROVE MapsInv
    <3>1. InverseMaps(lru_cache, name_to_ip)
      BY <2>1, InverseEmpty, ZenonT(30) DEF Init
    <3>2. file \in Journal
      BY <2>1, NoJournalType, ZenonT(30) DEF Init
    <3>3. RestOK
      BY <2>1, <3>2, PoolFacts, ZenonT(30) DEF Init, RestOK, NewCache, NoLoad
    <3>4. QED
      BY <3>1, <3>3, ZenonT(30) DEF MapsInv
  <2>2. QED
    BY <2>1, ZenonT(30)
<1>2. QED
  BY <1>1, MapsStep, PTL DEF Spec

\* Every variable of the allocator and of its journal keeps its type, whatever
\* the journal held when it was loaded.
THEOREM TypeCorrect == Spec => []TypeOK
<1>1. MapsInv => TypeOK
  BY MapsInvMeans, ZenonT(30)
<1>2. QED
  BY <1>1, MapsAlways, PTL

\* The LRU cache and the reverse index are inverse to each other in every
\* reachable state, for every pool size and every set of names: hits,
\* allocations, recycling and the replay of any journal keep them so.
THEOREM MapsConsistent == Spec => []Consistent
<1>1. MapsInv => Consistent
  BY MapsInvMeans, ZenonT(30)
<1>2. QED
  BY <1>1, MapsAlways, PTL

-----------------------------------------------------------------------------
(* What a replay leaves behind.  The journal is read line by line, so what *)
(* matters in between is what its first p lines leave behind.              *)

\* Line j is what a replay of the first p lines leaves behind.
LiveAmong(lines, p, j) ==
    /\ Restores(lines[j])
    /\ \A i \in 1 .. p : i > j /\ Restores(lines[i]) =>
          lines[i].ip # lines[j].ip /\ lines[i].name # lines[j].name

LiveUpTo(lines, p) == {lines[j] : j \in {i \in 1 .. p : LiveAmong(lines, p, i)}}

\* A line of a name or an address takes both from the lines before it.
Overridden(m, line) == {e \in m : e.ip # line.ip /\ e.name # line.name} \cup {line}

\* All lines of the journal are its first ones up to its length.
LEMMA LiveWhole ==
    ASSUME NEW lines \in Seq(Line)
    PROVE  Live(lines) = LiveUpTo(lines, Len(lines))
<1>1. DOMAIN lines = 1 .. Len(lines)
  BY SeqLength, ZenonT(30)
<1>2. \A j \in 1 .. Len(lines) : LiveAt(lines, j) <=> LiveAmong(lines, Len(lines), j)
  BY <1>1, ZenonT(30) DEF LiveAt, LiveAmong
<1>3. QED
  BY <1>1, <1>2, ZenonT(30) DEF Live, LiveUpTo

\* No line leaves nothing behind.
LEMMA LiveNone ==
    ASSUME NEW lines
    PROVE  LiveUpTo(lines, 0) = {}
<1>1. 1 .. 0 = {}
  OBVIOUS
<1>2. QED
  BY <1>1, ZenonT(30) DEF LiveUpTo

\* What the first p lines leave behind depends on them only.
LEMMA LiveSame ==
    ASSUME NEW q, NEW r, NEW p \in Nat, \A i \in 1 .. p : q[i] = r[i]
    PROVE  LiveUpTo(q, p) = LiveUpTo(r, p)
<1>1. \A j \in 1 .. p : LiveAmong(q, p, j) <=> LiveAmong(r, p, j)
  BY ZenonT(30) DEF LiveAmong
<1>2. QED
  BY <1>1, ZenonT(30) DEF LiveUpTo

\* The places up to p + 1.
LEMMA OneMorePlace ==
    ASSUME NEW p \in Nat
    PROVE  /\ p + 1 \in 1 .. p + 1
           /\ \A i \in 1 .. p : i \in 1 .. p + 1 /\ p + 1 > i /\ i # p + 1
           /\ \A i \in 1 .. p + 1 : i = p + 1 \/ i \in 1 .. p
           /\ \A i \in 1 .. p + 1 : ~ (i > p + 1)
OBVIOUS

\* A restored line overrides the lines of its address and of its name.
LEMMA LiveNext ==
    ASSUME NEW lines, NEW p \in Nat, Restores(lines[p + 1])
    PROVE  LiveUpTo(lines, p + 1) = Overridden(LiveUpTo(lines, p), lines[p + 1])
<1> DEFINE m == p + 1
<1>0. /\ m \in 1 .. m
      /\ \A i \in 1 .. p : i \in 1 .. m /\ m > i /\ i # m
      /\ \A i \in 1 .. m : i = m \/ i \in 1 .. p
      /\ \A i \in 1 .. m : ~ (i > m)
  BY OneMorePlace, ZenonT(30)
<1>1. Restores(lines[m])
  BY ZenonT(30)
<1> HIDE DEF m
<1>2. LiveAmong(lines, m, m)
  BY <1>0, <1>1, ZenonT(30) DEF LiveAmong
<1>3. ASSUME NEW j \in 1 .. p
      PROVE  LiveAmong(lines, m, j) <=>
                /\ LiveAmong(lines, p, j)
                /\ lines[j].ip # lines[m].ip /\ lines[j].name # lines[m].name
  BY <1>0, <1>1, ZenonT(30) DEF LiveAmong
<1>4. ASSUME NEW e \in LiveUpTo(lines, m)
      PROVE  e \in Overridden(LiveUpTo(lines, p), lines[m])
  <2>1. PICK j \in 1 .. m : LiveAmong(lines, m, j) /\ e = lines[j]
    BY <1>4, ZenonT(30) DEF LiveUpTo
  <2>2. CASE j = m
    BY <2>1, <2>2, ZenonT(30) DEF Overridden
  <2>3. CASE j \in 1 .. p
    <3>1. e \in LiveUpTo(lines, p)
      BY <1>3, <2>1, <2>3, ZenonT(30) DEF LiveUpTo
    <3>2. e.ip # lines[m].ip /\ e.name # lines[m].name
      BY <1>3, <2>1, <2>3, ZenonT(30)
    <3>3. QED
      BY <3>1, <3>2, ZenonT(30) DEF Overridden
  <2>4. QED
    BY <1>0, <2>1, <2>2, <2>3, ZenonT(30)
<1>5. ASSUME NEW e \in Overridden(LiveUpTo(lines, p), lines[m])
      PROVE  e \in LiveUpTo(lines, m)
  <2>1. CASE e = lines[m]
    BY <1>0, <1>2, <2>1, ZenonT(30) DEF LiveUpTo
  <2>2. CASE e \in LiveUpTo(lines, p) /\ e.ip # lines[m].ip /\ e.name # lines[m].name
    <3>1. PICK j \in 1 .. p : LiveAmong(lines, p, j) /\ e = lines[j]
      BY <2>2, ZenonT(30) DEF LiveUpTo
    <3>2. LiveAmong(lines, m, j) /\ j \in 1 .. m
      BY <1>0, <1>3, <2>2, <3>1, ZenonT(30)
    <3>3. QED
      BY <3>1, <3>2, ZenonT(30) DEF LiveUpTo
  <2>3. QED
    BY <1>5, <2>1, <2>2, ZenonT(30) DEF Overridden
<1>6. LiveUpTo(lines, m) = Overridden(LiveUpTo(lines, p), lines[m])
  BY <1>4, <1>5, ZenonT(30)
<1>7. QED
  BY <1>6, ZenonT(30) DEF m

\* A line that is not restored changes nothing.
LEMMA LiveSkip ==
    ASSUME NEW lines, NEW p \in Nat, ~ Restores(lines[p + 1])
    PROVE  LiveUpTo(lines, p + 1) = LiveUpTo(lines, p)
<1> DEFINE m == p + 1
<1>0. /\ \A i \in 1 .. p : i \in 1 .. m
      /\ \A i \in 1 .. m : i = m \/ i \in 1 .. p
  BY OneMorePlace, ZenonT(30)
<1>1. ~ Restores(lines[m])
  BY ZenonT(30)
<1> HIDE DEF m
<1>2. ~ LiveAmong(lines, m, m)
  BY <1>1, ZenonT(30) DEF LiveAmong
<1>3. \A j \in 1 .. p : LiveAmong(lines, m, j) <=> LiveAmong(lines, p, j)
  BY <1>0, <1>1, ZenonT(30) DEF LiveAmong
<1>4. LiveUpTo(lines, m) = LiveUpTo(lines, p)
  <2>1. \A e \in LiveUpTo(lines, m) : e \in LiveUpTo(lines, p)
    BY <1>0, <1>2, <1>3, ZenonT(30) DEF LiveUpTo
  <2>2. \A e \in LiveUpTo(lines, p) : e \in LiveUpTo(lines, m)
    BY <1>0, <1>3, ZenonT(30) DEF LiveUpTo
  <2>3. QED
    BY <2>1, <2>2, ZenonT(30)
<1>5. QED
  BY <1>4, ZenonT(30) DEF m

\* A line appended to a journal: what the replay makes of it.
LEMMA LiveAppended ==
    ASSUME NEW lines \in Seq(Line), NEW line \in Line
    PROVE  Live(Append(lines, line)) =
              IF Restores(line) THEN Overridden(Live(lines), line) ELSE Live(lines)
<1> DEFINE r == Append(lines, line)
           p == Len(lines)
<1>1. r \in Seq(Line) /\ Len(r) = p + 1 /\ (\A i \in 1 .. p : r[i] = lines[i]) /\ r[p + 1] = line
  BY SeqAppended
<1>2. p \in Nat
  BY SeqLength, ZenonT(30)
<1> HIDE DEF r, p
<1>3. Live(r) = LiveUpTo(r, p + 1)
  BY <1>1, LiveWhole
<1>4. Live(lines) = LiveUpTo(lines, p)
  BY LiveWhole, ZenonT(30) DEF p
<1>5. LiveUpTo(r, p) = LiveUpTo(lines, p)
  BY <1>1, <1>2, LiveSame, ZenonT(30)
<1>6. CASE Restores(line)
  <2>1. LiveUpTo(r, p + 1) = Overridden(LiveUpTo(r, p), r[p + 1])
    BY <1>1, <1>2, <1>6, LiveNext
  <2>2. QED
    BY <1>1, <1>3, <1>4, <1>5, <1>6, <2>1 DEF r
<1>7. CASE ~ Restores(line)
  <2>1. LiveUpTo(r, p + 1) = LiveUpTo(r, p)
    BY <1>1, <1>2, <1>7, LiveSkip
  <2>2. QED
    BY <1>3, <1>4, <1>5, <1>7, <2>1 DEF r
<1>8. QED
  BY <1>6, <1>7, ZenonT(30)

\* A rewritten journal gives back the mappings it was written from, when none
\* of their names is refused.
LEMMA LiveRewritten ==
    ASSUME NEW s, NEW x, InverseMaps(s, x), Unrestorable = {}
    PROVE  Live(s) = Range(s)
<1>1. s \in Seq(Entry) /\ Range(s) \subseteq Entry
      /\ \A d, e \in Range(s) : d.ip = e.ip \/ d.name = e.name => d = e
  BY InverseUnique, ZenonT(30) DEF InverseMaps
<1>2. \A i \in DOMAIN s : s[i] \in Range(s) /\ s[i] \in Entry
  BY <1>1, ZenonT(30) DEF Range
<1>3. \A e \in Entry : Restores(e)
  BY VirtualDnsAssumption, ZenonT(30) DEF Entry, Restores
<1>4. DOMAIN s = 1 .. Len(s) /\ Len(s) \in Nat
  BY <1>1, SeqLength, ZenonT(30)
<1>5. \A i, j \in DOMAIN s : i > j => i # j
  BY <1>4
<1>6. \A i, j \in DOMAIN s : s[i].ip = s[j].ip \/ s[i].name = s[j].name => i = j
  <2> SUFFICES ASSUME NEW i \in DOMAIN s, NEW j \in DOMAIN s, s[i].ip = s[j].ip \/ s[i].name = s[j].name
               PROVE  i = j
    BY ZenonT(30)
  <2>1. s[i].ip = s[j].ip
    BY <1>1, <1>2, ZenonT(30)
  <2>2. QED
    BY <2>1, ZenonT(30) DEF InverseMaps, Distinct
<1>7. \A j \in DOMAIN s : LiveAt(s, j)
  BY <1>2, <1>3, <1>5, <1>6, ZenonT(30) DEF LiveAt
<1>8. QED
  BY <1>7, ZenonT(30) DEF Live, Range

-----------------------------------------------------------------------------
(* What the journal is like after a write.                                 *)

\* Only a line that does not parse lacks its newline.
Torn(f) == f.open => f.lines # <<>> /\ f.lines[Len(f.lines)].name = Garbled

\* The replay of a journal of this pool gives back m, and its last line is whole.
Faithful(f, m) == f.head = "ok" => ~ f.open /\ Live(f.lines) = m

\* A write that believes itself done has made the journal faithful.
Honest(o, m) == Torn(o.file) /\ (~ o.dirty => Faithful(o.file, m))

\* A successful rewrite.
LEMMA RewrittenHonest ==
    ASSUME NEW s, NEW x, InverseMaps(s, x), Unrestorable = {}, NEW cursor
    PROVE  Honest(Rewritten(s, cursor), Range(s))
<1>1. Live(s) = Range(s)
  BY LiveRewritten, ZenonT(30)
<1> DEFINE o == Rewritten(s, cursor)
<1>2. o.dirty = FALSE /\ o.file.open = FALSE /\ o.file.lines = s
  BY ZenonT(30) DEF Rewritten
<1> HIDE DEF o
<1>3. Honest(o, Range(s))
  BY <1>1, <1>2, ZenonT(30) DEF Honest, Torn, Faithful
<1>4. QED
  BY <1>3, ZenonT(30) DEF o

\* A record at the end of a journal whose last line is whole.
LEMMA RecordWritten ==
    ASSUME NEW f \in Journal, ~ f.open, NEW line
    PROVE  /\ WithRecord(f, line).head = f.head
           /\ WithRecord(f, line).lines = Append(f.lines, line)
           /\ WithRecord(f, line).open = FALSE
<1>1. WithRecord(f, line) = [f EXCEPT !.lines = Append(f.lines, line)]
  BY ZenonT(30) DEF WithRecord
<1>2. f.open = FALSE
  BY ZenonT(30) DEF Journal
<1>3. QED
  BY <1>1, <1>2, ZenonT(30) DEF Journal

\* What is written into an unterminated line.
LEMMA RecordAbsorbed ==
    ASSUME NEW f \in Journal, f.open, NEW line
    PROVE  /\ WithRecord(f, line).head = f.head
           /\ WithRecord(f, line).lines = [f.lines EXCEPT ![Len(f.lines)] = GarbledLine(line.ip)]
           /\ WithRecord(f, line).open = FALSE
<1>1. WithRecord(f, line) = [f EXCEPT !.lines = [f.lines EXCEPT ![Len(f.lines)] = GarbledLine(line.ip)],
                                      !.open = FALSE]
  BY ZenonT(30) DEF WithRecord, Journal
<1>2. QED
  BY <1>1, ZenonT(30) DEF Journal

\* A write, complete or not, leaves at most a garbled line without newline.
LEMMA TornWrites ==
    ASSUME NEW f \in Journal, Torn(f), NEW line \in Entry
    PROVE  Torn(WithRecord(f, line)) /\ Torn(WithFragment(f, line))
<1>1. WithRecord(f, line).open = FALSE
  BY RecordWritten, RecordAbsorbed, ZenonT(30)
<1> DEFINE g == WithRecord(f, GarbledLine(line.ip))
<1>2. line.ip \in Pool /\ GarbledLine(line.ip) \in Line /\ GarbledLine(line.ip).name = Garbled
  BY ZenonT(30) DEF Entry, Line, GarbledLine
<1>3. f.lines \in Seq(Line) /\ Len(f.lines) \in Nat /\ DOMAIN f.lines = 1 .. Len(f.lines)
  BY SeqLength, ZenonT(30) DEF Journal
<1>4. g.lines # <<>> /\ g.lines[Len(g.lines)].name = Garbled
  <2>1. CASE f.open
    <3> DEFINE h == [f.lines EXCEPT ![Len(f.lines)] = GarbledLine(GarbledLine(line.ip).ip)]
               k == Len(f.lines)
    <3>1. g.lines = h
      BY <2>1, RecordAbsorbed, ZenonT(30)
    <3>2. GarbledLine(GarbledLine(line.ip).ip) \in Line /\ GarbledLine(GarbledLine(line.ip).ip).name = Garbled
      BY <1>2, ZenonT(30) DEF GarbledLine, Line
    <3>3. k \in Nat \ {0} /\ k \in DOMAIN f.lines
      BY <1>3, <2>1, SeqEmpty DEF Torn
    <3>4. h \in Seq(Line) /\ DOMAIN h = DOMAIN f.lines
      BY <1>3, <3>2, ExceptIsSeq, ZenonT(30)
    <3>5. h[k].name = Garbled
      BY <3>2, <3>3, ZenonT(30)
    <3> HIDE DEF h, k
    <3>6. Len(h) \in Nat /\ DOMAIN h = 1 .. Len(h)
      BY <3>4, SeqLength, ZenonT(30)
    <3>7. DOMAIN h = 1 .. k
      BY <1>3, <3>4, ZenonT(30) DEF k
    <3>8. Len(h) = k
      <4>1. k \in 1 .. Len(h)
        BY <3>3, <3>4, <3>6, ZenonT(30)
      <4>2. Len(h) \in 1 .. Len(h)
        BY <3>3, <3>6, <4>1
      <4>3. Len(h) \in 1 .. k
        BY <3>6, <3>7, <4>2, ZenonT(30)
      <4> DEFINE n == Len(h)
      <4>4. n \in Nat /\ k \in 1 .. n /\ n \in 1 .. k
        BY <3>6, <4>1, <4>3, ZenonT(30)
      <4> HIDE DEF n
      <4>5. n = k
        BY <3>3, <4>4
      <4>6. QED
        BY <4>5, ZenonT(30) DEF n
    <3>9. h # <<>>
      BY <3>3, <3>8, SeqEmpty
    <3>10. QED
      BY <3>1, <3>5, <3>8, <3>9, ZenonT(30)
  <2>2. CASE ~ f.open
    <3> DEFINE h == Append(f.lines, GarbledLine(line.ip))
    <3>1. g.lines = h
      BY <2>2, RecordWritten, ZenonT(30)
    <3>2. h \in Seq(Line) /\ Len(h) = Len(f.lines) + 1 /\ h[Len(f.lines) + 1] = GarbledLine(line.ip)
      BY <1>2, <1>3, SeqAppended
    <3> HIDE DEF h
    <3>3. h # <<>>
      BY <1>3, <3>2, SeqEmpty
    <3>4. QED
      BY <1>2, <3>1, <3>2, <3>3, ZenonT(30)
  <2>3. QED
    BY <2>1, <2>2, ZenonT(30)
<1>5. g \in Journal
  <2>1. [ip |-> line.ip, name |-> Garbled] = GarbledLine(line.ip)
    BY ZenonT(30) DEF GarbledLine
  <2>2. CASE f.open
    <3>1. GarbledLine(GarbledLine(line.ip).ip) \in Line
      BY <1>2, ZenonT(30) DEF GarbledLine, Line
    <3>2. [f.lines EXCEPT ![Len(f.lines)] = GarbledLine(GarbledLine(line.ip).ip)] \in Seq(Line)
      BY <1>3, <3>1, ExceptIsSeq, ZenonT(30)
    <3>3. QED
      BY <2>2, <3>2, ZenonT(30) DEF WithRecord, Journal
  <2>3. CASE ~ f.open
    <3>1. Append(f.lines, GarbledLine(line.ip)) \in Seq(Line)
      BY <1>2, <1>3, SeqAppended, ZenonT(30)
    <3>2. QED
      BY <2>3, <3>1, ZenonT(30) DEF WithRecord, Journal
  <2>4. QED
    BY <2>2, <2>3, ZenonT(30)
<1> HIDE DEF g
<1>6. WithFragment(f, line).lines = g.lines
  <2>1. [g EXCEPT !.open = TRUE].lines = g.lines
    BY <1>5, ZenonT(30) DEF Journal
  <2>2. QED
    BY <2>1, ZenonT(30) DEF WithFragment, g
<1>7. QED
  BY <1>1, <1>4, <1>6, ZenonT(30) DEF Torn

\* What a failed rewrite leaves.
LEMMA TornErrors ==
    ASSUME NEW f \in Journal, Torn(f), NEW g \in RewriteErrors(f)
    PROVE  g \in Journal /\ Torn(g)
<1>1. g \in Journal
  BY RewriteErrorsType, ZenonT(30)
<1>2. g = f \/ g = NoJournal
  BY ZenonT(30) DEF RewriteErrors
<1>3. NoJournal.open = FALSE
  BY ZenonT(30) DEF NoJournal
<1>4. QED
  BY <1>1, <1>2, <1>3, ZenonT(30) DEF Torn

\* What the steps of a repair leave: every outcome is dirty or a rewrite.
LEMMA RepairedHonest ==
    ASSUME NEW s, NEW x, InverseMaps(s, x), Unrestorable = {}, NEW cursor,
           NEW f \in Journal, Torn(f), NEW r, NEW o \in Repaired(s, cursor, f, r)
    PROVE  Honest(o, Range(s))
<1>1. CASE o = Rewritten(s, cursor)
  BY <1>1, RewrittenHonest, ZenonT(30)
<1>2. ASSUME NEW g \in RewriteErrors(f), o = [file |-> g, dirty |-> TRUE, records |-> r]
      PROVE  Honest(o, Range(s))
  <2>1. Torn(g)
    BY TornErrors, ZenonT(30)
  <2>2. o.file = g /\ o.dirty = TRUE
    BY <1>2, ZenonT(30)
  <2>3. QED
    BY <2>1, <2>2, ZenonT(30) DEF Honest
<1>3. QED
  BY <1>1, <1>2, ZenonT(30) DEF Repaired

\* persist_mapping: a journal that was faithful to m, or that the process knows
\* to be in need of a rewrite, becomes faithful to m with the new entry in it or
\* is marked dirty, whatever write fails.
LEMMA PersistHonest ==
    ASSUME NEW s, NEW x, InverseMaps(s, x), Unrestorable = {}, NEW cursor,
           NEW entry \in Entry, NEW m, Range(s) = Overridden(m, entry),
           file \in Journal, Torn(file), ~ NeedsRewrite => Faithful(file, m),
           "unterminated" \notin faults, NEW o \in PersistMapping(s, cursor, entry)
    PROVE  Honest(o, Range(s))
<1> DEFINE old == cache.journal_records
           appended == WithRecord(file, entry)
           D == [file |-> appended, dirty |-> FALSE, records |-> old + 1]
           Repairs == {Repaired(s, cursor, f, old) : f \in RewriteErrors(file)}
           Compactions == {Repaired(s, cursor, f, old + 1) : f \in RewriteErrors(appended)}
           Retries == {Repaired(s, cursor, f, old) : f \in AppendErrors(file, entry)}
<1>1. Honest(Rewritten(s, cursor), Range(s))
  BY RewrittenHonest, ZenonT(30)
<1>2. appended \in Journal /\ Torn(appended)
  BY JournalWrites, TornWrites, ZenonT(30)
<1>3. \A f \in RewriteErrors(file) : f \in Journal /\ Torn(f)
  BY TornErrors, ZenonT(30)
<1>4. \A f \in AppendErrors(file, entry) : f \in Journal /\ Torn(f)
  <2>1. \A f \in AppendErrors(file, entry) : f = file \/ f = WithFragment(file, entry)
    BY ZenonT(30) DEF AppendErrors
  <2>2. WithFragment(file, entry) \in Journal /\ Torn(WithFragment(file, entry))
    BY JournalWrites, TornWrites, ZenonT(30)
  <2>3. QED
    BY <2>1, <2>2, ZenonT(30)
<1>5. ~ NeedsRewrite => Honest(D, Range(s))
  <2> SUFFICES ASSUME ~ NeedsRewrite PROVE Honest(D, Range(s))
    BY ZenonT(30)
  <2>1. D.file = appended /\ D.dirty = FALSE
    BY ZenonT(30)
  <2>2. Faithful(appended, Range(s))
    <3> SUFFICES ASSUME appended.head = "ok" PROVE ~ appended.open /\ Live(appended.lines) = Range(s)
      BY ZenonT(30) DEF Faithful
    <3>1. appended.head = file.head
      BY RecordWritten, RecordAbsorbed, ZenonT(30)
    <3>2. ~ file.open /\ Live(file.lines) = m
      BY <3>1, ZenonT(30) DEF Faithful
    <3>3. appended.lines = Append(file.lines, entry) /\ appended.open = FALSE
      BY <3>2, RecordWritten, ZenonT(30)
    <3>4. file.lines \in Seq(Line) /\ entry \in Line /\ Restores(entry)
      BY VirtualDnsAssumption, ZenonT(30) DEF Journal, Entry, Line, Restores
    <3>5. Live(Append(file.lines, entry)) = Overridden(Live(file.lines), entry)
      BY <3>4, LiveAppended
    <3>6. QED
      BY <3>2, <3>3, <3>5, ZenonT(30)
  <2>3. QED
    BY <1>2, <2>1, <2>2, ZenonT(30) DEF Honest
<1>6. PersistMapping(s, cursor, entry) =
         IF NeedsRewrite
         THEN {Rewritten(s, cursor)} \cup UNION Repairs
         ELSE (IF ShouldCompact(old + 1, Len(s))
               THEN {Rewritten(s, cursor)} \cup UNION Compactions ELSE {D}) \cup UNION Retries
  BY Zenon DEF PersistMapping
<1>7. \A f \in Journal : \A r : Torn(f) => \A u \in Repaired(s, cursor, f, r) : Honest(u, Range(s))
  BY RepairedHonest, ZenonT(30)
<1>8. \A R \in Repairs : \A u \in R : Honest(u, Range(s))
  BY <1>3, <1>7, ZenonT(30)
<1>9. \A R \in Retries : \A u \in R : Honest(u, Range(s))
  BY <1>4, <1>7, ZenonT(30)
<1> HIDE DEF D
<1>10. \A R \in Compactions : \A u \in R : Honest(u, Range(s))
  <2> HIDE DEF appended
  <2>1. \A f \in RewriteErrors(appended) : f \in Journal /\ Torn(f)
    BY <1>2, TornErrors, ZenonT(30)
  <2>2. QED
    BY <1>7, <2>1, ZenonT(30)
<1> HIDE DEF Repairs, Retries, Compactions, old
<1>11. CASE NeedsRewrite
  <2>1. o \in {Rewritten(s, cursor)} \cup UNION Repairs
    BY <1>6, <1>11, ZenonT(30)
  <2>2. QED
    BY <2>1, <1>1, <1>8, ZenonT(30)
<1>12. CASE ~ NeedsRewrite
  <2>1. o = Rewritten(s, cursor) \/ o \in UNION Compactions \/ o = D \/ o \in UNION Retries
    <3>1. o \in (IF ShouldCompact(old + 1, Len(s))
                 THEN {Rewritten(s, cursor)} \cup UNION Compactions ELSE {D}) \cup UNION Retries
      BY <1>6, <1>12, ZenonT(30)
    <3>2. QED
      BY <3>1, ZenonT(30)
  <2>2. QED
    BY <2>1, <1>1, <1>5, <1>9, <1>10, <1>12, ZenonT(30)
<1>13. QED
  BY <1>11, <1>12, ZenonT(30)

\* retry_dirty_persistence, after a hit.
LEMMA RetryHonest ==
    ASSUME NEW s, NEW x, InverseMaps(s, x), Unrestorable = {}, NEW cursor,
           file \in Journal, Torn(file), ~ cache.dirty => Faithful(file, Range(s)),
           NEW o \in RetryDirty(s, cursor)
    PROVE  Honest(o, Range(s))
<1>1. CASE cache.dirty
  BY <1>1, RepairedHonest, ZenonT(30) DEF RetryDirty
<1>2. CASE ~ cache.dirty
  <2>1. o = [file |-> file, dirty |-> FALSE, records |-> cache.journal_records]
    BY <1>2, ZenonT(30) DEF RetryDirty
  <2>2. o.file = file /\ o.dirty = FALSE
    BY <2>1, ZenonT(30)
  <2>3. QED
    BY <1>2, <2>2, ZenonT(30) DEF Honest
<1>3. QED
  BY <1>1, <1>2, ZenonT(30)

\* Where the environment does nothing, every write succeeds.
LEMMA CalmWrites ==
    ASSUME faults = {}, ~ cache.dirty, NEW s, NEW cursor, NEW entry, file \in Journal,
           ~ NeedsRewrite => file.head = "ok"
    PROVE  /\ \A o \in PersistMapping(s, cursor, entry) : ~ o.dirty /\ o.file.head = "ok"
           /\ \A o \in RetryDirty(s, cursor) : ~ o.dirty /\ o.file = file
<1>1. RewriteErrors(file) = {} /\ RewriteErrors(WithRecord(file, entry)) = {} /\ AppendErrors(file, entry) = {}
  BY ZenonT(30) DEF RewriteErrors, AppendErrors
<1>2. Rewritten(s, cursor).dirty = FALSE /\ Rewritten(s, cursor).file.head = "ok"
  BY ZenonT(30) DEF Rewritten
<1>3. WithRecord(file, entry).head = file.head
  BY RecordWritten, RecordAbsorbed, ZenonT(30)
<1> DEFINE D == [file |-> WithRecord(file, entry), dirty |-> FALSE, records |-> cache.journal_records + 1]
<1>4. D.dirty = FALSE /\ D.file = WithRecord(file, entry)
  BY ZenonT(30)
<1>5. \A o \in PersistMapping(s, cursor, entry) : o = Rewritten(s, cursor) \/ (~ NeedsRewrite /\ o = D)
  BY <1>1, ZenonT(30) DEF PersistMapping
<1> HIDE DEF D
<1>6. \A o \in PersistMapping(s, cursor, entry) : ~ o.dirty /\ o.file.head = "ok"
  BY <1>2, <1>3, <1>4, <1>5, ZenonT(30)
<1>7. \A o \in RetryDirty(s, cursor) : ~ o.dirty /\ o.file = file
  <2> DEFINE u == [file |-> file, dirty |-> FALSE, records |-> cache.journal_records]
  <2>1. \A o \in RetryDirty(s, cursor) : o = u
    BY ZenonT(30) DEF RetryDirty
  <2>2. ~ u.dirty /\ u.file = file
    BY ZenonT(30)
  <2> HIDE DEF u
  <2>3. QED
    BY <2>1, <2>2, ZenonT(30)
<1>8. QED
  BY <1>6, <1>7, ZenonT(30)

-----------------------------------------------------------------------------
(* The replay.                                                             *)

\* While the journal is replayed, the cache holds what the lines read so far
\* leave behind; a line that does not parse has asked for a repair; and nothing
\* has been answered yet.
ReplayInv ==
    phase = "loading" =>
        /\ load.pos <= Len(file.lines)
        /\ Mapped = LiveUpTo(file.lines, load.pos)
        /\ load.repair \/ \A k \in DOMAIN file.lines : file.lines[k].name # Garbled
        /\ file.head = "ok" /\ ~ cache.dirty /\ last = NoIp

\* The journal is replayed by enable_persistence only, and nothing else happens
\* meanwhile.
LEMMA LoadingSteps ==
    ASSUME [Next]_vars, phase' = "loading"
    PROVE  EnableLoaded \/ RestoreMapping \/ UNCHANGED vars
<1>1. CASE UNCHANGED vars
  BY <1>1, ZenonT(30)
<1>2. ASSUME NEW n \in Names, Hit(n) PROVE FALSE
  BY <1>2, ZenonT(30) DEF Hit
<1>3. ASSUME NEW n \in Names, Allocate(n) \/ Recycle(n) PROVE FALSE
  BY <1>3, ZenonT(30) DEF Allocate, Recycle, Allocates, Recycles, Persists
<1>4. ~ NewProcess
  BY ZenonT(30) DEF NewProcess
<1>5. ASSUME NEW ip \in Pool, ResolveIp(ip) PROVE FALSE
  BY <1>5, ZenonT(30) DEF ResolveIp
<1>6. \A s, x, c, r : ~ FirstRewrite(s, x, c, r)
  BY <1>4, ZenonT(30) DEF FirstRewrite
<1>7. ~ EnableMissing /\ ~ EnableIncompatible
  BY <1>6, ZenonT(30) DEF EnableMissing, EnableIncompatible
<1>8. ~ FinishLoad
  BY <1>6, ZenonT(30) DEF FinishLoad
<1>9. ~ JournalRemoved
  BY ZenonT(30) DEF JournalRemoved
<1>10. ~ Restart /\ ~ RestartInReplace /\ \A n \in Names : ~ RestartInAppend(n)
  BY <1>4, ZenonT(30) DEF Restart, RestartInReplace, RestartInAppend
<1>11. QED
  BY <1>1, <1>2, <1>3, <1>5, <1>7, <1>8, <1>9, <1>10, ZenonT(30) DEF Next, Step

\* Every step keeps the invariant of the replay.
LEMMA ReplayStep == MapsInv /\ ReplayInv /\ [Next]_vars => ReplayInv'
<1> SUFFICES ASSUME MapsInv, ReplayInv, [Next]_vars, phase' = "loading"
             PROVE  /\ load'.pos <= Len(file'.lines)
                    /\ Mapped' = LiveUpTo(file'.lines, load'.pos)
                    /\ load'.repair \/ \A k \in DOMAIN file'.lines : file'.lines[k].name # Garbled
                    /\ file'.head = "ok" /\ ~ cache'.dirty /\ last' = NoIp
  BY ZenonT(30) DEF ReplayInv
<1>0. /\ file.lines \in Seq(Line) /\ Len(file.lines) \in Nat
      /\ DOMAIN file.lines = 1 .. Len(file.lines)
      /\ InverseMaps(lru_cache, name_to_ip) /\ load.pos \in Nat /\ load \in [pos : Nat, repair : BOOLEAN]
  BY SeqLength, ZenonT(30) DEF MapsInv, RestOK, Journal
<1>1. CASE EnableLoaded
  <2>1. /\ lru_cache' = <<>> /\ file' = file /\ last' = NoIp /\ file.head = "ok"
        /\ cache'.dirty = FALSE /\ load'.pos = 0
    BY <1>1, ZenonT(30) DEF EnableLoaded
  <2>2. load'.repair = \E k \in DOMAIN file.lines : file.lines[k].name = Garbled
    BY <1>1, ZenonT(30) DEF EnableLoaded
  <2>3. 0 <= Len(file.lines)
    BY <1>0
  <2>4. Range(<<>>) = {}
    <3>1. DOMAIN <<>> = {}
      BY SeqEmpty, SeqLength
    <3>2. QED
      BY <3>1, ZenonT(30) DEF Range
  <2>5. Mapped' = {}
    BY <2>1, <2>4, ZenonT(30) DEF Mapped
  <2>6. LiveUpTo(file.lines, 0) = {}
    BY LiveNone, ZenonT(30)
  <2>7. load'.repair \/ \A k \in DOMAIN file'.lines : file'.lines[k].name # Garbled
    BY <2>1, <2>2, ZenonT(30)
  <2>8. QED
    BY <2>1, <2>3, <2>5, <2>6, <2>7, ZenonT(30)
<1>2. CASE RestoreMapping
  <2> DEFINE p == load.pos
             line == file.lines[p + 1]
  <2>1. /\ phase = "loading" /\ p < Len(file.lines) /\ file' = file /\ last' = last /\ cache' = cache
        /\ load' = [pos |-> p + 1, repair |-> load.repair \/ ~ Restores(line)]
    BY <1>2, ZenonT(30) DEF RestoreMapping
  <2>2. /\ Mapped = LiveUpTo(file.lines, p)
        /\ load.repair \/ \A k \in DOMAIN file.lines : file.lines[k].name # Garbled
        /\ file.head = "ok" /\ ~ cache.dirty /\ last = NoIp
    BY <2>1, ZenonT(30) DEF ReplayInv
  <2>3. p \in Nat /\ load'.pos = p + 1 /\ load'.repair = (load.repair \/ ~ Restores(line))
    BY <1>0, <2>1, ZenonT(30)
  <2>4. /\ Restores(line) => lru_cache' = RestoredCache(lru_cache, name_to_ip, line)
        /\ ~ Restores(line) => lru_cache' = lru_cache
    BY <1>2, ZenonT(30) DEF RestoreMapping
  <2> HIDE DEF p
  <2>5. p + 1 <= Len(file.lines) /\ p + 1 \in 1 .. Len(file.lines)
    BY <1>0, <2>1, <2>3
  <2>6. line \in Line
    BY <1>0, <2>5, SeqElement, ZenonT(30)
  <2>7. Mapped' = LiveUpTo(file.lines, p + 1)
    <3>1. CASE Restores(line)
      <4>1. line \in Entry
        BY <2>6, <3>1, ZenonT(30) DEF Restores, Line, Entry
      <4>2. LiveUpTo(file.lines, p + 1) = Overridden(LiveUpTo(file.lines, p), line)
        BY <2>3, <3>1, LiveNext, ZenonT(30)
      <4> HIDE DEF line
      <4>3. Range(RestoredCache(lru_cache, name_to_ip, line)) = Overridden(Range(lru_cache), line)
        BY <1>0, <4>1, InverseRestore, ZenonT(30) DEF Overridden
      <4>4. QED
        BY <2>2, <2>4, <3>1, <4>2, <4>3, ZenonT(30) DEF Mapped
    <3>2. CASE ~ Restores(line)
      <4>1. LiveUpTo(file.lines, p + 1) = LiveUpTo(file.lines, p)
        BY <2>3, <3>2, LiveSkip, ZenonT(30)
      <4>2. QED
        BY <2>2, <2>4, <3>2, <4>1, ZenonT(30) DEF Mapped
    <3>3. QED
      BY <3>1, <3>2, ZenonT(30)
  <2> HIDE DEF line
  <2>8. load'.repair \/ \A k \in DOMAIN file'.lines : file'.lines[k].name # Garbled
    BY <2>1, <2>2, <2>3, ZenonT(30)
  <2>9. QED
    BY <2>1, <2>2, <2>3, <2>5, <2>7, <2>8, ZenonT(30)
<1>3. CASE UNCHANGED vars
  <2>1. /\ lru_cache' = lru_cache /\ load' = load /\ file' = file /\ cache' = cache /\ last' = last
        /\ phase = "loading"
    BY <1>3, ZenonT(30) DEF vars
  <2>2. QED
    BY <2>1, ZenonT(30) DEF ReplayInv, Mapped
<1>4. QED
  BY <1>1, <1>2, <1>3, LoadingSteps, ZenonT(30)

\* The replay invariant always holds.
LEMMA ReplayAlways == Spec => [](MapsInv /\ ReplayInv)
<1>1. Init => ReplayInv
  BY ZenonT(30) DEF Init, ReplayInv
<1>2. QED
  BY <1>1, ReplayStep, MapsAlways, PTL DEF Spec

\* A replay that has read the whole journal holds exactly the mappings that no
\* later record overrides: for every pool and every set of names, whatever the
\* journal went through, also with names that restore_mapping refuses.
THEOREM ReplayIsExact == Spec => []ReplayExact
<1>1. ASSUME MapsInv, ReplayInv PROVE ReplayExact
  <2>1. file.lines \in Seq(Line)
    BY <1>1, ZenonT(30) DEF MapsInv, RestOK, Journal
  <2>2. Live(file.lines) = LiveUpTo(file.lines, Len(file.lines))
    BY <2>1, LiveWhole, ZenonT(30)
  <2>3. QED
    BY <1>1, <2>2, ZenonT(30) DEF ReplayInv, ReplayExact
<1>2. QED
  BY <1>1, ReplayAlways, PTL

-----------------------------------------------------------------------------
(* The address in use.                                                     *)

\* The address answered or resolved last is the most recently used one.
LastInv == last # NoIp => lru_cache # <<>> /\ lru_cache[Len(lru_cache)].ip = last

\* What was appended is the last entry.
LEMMA AppendedLast ==
    ASSUME NEW S, NEW s \in Seq(S), NEW e \in S
    PROVE  Append(s, e) # <<>> /\ Append(s, e)[Len(Append(s, e))] = e
<1>1. Len(s) \in Nat
  BY SeqLength, ZenonT(30)
<1>2. Append(s, e) \in Seq(S) /\ Len(Append(s, e)) = Len(s) + 1 /\ Append(s, e)[Len(s) + 1] = e
  BY SeqAppended
<1> DEFINE r == Append(s, e)
           n == Len(s)
<1>3. n \in Nat /\ Len(r) = n + 1 /\ r[n + 1] = e
  BY <1>1, <1>2, ZenonT(30)
<1> HIDE DEF r, n
<1>4. n + 1 # 0
  BY <1>3
<1>5. r # <<>>
  BY <1>3, <1>4, SeqEmpty, ZenonT(30)
<1>6. r[Len(r)] = e
  BY <1>3, ZenonT(30)
<1>7. QED
  BY <1>5, <1>6, ZenonT(30) DEF r

\* touch_ip and resolve_ip make an entry the most recently used one.
LEMMA TouchedLast ==
    ASSUME NEW S, NEW s \in Seq(S), NEW ip, NEW i \in DOMAIN s, s[i].ip = ip
    PROVE  Touch(s, ip) # <<>> /\ Touch(s, ip)[Len(Touch(s, ip))].ip = ip
<1> DEFINE k == CHOOSE j \in DOMAIN s : s[j].ip = ip
           r == TakenOut(s, k)
<1>1. k \in DOMAIN s /\ s[k].ip = ip
  BY ZenonT(30)
<1>2. Touch(s, ip) = Append(r, s[k])
  BY ZenonT(30) DEF Touch
<1> HIDE DEF k
<1>3. r \in Seq(S)
  BY <1>1, TakenOutElements, ZenonT(30)
<1>4. s[k] \in S
  BY <1>1, ToSetMember, ZenonT(30)
<1> HIDE DEF r
<1>5. Append(r, s[k]) # <<>> /\ Append(r, s[k])[Len(Append(r, s[k]))] = s[k]
  BY <1>3, <1>4, AppendedLast, ZenonT(30)
<1>6. QED
  BY <1>1, <1>2, <1>5, ZenonT(30)

\* The address of a name in the index is in the cache.
LEMMA IndexedIsCached ==
    ASSUME NEW s, NEW x, InverseMaps(s, x), NEW n \in Names, x[n] # NoIp
    PROVE  \E i \in DOMAIN s : s[i].ip = x[n]
<1> DEFINE ip == x[n]
<1>1. ip \in Pool
  BY ZenonT(30) DEF InverseMaps
<1>2. [ip |-> ip, name |-> n] \in Range(s)
  BY <1>1, ZenonT(30) DEF InverseMaps
<1> HIDE DEF ip
<1>3. PICK i \in DOMAIN s : s[i] = [ip |-> ip, name |-> n]
  BY <1>2, ZenonT(30) DEF Range
<1>4. s[i].ip = ip
  <2>1. [ip |-> ip, name |-> n].ip = ip
    BY ZenonT(30)
  <2>2. QED
    BY <1>3, <2>1
<1>5. QED
  BY <1>4, ZenonT(30) DEF ip

\* What the steps do to the cache and to the address in use.
LEMMA LastSteps ==
    ASSUME MapsInv, ReplayInv, Next
    PROVE  \/ \E ip \in Pool : /\ \E i \in DOMAIN lru_cache : lru_cache[i].ip = ip
                               /\ lru_cache' = Touch(lru_cache, ip) /\ last' = ip
           \/ \E n \in Names, ip \in Pool : Allocates(n, ip) \/ Recycles(n, ip)
           \/ last' = NoIp
           \/ lru_cache' = lru_cache /\ last' = last
<1>0. InverseMaps(lru_cache, name_to_ip)
  BY ZenonT(30) DEF MapsInv
<1>1. ASSUME NEW n \in Names, Hit(n)
      PROVE  \E ip \in Pool : /\ \E i \in DOMAIN lru_cache : lru_cache[i].ip = ip
                              /\ lru_cache' = Touch(lru_cache, ip) /\ last' = ip
  <2>1. name_to_ip[n] # NoIp /\ lru_cache' = Touch(lru_cache, name_to_ip[n]) /\ last' = name_to_ip[n]
    BY <1>1, ZenonT(30) DEF Hit
  <2>2. name_to_ip[n] \in Pool
    BY <1>0, <2>1, ZenonT(30) DEF InverseMaps
  <2>3. \E i \in DOMAIN lru_cache : lru_cache[i].ip = name_to_ip[n]
    BY <1>0, <2>1, IndexedIsCached
  <2>4. QED
    BY <2>1, <2>2, <2>3, ZenonT(30)
<1>2. ASSUME NEW n \in Names, Allocate(n) \/ Recycle(n)
      PROVE  \E m \in Names, ip \in Pool : Allocates(m, ip) \/ Recycles(m, ip)
  BY <1>2, ZenonT(30) DEF Allocate, Recycle
<1>3. ASSUME NEW ip \in Pool, ResolveIp(ip)
      PROVE  /\ \E i \in DOMAIN lru_cache : lru_cache[i].ip = ip
             /\ lru_cache' = Touch(lru_cache, ip) /\ last' = ip
  BY <1>3, ZenonT(30) DEF ResolveIp, MappedIps
<1>4. NewProcess => last' = NoIp
  BY ZenonT(30) DEF NewProcess
<1>5. ASSUME NEW s, NEW x, NEW c, NEW r, FirstRewrite(s, x, c, r) PROVE last' = NoIp
  BY <1>4, <1>5, ZenonT(30) DEF FirstRewrite
<1>6. CASE EnableMissing \/ EnableIncompatible
  BY <1>5, <1>6, ZenonT(30) DEF EnableMissing, EnableIncompatible
<1>7. CASE EnableLoaded
  BY <1>7, ZenonT(30) DEF EnableLoaded
<1>8. CASE RestoreMapping
  BY <1>8, ZenonT(30) DEF RestoreMapping, ReplayInv
<1>9. CASE FinishLoad
  BY <1>5, <1>9, ZenonT(30) DEF FinishLoad, memory
<1>10. CASE JournalRemoved
  BY <1>10, ZenonT(30) DEF JournalRemoved, memory
<1>11. ASSUME Restart \/ RestartInReplace \/ \E n \in Names : RestartInAppend(n) PROVE last' = NoIp
  BY <1>4, <1>11, ZenonT(30) DEF Restart, RestartInReplace, RestartInAppend
<1>12. QED
  BY <1>1, <1>2, <1>3, <1>6, <1>7, <1>8, <1>9, <1>10, <1>11, ZenonT(30) DEF Next, Step

\* Every step keeps the address in use the most recently used one.
LEMMA LastStep == MapsInv /\ ReplayInv /\ LastInv /\ [Next]_vars => LastInv'
<1> SUFFICES ASSUME MapsInv, ReplayInv, LastInv, [Next]_vars, last' # NoIp
             PROVE  lru_cache' # <<>> /\ lru_cache'[Len(lru_cache')].ip = last'
  BY ZenonT(30) DEF LastInv
<1>0. InverseMaps(lru_cache, name_to_ip) /\ lru_cache \in Seq(Entry) /\ Distinct(lru_cache)
  BY ZenonT(30) DEF MapsInv, InverseMaps
<1>1. ASSUME NEW ip \in Pool, NEW i \in DOMAIN lru_cache, lru_cache[i].ip = ip,
             lru_cache' = Touch(lru_cache, ip), last' = ip
      PROVE  lru_cache' # <<>> /\ lru_cache'[Len(lru_cache')].ip = last'
  <2>1. Touch(lru_cache, ip) # <<>> /\ Touch(lru_cache, ip)[Len(Touch(lru_cache, ip))].ip = ip
    BY <1>0, <1>1, TouchedLast, ZenonT(30)
  <2>2. QED
    BY <1>1, <2>1, ZenonT(30)
<1>2. ASSUME NEW s \in Seq(Entry), NEW n \in Names, NEW ip \in Pool,
             lru_cache' = Append(s, [ip |-> ip, name |-> n]), last' = ip
      PROVE  lru_cache' # <<>> /\ lru_cache'[Len(lru_cache')].ip = last'
  <2> DEFINE e == [ip |-> ip, name |-> n]
  <2>1. e \in Entry /\ e.ip = ip
    BY ZenonT(30) DEF Entry
  <2>2. lru_cache' = Append(s, e)
    BY <1>2, ZenonT(30)
  <2> HIDE DEF e
  <2>3. Append(s, e) # <<>> /\ Append(s, e)[Len(Append(s, e))] = e
    BY <2>1, AppendedLast, ZenonT(30)
  <2>4. QED
    BY <1>2, <2>1, <2>2, <2>3, ZenonT(30)
<1>3. ASSUME NEW n \in Names, NEW ip \in Pool, Allocates(n, ip)
      PROVE  lru_cache' # <<>> /\ lru_cache'[Len(lru_cache')].ip = last'
  BY <1>0, <1>2, <1>3, ZenonT(30) DEF Allocates
<1>4. ASSUME NEW n \in Names, NEW ip \in Pool, Recycles(n, ip)
      PROVE  lru_cache' # <<>> /\ lru_cache'[Len(lru_cache')].ip = last'
  <2>1. lru_cache # <<>> /\ lru_cache' = Append(Tail(lru_cache), [ip |-> ip, name |-> n]) /\ last' = ip
    BY <1>4, ZenonT(30) DEF Recycles
  <2>2. Tail(lru_cache) \in Seq(Entry)
    BY <1>0, <2>1, TailDistinct, ZenonT(30)
  <2>3. QED
    BY <1>2, <2>1, <2>2, ZenonT(30)
<1>5. CASE lru_cache' = lru_cache /\ last' = last
  BY <1>5, ZenonT(30) DEF LastInv
<1>6. CASE UNCHANGED vars
  BY <1>5, <1>6, ZenonT(30) DEF vars
<1>7. CASE Next
  BY <1>1, <1>3, <1>4, <1>5, <1>7, LastSteps, ZenonT(30)
<1>8. QED
  BY <1>6, <1>7, ZenonT(30)

\* A cache without vacant address in a pool of two or more has two entries or
\* more, and the last one has not the address of the first.
LEMMA FullPool ==
    ASSUME lru_cache \in Seq(Entry), Distinct(lru_cache), Vacant = {}, PoolSize > 1, lru_cache # <<>>
    PROVE  lru_cache[Len(lru_cache)].ip # Head(lru_cache).ip
<1> DEFINE n == Len(lru_cache)
<1>1. n \in Nat \ {0} /\ DOMAIN lru_cache = 1 .. n
  BY SeqLength, SeqEmpty, ZenonT(30)
<1>2. 0 \in Pool /\ 1 \in Pool
  BY VirtualDnsAssumption DEF Pool
<1>3. 0 \in MappedIps /\ 1 \in MappedIps
  BY <1>2, ZenonT(30) DEF Vacant
<1>4. PICK i \in DOMAIN lru_cache, j \in DOMAIN lru_cache : lru_cache[i].ip = 0 /\ lru_cache[j].ip = 1
  BY <1>3, ZenonT(30) DEF MappedIps
<1>5. Head(lru_cache) = lru_cache[1]
  BY <1>1, SeqTail
<1> HIDE DEF n
<1>6. i # j
  BY <1>4
<1>7. n # 1 /\ n \in 1 .. n /\ 1 \in 1 .. n
  BY <1>1, <1>6
<1>8. lru_cache[n].ip # lru_cache[1].ip
  BY <1>1, <1>7, ZenonT(30) DEF Distinct
<1>9. QED
  BY <1>5, <1>8, ZenonT(30) DEF n

\* The invariants of the replay and of the address in use always hold.
LEMMA LastAlways == Spec => [](MapsInv /\ ReplayInv /\ LastInv)
<1>1. Init => LastInv
  BY ZenonT(30) DEF Init, LastInv
<1>2. QED
  BY <1>1, LastStep, ReplayAlways, PTL DEF Spec

\* The address that was answered or resolved last keeps its name through the
\* next step of the process, unless the process ends or reloads its journal: the
\* entry touched last is never the one a full pool of two or more recycles.
THEOREM ActiveIsKept == Spec => ActiveKept
<1> DEFINE kept == \E e \in Mapped : e.ip = last /\ e \in Mapped'
           P == phase = "up" /\ phase' = "up" /\ last \in MappedIps /\ PoolSize > 1 => kept \/ last' = NoIp
<1>1. ASSUME MapsInv, ReplayInv, LastInv, Next PROVE P
  <2> SUFFICES ASSUME phase = "up", last \in MappedIps, PoolSize > 1, last' # NoIp PROVE kept
    BY ZenonT(30)
  <2>0. InverseMaps(lru_cache, name_to_ip) /\ lru_cache \in Seq(Entry) /\ Distinct(lru_cache)
    BY <1>1, ZenonT(30) DEF MapsInv, InverseMaps
  <2>1. PICK e \in Mapped : e.ip = last
    BY ZenonT(30) DEF MappedIps, Mapped, Range
  <2>2. last # NoIp
    <3>1. e \in Entry
      BY <2>0, ToSetMember, ZenonT(30) DEF Mapped
    <3>2. QED
      BY <2>1, <3>1, VirtualDnsAssumption, ZenonT(30) DEF Entry
  <2>3. CASE \E ip \in Pool : lru_cache' = Touch(lru_cache, ip)
    BY <2>0, <2>1, <2>3, InverseTouch, ZenonT(30) DEF Mapped
  <2>4. ASSUME NEW n \in Names, NEW ip \in Pool, Allocates(n, ip) PROVE kept
    <3>1. \A f \in Range(lru_cache) : f.ip # ip
      BY <2>0, <2>4, VacantMeans, ZenonT(30) DEF Allocates, Mapped
    <3>2. Range(lru_cache') = Range(lru_cache) \cup {[ip |-> ip, name |-> n]}
      BY <2>0, <2>4, <3>1, InverseAdd, ZenonT(30) DEF Allocates
    <3>3. QED
      BY <2>1, <3>2, ZenonT(30) DEF Mapped
  <2>5. ASSUME NEW n \in Names, NEW ip \in Pool, Recycles(n, ip) PROVE kept
    <3>1. lru_cache # <<>> /\ Vacant = {}
      BY <2>5, ZenonT(30) DEF Recycles
    <3>2. Range(lru_cache') = (Range(lru_cache) \ {Head(lru_cache)}) \cup {[ip |-> ip, name |-> n]}
      BY <2>0, <2>5, InverseRecycle, ZenonT(30) DEF Recycles
    <3>3. lru_cache[Len(lru_cache)].ip # Head(lru_cache).ip
      BY <2>0, <3>1, FullPool, ZenonT(30)
    <3>4. e # Head(lru_cache)
      BY <1>1, <2>1, <2>2, <3>3, ZenonT(30) DEF LastInv
    <3>5. QED
      BY <2>1, <3>2, <3>4, ZenonT(30) DEF Mapped
  <2>6. CASE lru_cache' = lru_cache
    BY <2>1, <2>6, ZenonT(30) DEF Mapped
  <2>7. QED
    BY <1>1, <2>3, <2>4, <2>5, <2>6, LastSteps, ZenonT(30)
<1>2. ASSUME MapsInv, ReplayInv, LastInv, [Next]_vars PROVE [P]_vars
  BY <1>1, <1>2, ZenonT(30)
<1>3. QED
  BY <1>2, LastAlways, PTL DEF Spec, ActiveKept

-----------------------------------------------------------------------------
(* The journal on disk.                                                    *)

\* Where no process dies between a record and its newline and no handle outlives
\* a failed enable_persistence, a handle that is not dirty has a faithful journal.
KeptInv ==
    "unterminated" \notin faults /\ "keep" \notin faults =>
        /\ Torn(file)
        /\ phase = "up" /\ persistence /\ ~ cache.dirty => Faithful(file, Mapped)

\* Where the environment does nothing, a handle is never dirty and has a journal.
CalmInv ==
    faults = {} => ~ cache.dirty /\ (phase = "up" /\ persistence => file.head = "ok")

\* An honest outcome that is stored.
LEMMA StoredHonest ==
    ASSUME NEW o, NEW m, Stored(o), Honest(o, m)
    PROVE  Torn(file') /\ (~ cache'.dirty => Faithful(file', m))
<1>1. file' = o.file /\ cache'.dirty = o.dirty
  BY ZenonT(30) DEF Stored
<1>2. QED
  BY <1>1, ZenonT(30) DEF Honest

\* A new mapping, in a vacant address or in a recycled one, overrides the old
\* mappings of its address and of its name.
LEMMA NewMapping ==
    ASSUME MapsInv, NEW n \in Names, NEW ip \in Pool, Allocates(n, ip) \/ Recycles(n, ip)
    PROVE  Range(lru_cache') = Overridden(Range(lru_cache), [ip |-> ip, name |-> n])
<1> DEFINE e == [ip |-> ip, name |-> n]
<1>0. InverseMaps(lru_cache, name_to_ip) /\ lru_cache \in Seq(Entry)
  BY ZenonT(30) DEF MapsInv, InverseMaps
<1>1. e.ip = ip /\ e.name = n
  BY ZenonT(30)
<1>2. \A f \in Range(lru_cache) : f.name # n
  <2>1. name_to_ip[n] = NoIp
    BY ZenonT(30) DEF Allocates, Recycles
  <2>2. \A f \in Range(lru_cache) : name_to_ip[f.name] = f.ip /\ f.ip \in Pool
    BY <1>0, InverseUnique, ZenonT(30) DEF Entry
  <2>3. QED
    BY <2>1, <2>2, VirtualDnsAssumption, ZenonT(30)
<1>3. CASE Allocates(n, ip)
  <2>1. \A f \in Range(lru_cache) : f.ip # ip
    BY <1>0, <1>3, VacantMeans, ZenonT(30) DEF Allocates, Mapped
  <2>2. Range(lru_cache') = Range(lru_cache) \cup {e}
    BY <1>0, <1>3, <2>1, InverseAdd, ZenonT(30) DEF Allocates
  <2> HIDE DEF e
  <2>3. Range(lru_cache') = Overridden(Range(lru_cache), e)
    BY <1>1, <1>2, <2>1, <2>2, ZenonT(30) DEF Overridden
  <2>4. QED
    BY <2>3, ZenonT(30) DEF e
<1>4. CASE Recycles(n, ip)
  <2>1. Range(lru_cache') = (Range(lru_cache) \ {Head(lru_cache)}) \cup {e}
    BY <1>0, <1>4, InverseRecycle, ZenonT(30) DEF Recycles
  <2>2. lru_cache # <<>> /\ ip = Head(lru_cache).ip
    BY <1>4, ZenonT(30) DEF Recycles
  <2>3. Head(lru_cache) \in Range(lru_cache)
    BY <1>0, <2>2, TailDistinct, ZenonT(30) DEF InverseMaps
  <2>4. \A f \in Range(lru_cache) : f.ip # ip <=> f # Head(lru_cache)
    BY <1>0, <2>2, <2>3, InverseUnique, ZenonT(30)
  <2> HIDE DEF e
  <2>5. Range(lru_cache') = Overridden(Range(lru_cache), e)
    BY <1>1, <1>2, <2>1, <2>4, ZenonT(30) DEF Overridden
  <2>6. QED
    BY <2>5, ZenonT(30) DEF e
<1>5. QED
  BY <1>3, <1>4, ZenonT(30)

\* enable_persistence ends with a rewrite, or its handle is dropped.
LEMMA FirstRewriteKept ==
    ASSUME Unrestorable = {}, "keep" \notin faults, file \in Journal, Torn(file),
           NEW s, NEW x, InverseMaps(s, x), NEW cursor, NEW records,
           FirstRewrite(s, x, cursor, records)
    PROVE  /\ Torn(file')
           /\ persistence' => Faithful(file', Mapped')
<1>1. CASE file' \in RewriteErrors(file) /\ NewProcess
  <2>1. Torn(file')
    BY <1>1, TornErrors, ZenonT(30)
  <2>2. persistence' = FALSE
    BY <1>1, ZenonT(30) DEF NewProcess
  <2>3. QED
    BY <2>1, <2>2, ZenonT(30)
<1>2. ASSUME \E o \in FirstOutcomes(s, cursor, records) : Stored(o), lru_cache' = s
      PROVE  Torn(file') /\ Faithful(file', Mapped')
  <2>1. Stored(Rewritten(s, cursor))
    BY <1>2, ZenonT(30) DEF FirstOutcomes
  <2>2. Honest(Rewritten(s, cursor), Range(s))
    BY RewrittenHonest, ZenonT(30)
  <2>3. cache'.dirty = FALSE
    BY <2>1, ZenonT(30) DEF Stored, Rewritten
  <2>4. Torn(file') /\ Faithful(file', Range(s))
    BY <2>1, <2>2, <2>3, StoredHonest, ZenonT(30)
  <2>5. QED
    BY <1>2, <2>4, ZenonT(30) DEF Mapped
<1>3. QED
  BY <1>1, <1>2, ZenonT(30) DEF FirstRewrite

\* Every step keeps the journal faithful to a handle that believes so.
LEMMA KeptStep ==
    ASSUME Unrestorable = {}, MapsInv, ReplayInv, KeptInv, Next, MapsInv'
    PROVE  KeptInv'
<1> SUFFICES ASSUME "unterminated" \notin faults, "keep" \notin faults
             PROVE  /\ Torn(file')
                    /\ phase' = "up" /\ persistence' /\ ~ cache'.dirty => Faithful(file', Mapped')
  BY ZenonT(30) DEF KeptInv, Next
<1>0. /\ InverseMaps(lru_cache, name_to_ip) /\ lru_cache \in Seq(Entry) /\ file \in Journal
      /\ InverseMaps(lru_cache', name_to_ip')
  BY ZenonT(30) DEF MapsInv, InverseMaps, RestOK
<1>1. Torn(file) /\ (phase = "up" /\ persistence /\ ~ cache.dirty => Faithful(file, Mapped))
  BY ZenonT(30) DEF KeptInv
<1>2. CASE UNCHANGED <<file, cache, persistence>> /\ Mapped' = Mapped /\ phase = "up"
  BY <1>1, <1>2, ZenonT(30)
<1>3. CASE UNCHANGED file /\ (persistence' = FALSE \/ phase' = "loading")
  BY <1>1, <1>3, ZenonT(30)
<1>4. ASSUME NEW n \in Names, Hit(n)
      PROVE  Torn(file') /\ (~ cache'.dirty /\ persistence' => Faithful(file', Mapped'))
  <2>1. lru_cache' = Touch(lru_cache, name_to_ip[n]) /\ phase = "up" /\ persistence' = persistence
    BY <1>4, ZenonT(30) DEF Hit
  <2>2. Range(lru_cache') = Range(lru_cache)
    BY <1>0, <2>1, InverseTouch, ZenonT(30)
  <2>3. CASE persistence
    <3>1. PICK o \in RetryDirty(lru_cache', next_addr) : Stored(o)
      BY <1>4, <2>3, ZenonT(30) DEF Hit
    <3>2. ~ cache.dirty => Faithful(file, Range(lru_cache'))
      BY <1>1, <2>1, <2>2, <2>3, ZenonT(30) DEF Mapped
    <3>3. Honest(o, Range(lru_cache'))
      BY <1>0, <1>1, <3>1, <3>2, RetryHonest, ZenonT(30)
    <3>4. QED
      BY <3>1, <3>3, StoredHonest, ZenonT(30) DEF Mapped
  <2>4. CASE ~ persistence
    <3>1. file' = file
      BY <1>4, <2>4 DEF Hit
    <3>2. QED
      BY <1>1, <2>1, <2>4, <3>1, ZenonT(30)
  <2>5. QED
    BY <2>3, <2>4, ZenonT(30)
<1>5. ASSUME NEW n \in Names, NEW ip \in Pool, Allocates(n, ip) \/ Recycles(n, ip), Persists(n, ip)
      PROVE  Torn(file') /\ (~ cache'.dirty /\ persistence' => Faithful(file', Mapped'))
  <2> DEFINE e == [ip |-> ip, name |-> n]
  <2>1. phase = "up" /\ persistence' = persistence
    BY <1>5, ZenonT(30) DEF Allocates, Recycles, Persists
  <2>2. Range(lru_cache') = Overridden(Range(lru_cache), e)
    BY <1>5, NewMapping, ZenonT(30)
  <2>3. e \in Entry
    BY ZenonT(30) DEF Entry
  <2>4. CASE persistence
    <3>1. PICK o \in PersistMapping(lru_cache', next_addr', e) : Stored(o)
      BY <1>5, <2>4, ZenonT(30) DEF Persists
    <3>2. ~ NeedsRewrite => Faithful(file, Range(lru_cache))
      BY <1>1, <2>1, <2>4, ZenonT(30) DEF NeedsRewrite, Mapped
    <3> HIDE DEF e
    <3>3. Honest(o, Range(lru_cache'))
      BY <1>0, <1>1, <2>2, <2>3, <3>1, <3>2, PersistHonest, ZenonT(30)
    <3>4. QED
      BY <3>1, <3>3, StoredHonest, ZenonT(30) DEF Mapped
  <2>5. CASE ~ persistence
    <3>1. file' = file
      BY <1>5, <2>5 DEF Persists
    <3>2. QED
      BY <1>1, <2>1, <2>5, <3>1, ZenonT(30)
  <2>6. QED
    BY <2>4, <2>5, ZenonT(30)
<1>6. ASSUME NEW n \in Names, RestartInAppend(n)
      PROVE  Torn(file') /\ persistence' = FALSE
  <2>1. PICK ip \in Pool : file' \in InterruptedAppends(file, [ip |-> ip, name |-> n])
    BY <1>6, ZenonT(30) DEF RestartInAppend
  <2> DEFINE e == [ip |-> ip, name |-> n]
  <2>2. e \in Entry
    BY ZenonT(30) DEF Entry
  <2>3. file' = WithRecord(file, e) \/ file' = WithFragment(file, e)
    BY <2>1, ZenonT(30) DEF InterruptedAppends
  <2> HIDE DEF e
  <2>4. Torn(WithRecord(file, e)) /\ Torn(WithFragment(file, e))
    BY <1>0, <1>1, <2>2, TornWrites, ZenonT(30)
  <2>5. QED
    BY <1>6, <2>3, <2>4, ZenonT(30) DEF RestartInAppend, NewProcess
<1>7. ASSUME NEW ip \in Pool, ResolveIp(ip)
      PROVE  UNCHANGED <<file, cache, persistence>> /\ Mapped' = Mapped /\ phase = "up"
  BY <1>0, <1>7, InverseTouch, ZenonT(30) DEF ResolveIp, Mapped
<1>8. ASSUME EnableMissing \/ EnableIncompatible
      PROVE  Torn(file') /\ (persistence' => Faithful(file', Mapped'))
  <2>1. CASE EnableMissing
    BY <1>0, <1>1, <2>1, FirstRewriteKept, ZenonT(30) DEF EnableMissing
  <2>2. CASE EnableIncompatible
    BY <1>0, <1>1, <2>2, InverseEmpty, FirstRewriteKept, ZenonT(30) DEF EnableIncompatible
  <2>3. QED
    BY <1>8, <2>1, <2>2, ZenonT(30)
<1>9. ASSUME EnableLoaded \/ RestoreMapping PROVE UNCHANGED file /\ phase' = "loading"
  BY <1>9, ZenonT(30) DEF EnableLoaded, RestoreMapping
<1>10. ASSUME FinishLoad PROVE Torn(file') /\ (persistence' => Faithful(file', Mapped'))
  <2>1. CASE load.repair
    BY <1>0, <1>1, <1>10, <2>1, FirstRewriteKept, ZenonT(30) DEF FinishLoad
  <2>2. CASE ~ load.repair
    <3>1. phase = "loading" /\ load.pos = Len(file.lines) /\ lru_cache' = lru_cache /\ file' = file
      BY <1>10, <2>2, ZenonT(30) DEF FinishLoad, memory
    <3>2. /\ Mapped = LiveUpTo(file.lines, Len(file.lines))
          /\ \A k \in DOMAIN file.lines : file.lines[k].name # Garbled
      BY <2>2, <3>1, ZenonT(30) DEF ReplayInv
    <3>3. file.lines \in Seq(Line)
      BY <1>0, ZenonT(30) DEF Journal
    <3>4. Live(file.lines) = Mapped
      BY <3>2, <3>3, LiveWhole, ZenonT(30)
    <3>5. file.lines # <<>> => Len(file.lines) \in DOMAIN file.lines
      <4> DEFINE k == Len(file.lines)
      <4>1. DOMAIN file.lines = 1 .. k
        BY <3>3, SeqLength, ZenonT(30)
      <4>2. file.lines # <<>> => k \in Nat \ {0}
        BY <3>3, SeqEmpty, ZenonT(30)
      <4> HIDE DEF k
      <4>3. k \in Nat \ {0} => k \in 1 .. k
        OBVIOUS
      <4>4. QED
        BY <4>1, <4>2, <4>3, ZenonT(30) DEF k
    <3>6. ~ file.open
      BY <1>1, <3>2, <3>5, ZenonT(30) DEF Torn
    <3>7. QED
      BY <1>1, <3>1, <3>4, <3>6, ZenonT(30) DEF Faithful, Mapped
  <2>3. QED
    BY <2>1, <2>2, ZenonT(30)
<1>11. ASSUME Restart PROVE UNCHANGED file /\ persistence' = FALSE
  BY <1>11, ZenonT(30) DEF Restart, NewProcess
<1>12. ASSUME RestartInReplace PROVE Torn(file') /\ persistence' = FALSE
  BY <1>12, ZenonT(30) DEF RestartInReplace, NewProcess, NoJournal, Torn
<1>13. ASSUME JournalRemoved PROVE Torn(file') /\ Faithful(file', Mapped')
  <2>1. PICK h \in {"missing", "empty"} : file' = [NoJournal EXCEPT !.head = h]
    BY <1>13, ZenonT(30) DEF JournalRemoved
  <2>2. file'.open = FALSE /\ file'.head = h /\ h # "ok"
    BY <2>1, ZenonT(30) DEF NoJournal
  <2>3. QED
    BY <2>2, ZenonT(30) DEF Torn, Faithful
<1>14. QED
  BY <1>2, <1>3, <1>4, <1>5, <1>6, <1>7, <1>8, <1>9, <1>10, <1>11, <1>12, <1>13, ZenonT(30)
     DEF Next, Step, Allocate, Recycle

\* Every step of a calm environment leaves the handle clean.
LEMMA CalmStep ==
    ASSUME MapsInv, ReplayInv, CalmInv, Next
    PROVE  CalmInv'
<1> SUFFICES ASSUME faults = {}
             PROVE  ~ cache'.dirty /\ (phase' = "up" /\ persistence' => file'.head = "ok")
  BY ZenonT(30) DEF CalmInv, Next
<1>0. file \in Journal /\ ~ cache.dirty /\ (phase = "up" /\ persistence => file.head = "ok")
  BY ZenonT(30) DEF MapsInv, RestOK, CalmInv
<1>1. ASSUME NEW o, Stored(o), ~ o.dirty, o.file.head = "ok"
      PROVE  ~ cache'.dirty /\ file'.head = "ok"
  <2>1. file' = o.file /\ cache'.dirty = o.dirty
    BY <1>1, ZenonT(30) DEF Stored
  <2>2. QED
    BY <1>1, <2>1, ZenonT(30)
<1>2. CASE UNCHANGED <<cache, file, persistence, phase>>
  BY <1>0, <1>2, ZenonT(30)
<1>3. ASSUME NEW n \in Names, Hit(n)
      PROVE  ~ cache'.dirty /\ (phase' = "up" /\ persistence' => file'.head = "ok")
  <2>1. CASE persistence
    <3>1. PICK o \in RetryDirty(lru_cache', next_addr) : Stored(o)
      BY <1>3, <2>1, ZenonT(30) DEF Hit
    <3>2. file.head = "ok"
      BY <1>0, <1>3, <2>1, ZenonT(30) DEF Hit
    <3>3. ~ o.dirty /\ o.file = file
      BY <1>0, <3>1, <3>2, CalmWrites, ZenonT(30)
    <3>4. QED
      BY <1>1, <3>1, <3>2, <3>3, ZenonT(30)
  <2>2. CASE ~ persistence
    <3>1. file' = file /\ cache' = cache /\ phase' = phase /\ persistence' = persistence
      BY <1>3, <2>2 DEF Hit
    <3>2. QED
      BY <1>0, <3>1, ZenonT(30)
  <2>3. QED
    BY <2>1, <2>2, ZenonT(30)
<1>4. ASSUME NEW n \in Names, NEW ip \in Pool, Allocates(n, ip) \/ Recycles(n, ip), Persists(n, ip)
      PROVE  ~ cache'.dirty /\ (phase' = "up" /\ persistence' => file'.head = "ok")
  <2>1. CASE persistence
    <3>1. PICK o \in PersistMapping(lru_cache', next_addr', [ip |-> ip, name |-> n]) : Stored(o)
      BY <1>4, <2>1, ZenonT(30) DEF Persists
    <3>2. file.head = "ok"
      BY <1>0, <1>4, <2>1, ZenonT(30) DEF Allocates, Recycles
    <3>3. ~ o.dirty /\ o.file.head = "ok"
      BY <1>0, <3>1, <3>2, CalmWrites, ZenonT(30)
    <3>4. QED
      BY <1>1, <3>1, <3>3, ZenonT(30)
  <2>2. CASE ~ persistence
    <3>1. file' = file /\ cache' = cache /\ phase' = phase /\ persistence' = persistence
      BY <1>4, <2>2 DEF Persists
    <3>2. QED
      BY <1>0, <3>1, ZenonT(30)
  <2>3. QED
    BY <2>1, <2>2, ZenonT(30)
<1>5. NewProcess => ~ cache'.dirty /\ persistence' = FALSE
  <2>1. NewCache.dirty = FALSE
    BY ZenonT(30) DEF NewCache
  <2>2. QED
    BY <2>1, ZenonT(30) DEF NewProcess
<1>6. ASSUME NEW s, NEW x, NEW c, NEW r, FirstRewrite(s, x, c, r)
      PROVE  ~ cache'.dirty /\ (phase' = "up" /\ persistence' => file'.head = "ok")
  <2>1. CASE NewProcess
    BY <1>5, <2>1, ZenonT(30)
  <2>2. CASE \E o \in FirstOutcomes(s, c, r) : Stored(o)
    <3>1. Stored(Rewritten(s, c))
      BY <2>2, ZenonT(30) DEF FirstOutcomes, RewriteErrors
    <3>2. Rewritten(s, c).dirty = FALSE /\ Rewritten(s, c).file.head = "ok"
      BY ZenonT(30) DEF Rewritten
    <3>3. QED
      BY <1>1, <3>1, <3>2, ZenonT(30)
  <2>3. QED
    BY <1>6, <2>1, <2>2, ZenonT(30) DEF FirstRewrite
<1>7. CASE EnableMissing \/ EnableIncompatible
  BY <1>6, <1>7, ZenonT(30) DEF EnableMissing, EnableIncompatible
<1>8. CASE EnableLoaded
  <2>1. phase' = "loading" /\ cache'.dirty = FALSE
    BY <1>8, ZenonT(30) DEF EnableLoaded
  <2>2. QED
    BY <2>1, ZenonT(30)
<1>9. CASE RestoreMapping
  BY <1>2, <1>9, ZenonT(30) DEF RestoreMapping
<1>10. CASE FinishLoad
  <2>1. CASE load.repair
    BY <1>6, <1>10, <2>1, ZenonT(30) DEF FinishLoad
  <2>2. CASE ~ load.repair
    <3>1. cache' = cache /\ file' = file /\ phase = "loading"
      BY <1>10, <2>2, ZenonT(30) DEF FinishLoad
    <3>2. QED
      BY <1>0, <3>1, ZenonT(30) DEF ReplayInv
  <2>3. QED
    BY <2>1, <2>2, ZenonT(30)
<1>11. ASSUME Restart \/ RestartInReplace \/ \E n \in Names : RestartInAppend(n)
       PROVE  ~ cache'.dirty /\ persistence' = FALSE
  BY <1>5, <1>11, ZenonT(30) DEF Restart, RestartInReplace, RestartInAppend
<1>12. ~ JournalRemoved
  BY ZenonT(30) DEF JournalRemoved
<1>13. ASSUME NEW ip \in Pool, ResolveIp(ip) PROVE UNCHANGED <<cache, file, persistence, phase>>
  BY <1>13, ZenonT(30) DEF ResolveIp
<1>14. QED
  BY <1>2, <1>3, <1>4, <1>7, <1>8, <1>9, <1>10, <1>11, <1>12, <1>13, ZenonT(30)
     DEF Next, Step, Allocate, Recycle

\* The invariants of the journal.
JournalInv == MapsInv /\ ReplayInv /\ KeptInv /\ CalmInv

\* The invariants of the journal always hold when no name is refused.
LEMMA JournalAlways ==
    ASSUME Unrestorable = {}
    PROVE  Spec => []JournalInv
<1>1. Init => KeptInv /\ CalmInv
  <2> SUFFICES ASSUME Init PROVE KeptInv /\ CalmInv
    BY ZenonT(30)
  <2>1. persistence = FALSE /\ cache.dirty = FALSE /\ file.open = FALSE
    <3>1. NewCache.dirty = FALSE /\ NoJournal.open = FALSE /\ [NoJournal EXCEPT !.head = "foreign"].open = FALSE
      BY ZenonT(30) DEF NewCache, NoJournal
    <3>2. QED
      BY <3>1, ZenonT(30) DEF Init
  <2>2. QED
    BY <2>1, ZenonT(30) DEF KeptInv, CalmInv, Torn
<1>2. ASSUME JournalInv, [Next]_vars, MapsInv' PROVE KeptInv' /\ CalmInv'
  <2>1. CASE Next
    BY <1>2, <2>1, KeptStep, CalmStep, ZenonT(30) DEF JournalInv
  <2>2. CASE UNCHANGED vars
    <3>1. /\ lru_cache' = lru_cache /\ file' = file /\ cache' = cache /\ faults' = faults
          /\ phase' = phase /\ persistence' = persistence
      BY <2>2, ZenonT(30) DEF vars
    <3>2. Mapped' = Mapped
      BY <3>1, ZenonT(30) DEF Mapped
    <3>3. KeptInv'
      BY <1>2, <3>1, <3>2 DEF JournalInv, KeptInv, Torn, Faithful, Live, LiveAt
    <3>4. CalmInv'
      BY <1>2, <3>1, ZenonT(30) DEF JournalInv, CalmInv
    <3>5. QED
      BY <3>3, <3>4, ZenonT(30)
  <2>3. QED
    BY <1>2, <2>1, <2>2, ZenonT(30)
<1>3. MapsInv /\ ReplayInv /\ KeptInv /\ CalmInv <=> JournalInv
  BY ZenonT(30) DEF JournalInv
<1>4. QED
  BY <1>1, <1>2, <1>3, ReplayAlways, PTL DEF Spec

\* Whenever a handle believes its journal is up to date, a replay of it gives
\* back exactly the mappings in memory: for every pool, every set of names and
\* every compaction threshold, through failing writes, replacements that stop
\* half way, deleted journals and restarts anywhere.  No name is refused, no
\* process dies between a record and its newline, and a handle whose
\* enable_persistence failed is dropped.
THEOREM JournalIsDurable ==
    ASSUME Unrestorable = {}, \A F \in FaultSets : "unterminated" \notin F /\ "keep" \notin F
    PROVE  Spec => []Durable
<1> DEFINE Mild == "unterminated" \notin faults /\ "keep" \notin faults
<1>1. Init => Mild
  BY ZenonT(30) DEF Init
<1>2. Mild /\ [Next]_vars => Mild'
  BY ZenonT(30) DEF Next, vars
<1>3. JournalInv /\ Mild => Durable
  BY ZenonT(30) DEF JournalInv, KeptInv, Durable, Faithful
<1>4. Spec => []JournalInv
  BY JournalAlways, ZenonT(30)
<1> HIDE DEF Mild
<1>5. QED
  BY <1>1, <1>2, <1>3, <1>4, PTL DEF Spec

-----------------------------------------------------------------------------
(* The allocator with its journal implements the abstract map.             *)

\* What outlives the process is what the journal on disk holds.
OnDisk == StableMapping = IF file.head = "ok" THEN Live(file.lines) ELSE {}

\* Where the environment does nothing, the journal holds what outlives the process.
LEMMA StableIsJournal == JournalInv => (faults = {} => OnDisk)
<1> SUFFICES ASSUME JournalInv, faults = {} PROVE OnDisk
  BY ZenonT(30)
<1> USE DEF OnDisk
<1>1. CASE phase = "up" /\ persistence
  <2>1. file.head = "ok" /\ ~ cache.dirty
    BY <1>1, ZenonT(30) DEF JournalInv, CalmInv
  <2>2. Live(file.lines) = Mapped
    BY <1>1, <2>1, ZenonT(30) DEF JournalInv, KeptInv, Faithful
  <2>3. QED
    BY <1>1, <2>1, <2>2, ZenonT(30) DEF StableMapping
<1>2. CASE ~ (phase = "up" /\ persistence)
  BY <1>2, ZenonT(30) DEF StableMapping
<1>3. QED
  BY <1>1, <1>2, ZenonT(30)

\* A name that gets the address a query would be answered with: a step of the
\* abstract map.
LEMMA NewMappingRefines ==
    ASSUME MapsInv, faults = {}, faults' = {}, NEW n \in Names, name_to_ip[n] = NoIp,
           NEW ip \in Pool, NextIp(ip), StableMapping = Mapped,
           StableMapping' = Overridden(Mapped, [ip |-> ip, name |-> n])
    PROVE  Stable!Next
<1> DEFINE e == [ip |-> ip, name |-> n]
           map == IF faults = {} THEN StableMapping ELSE {}
<1>0. InverseMaps(lru_cache, name_to_ip) /\ lru_cache \in Seq(Entry) /\ Distinct(lru_cache)
  BY ZenonT(30) DEF MapsInv, InverseMaps
<1>1. e.ip = ip /\ e.name = n
  BY ZenonT(30)
<1>2. \A f \in Mapped : f.name # n
  <2>1. \A f \in Mapped : name_to_ip[f.name] = f.ip /\ f.ip \in Pool
    BY <1>0, InverseUnique, ZenonT(30) DEF Entry, Mapped
  <2>2. QED
    BY <2>1, VirtualDnsAssumption, ZenonT(30)
<1>3. map = Mapped
  BY ZenonT(30)
<1>4. map' = Overridden(Mapped, e)
  BY ZenonT(30)
<1>5. CASE Vacant # {}
  <2>1. \A f \in Mapped : f.ip # ip
    BY <1>0, <1>5, VacantMeans, ZenonT(30) DEF NextIp
  <2> HIDE DEF e
  <2>2. Overridden(Mapped, e) = Mapped \cup {e}
    BY <1>1, <1>2, <2>1, ZenonT(30) DEF Overridden
  <2>3. (\A f \in map : f.name # n /\ f.ip # ip) /\ map' = map \cup {e}
    BY <1>2, <1>3, <1>4, <2>1, <2>2, ZenonT(30)
  <2>4. Stable!Assign(n, ip)
    BY <2>3, ZenonT(30) DEF Stable!Assign, e
  <2>5. ip \in Stable!Pool
    BY ZenonT(30) DEF Stable!Pool, Pool
  <2>6. QED
    BY <2>4, <2>5, ZenonT(30) DEF Stable!Next
<1>6. CASE Vacant = {}
  <2> DEFINE old == Head(lru_cache)
  <2>1. lru_cache # <<>> /\ ip = old.ip
    BY <1>6, ZenonT(30) DEF NextIp
  <2>2. old \in Mapped
    BY <1>0, <2>1, TailDistinct, ZenonT(30) DEF Mapped
  <2> HIDE DEF old
  <2>3. \A f \in Mapped : f.ip # ip <=> f # old
    BY <1>0, <2>1, <2>2, InverseUnique, ZenonT(30) DEF Mapped
  <2>4. \A a \in Pool : \E f \in Mapped : f.ip = a
    BY <1>6, ZenonT(30) DEF Vacant, MappedIps, Mapped, Range
  <2>5. e = [ip |-> old.ip, name |-> n]
    BY <2>1, ZenonT(30)
  <2> HIDE DEF e
  <2>6. Overridden(Mapped, e) = (Mapped \ {old}) \cup {e}
    BY <1>1, <1>2, <2>3, ZenonT(30) DEF Overridden
  <2>7. /\ \A a \in Pool : \E f \in map : f.ip = a
        /\ \A f \in map : f.name # n
        /\ map' = (map \ {old}) \cup {e}
        /\ old \in map
    BY <1>2, <1>3, <1>4, <2>2, <2>4, <2>6, ZenonT(30)
  <2>8. Stable!Reuse(n, old)
    BY <2>5, <2>7, ZenonT(30) DEF Stable!Reuse, Stable!Pool, Pool
  <2>9. QED
    BY <2>7, <2>8, ZenonT(30) DEF Stable!Next
<1>7. QED
  BY <1>5, <1>6, ZenonT(30)

\* enable_persistence ends with a rewrite where the environment does nothing.
LEMMA CalmFirstRewrite ==
    ASSUME faults = {}, NEW s, NEW x, NEW c, NEW r, FirstRewrite(s, x, c, r)
    PROVE  lru_cache' = s /\ phase' = "up" /\ persistence' = TRUE
BY ZenonT(30) DEF FirstRewrite, RewriteErrors

\* A calm step that leaves the journal alone leaves what it holds alone.
LEMMA SameJournal ==
    ASSUME OnDisk, OnDisk', file' = file
    PROVE  StableMapping' = StableMapping
BY DEF OnDisk, Live, LiveAt

\* Every calm step is a step of the abstract map or leaves it alone.
LEMMA RefinesStep ==
    ASSUME Unrestorable = {}, JournalInv, MapsInv', OnDisk, OnDisk', Next, faults = {}
    PROVE  Stable!Next \/ StableMapping' = StableMapping
<1>0. /\ InverseMaps(lru_cache, name_to_ip) /\ lru_cache \in Seq(Entry) /\ Distinct(lru_cache)
      /\ file \in Journal /\ faults' = {}
  BY ZenonT(30) DEF JournalInv, MapsInv, InverseMaps, RestOK, Next
<1>1. /\ ~ cache.dirty /\ (phase = "up" /\ persistence => file.head = "ok")
      /\ phase = "up" /\ persistence => ~ file.open /\ Live(file.lines) = Mapped
  BY ZenonT(30) DEF JournalInv, CalmInv, KeptInv, Faithful
<1>2. phase = "up" /\ persistence => StableMapping = Mapped
  BY ZenonT(30) DEF StableMapping
<1>3. phase' = "up" /\ persistence' => StableMapping' = Mapped'
  BY ZenonT(30) DEF StableMapping
<1>4. ASSUME file' = file PROVE StableMapping' = StableMapping
  BY <1>4, SameJournal, ZenonT(30)
<1>5. ASSUME NEW n \in Names, Hit(n) PROVE StableMapping' = StableMapping
  <2>1. CASE persistence
    <3>1. phase = "up" /\ phase' = "up" /\ persistence' /\ lru_cache' = Touch(lru_cache, name_to_ip[n])
      BY <1>5, <2>1, ZenonT(30) DEF Hit
    <3>2. Mapped' = Mapped
      BY <1>0, <3>1, InverseTouch, ZenonT(30) DEF Mapped
    <3>3. QED
      BY <1>2, <1>3, <2>1, <3>1, <3>2, ZenonT(30)
  <2>2. CASE ~ persistence
    <3>1. file' = file
      BY <1>5, <2>2 DEF Hit
    <3>2. QED
      BY <1>4, <3>1, ZenonT(30)
  <2>3. QED
    BY <2>1, <2>2, ZenonT(30)
<1>6. ASSUME NEW n \in Names, NEW ip \in Pool, Allocates(n, ip) \/ Recycles(n, ip), Persists(n, ip)
      PROVE  Stable!Next \/ StableMapping' = StableMapping
  <2>1. CASE persistence
    <3>1. phase = "up" /\ phase' = "up" /\ persistence' /\ name_to_ip[n] = NoIp
      BY <1>6, <2>1, ZenonT(30) DEF Allocates, Recycles, Persists
    <3>2. Mapped' = Overridden(Mapped, [ip |-> ip, name |-> n])
      BY <1>6, NewMapping, ZenonT(30) DEF Mapped, JournalInv
    <3>3. NextIp(ip)
      BY <1>6, ZenonT(30) DEF Allocates, Recycles, NextIp
    <3>4. MapsInv /\ StableMapping = Mapped /\ StableMapping' = Overridden(Mapped, [ip |-> ip, name |-> n])
      BY <1>2, <1>3, <2>1, <3>1, <3>2, ZenonT(30) DEF JournalInv
    <3>5. QED
      BY <1>0, <3>1, <3>3, <3>4, NewMappingRefines, ZenonT(30)
  <2>2. CASE ~ persistence
    <3>1. file' = file
      BY <1>6, <2>2 DEF Persists
    <3>2. QED
      BY <1>4, <3>1, ZenonT(30)
  <2>3. QED
    BY <2>1, <2>2, ZenonT(30)
<1>7. ASSUME NEW n \in Names, RestartInAppend(n)
      PROVE  Stable!Next \/ StableMapping' = StableMapping
  <2>1. PICK ip \in Pool : NextIp(ip) /\ file' \in InterruptedAppends(file, [ip |-> ip, name |-> n])
    BY <1>7, ZenonT(30) DEF RestartInAppend
  <2> DEFINE e == [ip |-> ip, name |-> n]
             g == GarbledLine(ip)
  <2>2. phase = "up" /\ persistence /\ name_to_ip[n] = NoIp
    BY <1>7, ZenonT(30) DEF RestartInAppend
  <2>3. ~ file.open /\ Live(file.lines) = Mapped /\ file.head = "ok" /\ StableMapping = Mapped
    BY <1>1, <1>2, <2>2, ZenonT(30)
  <2>4. e \in Line /\ Restores(e) /\ g \in Line /\ ~ Restores(g) /\ e.ip = ip
    BY VirtualDnsAssumption, ZenonT(30) DEF Line, Restores, GarbledLine
  <2>5. file.lines \in Seq(Line)
    BY <1>0, ZenonT(30) DEF Journal
  <2>6. file' = WithRecord(file, e) \/ file' = WithFragment(file, e)
    BY <2>1, ZenonT(30) DEF InterruptedAppends
  <2>7. CASE file' = WithRecord(file, e)
    <3>1. file'.head = "ok" /\ file'.lines = Append(file.lines, e)
      BY <1>0, <2>3, <2>7, RecordWritten, ZenonT(30)
    <3>2. Live(file'.lines) = Overridden(Mapped, e)
      BY <2>3, <2>4, <2>5, <3>1, LiveAppended, ZenonT(30)
    <3>3. StableMapping' = Overridden(Mapped, e)
      BY <3>1, <3>2, ZenonT(30) DEF OnDisk, Live, LiveAt
    <3>4. MapsInv
      BY ZenonT(30) DEF JournalInv
    <3>5. QED
      BY <1>0, <2>1, <2>2, <2>3, <3>3, <3>4, NewMappingRefines, ZenonT(30)
  <2>8. CASE file' = WithFragment(file, e)
    <3> DEFINE w == WithRecord(file, g)
    <3>1. w.head = "ok" /\ w.lines = Append(file.lines, g)
      BY <1>0, <2>3, RecordWritten, ZenonT(30)
    <3>2. w \in Journal
      <4>1. Append(file.lines, g) \in Seq(Line)
        BY <2>4, <2>5, SeqAppended, ZenonT(30)
      <4>2. w = [file EXCEPT !.lines = Append(file.lines, g)]
        BY <2>3, ZenonT(30) DEF WithRecord
      <4> HIDE DEF w, g
      <4>3. QED
        BY <1>0, <4>1, <4>2, ZenonT(30) DEF Journal
    <3>3. file' = [w EXCEPT !.open = TRUE]
      BY <2>4, <2>8 DEF WithFragment
    <3> HIDE DEF w
    <3>4. file'.head = "ok" /\ file'.lines = Append(file.lines, g)
      BY <3>1, <3>2, <3>3, ZenonT(30) DEF Journal
    <3>5. Live(file'.lines) = Mapped
      BY <2>3, <2>4, <2>5, <3>4, LiveAppended, ZenonT(30)
    <3>6. QED
      BY <2>3, <3>4, <3>5, ZenonT(30) DEF OnDisk, Live, LiveAt
  <2>9. QED
    BY <2>6, <2>7, <2>8, ZenonT(30)
<1>8. CASE EnableMissing
  <2>1. phase = "up" /\ file.head = "missing" /\ lru_cache' = lru_cache /\ phase' = "up" /\ persistence'
    BY <1>8, CalmFirstRewrite, ZenonT(30) DEF EnableMissing
  <2>2. StableMapping = {}
    BY <2>1, ZenonT(30) DEF OnDisk
  <2>3. StableMapping' = Mapped
    BY <1>3, <2>1, ZenonT(30) DEF Mapped
  <2>4. /\ Mapped \subseteq Entry
        /\ \A d, f \in Mapped : d.ip = f.ip \/ d.name = f.name => d = f
    BY <1>0, InverseUnique, ZenonT(30) DEF Mapped
  <2> DEFINE map == IF faults = {} THEN StableMapping ELSE {}
  <2>5. map = {} /\ map' = Mapped
    BY <1>0, <2>2, <2>3, ZenonT(30)
  <2>6. Stable!OneToOne(map')
    BY <2>4, <2>5 DEF Stable!OneToOne
  <2>7. map' \subseteq [ip : Stable!Pool, name : Names]
    BY <2>4, <2>5 DEF Stable!Pool, Pool, Entry
  <2>8. Stable!Adopt
    BY <2>5, <2>6, <2>7, ZenonT(30) DEF Stable!Adopt
  <2>9. QED
    BY <2>8, ZenonT(30) DEF Stable!Next
<1>9. CASE EnableIncompatible
  <2>1. file.head # "ok" /\ lru_cache' = <<>> /\ phase' = "up" /\ persistence'
    BY <1>9, CalmFirstRewrite, ZenonT(30) DEF EnableIncompatible
  <2>2. StableMapping = {}
    BY <2>1, ZenonT(30) DEF OnDisk
  <2>3. Range(<<>>) = {}
    <3>1. DOMAIN <<>> = {}
      BY SeqEmpty, SeqLength
    <3>2. QED
      BY <3>1, ZenonT(30) DEF Range
  <2>4. QED
    BY <1>3, <2>1, <2>2, <2>3, ZenonT(30) DEF Mapped
<1>10. CASE FinishLoad
  <2>1. CASE load.repair
    <3>1. lru_cache' = lru_cache /\ phase' = "up" /\ persistence'
      BY <1>10, <2>1, CalmFirstRewrite, ZenonT(30) DEF FinishLoad
    <3>2. phase = "loading" /\ load.pos = Len(file.lines)
      BY <1>10, ZenonT(30) DEF FinishLoad
    <3>3. Mapped = LiveUpTo(file.lines, Len(file.lines)) /\ file.head = "ok"
      BY <3>2, ZenonT(30) DEF JournalInv, ReplayInv
    <3>4. file.lines \in Seq(Line)
      BY <1>0, ZenonT(30) DEF Journal
    <3>5. Live(file.lines) = Mapped
      BY <3>3, <3>4, LiveWhole, ZenonT(30)
    <3>6. StableMapping = Mapped
      BY <3>3, <3>5, ZenonT(30) DEF OnDisk
    <3>7. QED
      BY <1>3, <3>1, <3>6, ZenonT(30) DEF Mapped
  <2>2. CASE ~ load.repair
    BY <1>4, <1>10, <2>2, ZenonT(30) DEF FinishLoad
  <2>3. QED
    BY <2>1, <2>2, ZenonT(30)
<1>11. ASSUME \/ EnableLoaded \/ RestoreMapping \/ Restart
              \/ \E ip \in Pool : ResolveIp(ip)
       PROVE  file' = file
  BY <1>11, ZenonT(30) DEF EnableLoaded, RestoreMapping, Restart, ResolveIp
<1>12. ~ JournalRemoved /\ ~ RestartInReplace
  BY ZenonT(30) DEF JournalRemoved, RestartInReplace
<1>13. QED
  BY <1>4, <1>5, <1>6, <1>7, <1>8, <1>9, <1>10, <1>11, <1>12, ZenonT(30) DEF Next, Step, Allocate, Recycle

\* While the environment does nothing, the allocator with its journal implements
\* the abstract one-to-one map of StableMap for every pool, every set of names and
\* every compaction threshold: restarts anywhere, also inside an append and
\* inside a replay, give up no mapping, and a mapping only ever goes when a full
\* pool recycles its address.  No name is refused.
THEOREM JournalImplementsStableMap ==
    ASSUME Unrestorable = {}
    PROVE  Spec => StableAcrossRestarts
<1> DEFINE map == IF faults = {} THEN StableMapping ELSE {}
           DiskInv == JournalInv /\ (faults = {} => OnDisk)
<1>1. Init => Stable!Init
  <2> SUFFICES ASSUME Init PROVE map = {}
    BY ZenonT(30) DEF Stable!Init
  <2>1. persistence = FALSE /\ file.head # "ok"
    <3>1. NoJournal.head = "missing" /\ [NoJournal EXCEPT !.head = "foreign"].head = "foreign"
      BY ZenonT(30) DEF NoJournal
    <3>2. QED
      BY <3>1, ZenonT(30) DEF Init
  <2>2. StableMapping = {}
    BY <2>1, ZenonT(30) DEF StableMapping
  <2>3. QED
    BY <2>2, ZenonT(30)
<1>2. ASSUME DiskInv, DiskInv', [Next]_vars PROVE [Stable!Next]_map
  <2>1. CASE UNCHANGED vars
    <3>1. StableMapping' = StableMapping /\ faults' = faults
      BY <2>1 DEF vars, StableMapping, Mapped, Live, LiveAt
    <3>2. QED
      BY <3>1, ZenonT(30)
  <2>2. CASE Next /\ faults # {}
    <3>1. faults' = faults
      BY <2>2, ZenonT(30) DEF Next
    <3>2. QED
      BY <2>2, <3>1, ZenonT(30)
  <2>3. CASE Next /\ faults = {}
    <3>1. faults' = {}
      BY <2>3, ZenonT(30) DEF Next
    <3>2. JournalInv /\ MapsInv' /\ OnDisk /\ OnDisk'
      BY <1>2, <2>3, <3>1, ZenonT(30) DEF JournalInv
    <3>3. Stable!Next \/ StableMapping' = StableMapping
      BY <2>3, <3>2, RefinesStep, ZenonT(30)
    <3>4. QED
      BY <2>3, <3>1, <3>3, ZenonT(30)
  <2>4. QED
    BY <1>2, <2>1, <2>2, <2>3, ZenonT(30)
<1>3. Spec => []JournalInv
  BY JournalAlways, ZenonT(30)
<1>4. JournalInv => DiskInv
  BY StableIsJournal, ZenonT(30)
<1> HIDE DEF DiskInv, map
<1>5. QED
  BY <1>1, <1>2, <1>3, <1>4, PTL DEF Spec, StableAcrossRestarts, Stable!Spec, map
=============================================================================
