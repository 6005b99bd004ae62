----------------------------- MODULE FlowProofs -----------------------------
(***************************************************************************)
(* The flows the device hands over.  ICMP Echo forwarding, for any number  *)
(* of keys, any limit of flows and any depth of the queues: no program gets *)
(* another request's reply, and the workers that hold a stream are those of *)
(* the table.  Then process bypass, for any number of flows, ports and     *)
(* applications and any number of updates of the list: identities are      *)
(* fresh and no update is missed.                                          *)
(***************************************************************************)
EXTENDS EchoFlows, ProcessPolicy, FiniteSetTheorems, TLAPS

-----------------------------------------------------------------------------
(* A sequence is a function on the places up to its length.                *)
LEMMA SeqLength ==
    ASSUME NEW S, NEW q \in Seq(S)
    PROVE  Len(q) \in Nat /\ q \in [1 .. Len(q) -> S] /\ DOMAIN q = 1 .. Len(q)
OBVIOUS

(* The empty sequence, and the others.                                     *)
LEMMA SeqEmpty ==
    ASSUME NEW S
    PROVE  <<>> \in Seq(S) /\ Len(<<>>) = 0 /\ \A q \in Seq(S) : q # <<>> => Len(q) \in Nat \ {0}
OBVIOUS

(* A sequence with one element replaced.                                   *)
LEMMA SeqAltered ==
    ASSUME NEW S, NEW q \in Seq(S), NEW i \in 1 .. Len(q), NEW x \in S
    PROVE  /\ [q EXCEPT ![i] = x] \in Seq(S) /\ Len([q EXCEPT ![i] = x]) = Len(q)
           /\ \A j \in 1 .. Len(q) : [q EXCEPT ![i] = x][j] = IF j = i THEN x ELSE q[j]
OBVIOUS

(* A sequence without its first element.                                   *)
LEMMA SeqTail ==
    ASSUME NEW S, NEW q \in Seq(S), q # <<>>
    PROVE  /\ Head(q) \in S /\ Tail(q) \in Seq(S) /\ Len(Tail(q)) = Len(q) - 1
           /\ \A i \in 1 .. Len(Tail(q)) : Tail(q)[i] = q[i + 1]
OBVIOUS

(* A sequence with an element appended.                                    *)
LEMMA SeqAppended ==
    ASSUME NEW S, NEW q \in Seq(S), NEW x \in S
    PROVE  /\ Append(q, x) \in Seq(S) /\ Append(q, x) # <<>> /\ Len(Append(q, x)) = Len(q) + 1
           /\ \A i \in 1 .. Len(q) : Append(q, x)[i] = q[i]
           /\ Append(q, x)[Len(q) + 1] = x
OBVIOUS

RequestSet == [key : EchoKeys, payload : Payloads]

ReplySet == [answers : Nat, payload : Payloads \cup {"damaged"}]

Workers ==
    [key : EchoKeys, state : {"connecting", "idle", "writing", "reading", "ended"}, current : Nat,
     queue : Seq(Nat), asked : SUBSET Nat, replies : Seq(ReplySet)]

InjectedSet == [request : Nat, answers : Nat]

EchoTypes ==
    /\ requests \in Seq(RequestSet)
    /\ expired \in Nat
    /\ flows \in [EchoKeys -> Nat]
    /\ workers \in Seq(Workers)
    /\ injected \in Seq(InjectedSet)

(* The requests a worker still has to answer.                              *)
Has(x, n) == n # 0 /\ (n = x.current \/ \E i \in 1 .. Len(x.queue) : x.queue[i] = n)

(* A stream carries one request at a time: what was asked of the proxy, or *)
(* came back from it, is the current request.                              *)
OneAtATime(x) ==
    /\ x.current # 0 <=> x.state \in {"writing", "reading"}
    /\ x.state # "reading" => x.asked = {} /\ x.replies = <<>>
    /\ \A n \in x.asked : n = x.current /\ x.replies = <<>>
    /\ x.replies # <<>> => /\ Len(x.replies) = 1 /\ x.asked = {}
                           /\ x.replies[1].answers = x.current
    /\ \A i, j \in 1 .. Len(x.queue) : x.queue[i] = x.queue[j] => i = j
    /\ \A i \in 1 .. Len(x.queue) : x.queue[i] # 0 /\ x.queue[i] # x.current
    /\ x.state = "ended" => x.queue = <<>>

(* Every request is with one worker at most, and with none once answered.  *)
Exclusive ==
    /\ \A w \in 1 .. Len(workers) : OneAtATime(workers[w])
    /\ \A w \in 1 .. Len(workers), n \in Nat :
          Has(workers[w], n) =>
              /\ n <= Len(requests)
              /\ \A v \in 1 .. Len(workers) : Has(workers[v], n) => v = w
              /\ \A i \in 1 .. Len(injected) : injected[i].request # n
    /\ \A i \in 1 .. Len(injected) : injected[i].request <= Len(requests)

Taken == {k \in EchoKeys : flows[k] # 0}

(* The table points to each key's worker, and has every one that lives.    *)
Table ==
    /\ \A k \in Taken : flows[k] \in 1 .. Len(workers) /\ workers[flows[k]].key = k
    /\ \A w \in 1 .. Len(workers) : workers[w].state # "ended" => flows[workers[w].key] = w
    /\ IsFiniteSet(Taken) /\ Cardinality(Taken) <= MaxFlows

EchoInv == EchoTypes /\ Exclusive /\ Table /\ OwnReply

-----------------------------------------------------------------------------
\* The workers of a state of the invariant, one by one.
LEMMA WorkerFacts ==
    ASSUME EchoInv, NEW w \in 1 .. Len(workers)
    PROVE  /\ workers[w] \in Workers /\ OneAtATime(workers[w])
           /\ Len(workers) \in Nat /\ DOMAIN workers = 1 .. Len(workers)
BY SeqLength DEF EchoInv, EchoTypes, Exclusive

\* A worker replaced by one with fewer requests.
LEMMA Replaced ==
    ASSUME EchoInv, NEW w \in 1 .. Len(workers), NEW x \in Workers,
           workers' = [workers EXCEPT ![w] = x]
    PROVE  /\ workers' \in Seq(Workers) /\ Len(workers') = Len(workers)
           /\ \A v \in 1 .. Len(workers) : workers'[v] = IF v = w THEN x ELSE workers[v]
BY SeqAltered DEF EchoInv, EchoTypes

\* A step of one worker that takes no request and injects nothing.
LEMMA OneWorkerSteps ==
    ASSUME EchoInv, NEW w \in 1 .. Len(workers), NEW x \in Workers,
           workers' = [workers EXCEPT ![w] = x], x.key = workers[w].key, OneAtATime(x),
           \A n \in Nat : Has(x, n) => Has(workers[w], n),
           workers[w].state # "ended",
           UNCHANGED <<requests, expired, flows, injected>>
    PROVE  EchoInv'
<1>1. /\ workers' \in Seq(Workers) /\ Len(workers') = Len(workers)
      /\ \A v \in 1 .. Len(workers) : workers'[v] = IF v = w THEN x ELSE workers[v]
  BY Replaced, ZenonT(30)
<1>2. EchoTypes'
  BY <1>1, ZenonT(30) DEF EchoInv, EchoTypes
<1>3. Exclusive'
  <2>1. \A v \in 1 .. Len(workers'), n \in Nat : Has(workers'[v], n) => Has(workers[v], n)
    BY <1>1, ZenonT(30)
  <2>2. \A v \in 1 .. Len(workers') : OneAtATime(workers'[v])
    BY <1>1, ZenonT(30) DEF EchoInv, Exclusive
  <2>3. ASSUME NEW v \in 1 .. Len(workers'), NEW n \in Nat, Has(workers'[v], n)
        PROVE  /\ n <= Len(requests')
               /\ \A u \in 1 .. Len(workers') : Has(workers'[u], n) => u = v
               /\ \A i \in 1 .. Len(injected') : injected'[i].request # n
    BY <1>1, <2>1, <2>3, ZenonT(30) DEF EchoInv, Exclusive
  <2>4. QED
    BY <2>2, <2>3, ZenonT(30) DEF EchoInv, Exclusive
<1>4. Table'
  <2>1. Taken' = Taken
    BY ZenonT(30) DEF Taken
  <2>2. QED
    BY <1>1, <2>1 DEF EchoInv, Table, Taken
<1>5. QED
  BY <1>2, <1>3, <1>4, ZenonT(30) DEF EchoInv, OwnReply

\* A worker that ends has nothing left.
LEMMA EndStep ==
    ASSUME EchoInv, NEW w \in 1 .. Len(workers), workers[w].state # "ended", End(w),
           UNCHANGED <<requests, expired, flows>>
    PROVE  EchoInv'
<1> DEFINE x == [workers[w] EXCEPT !.state = "ended", !.current = 0, !.queue = <<>>,
                                   !.asked = {}, !.replies = <<>>]
<1>1. workers[w] \in Workers
  BY WorkerFacts, ZenonT(30)
<1>2. x \in Workers /\ x.key = workers[w].key
  BY <1>1, SeqEmpty, ZenonT(30) DEF Workers
<1>3. x.current = 0 /\ x.queue = <<>> /\ x.asked = {} /\ x.replies = <<>> /\ x.state = "ended"
  BY <1>1, ZenonT(30) DEF Workers
<1>4. workers' = [workers EXCEPT ![w] = x]
  BY ZenonT(30) DEF End
<1>5. OneAtATime(x) /\ \A n \in Nat : ~ Has(x, n)
  BY <1>3 DEF OneAtATime, Has
<1>6. QED
  <2> HIDE DEF x
  <2>1. UNCHANGED injected
    BY ZenonT(30) DEF End
  <2>2. QED
    BY <1>2, <1>4, <1>5, <2>1, OneWorkerSteps, ZenonT(30)

-----------------------------------------------------------------------------
\* The private SOCKS5 command ends.
LEMMA ConnectStep ==
    ASSUME EchoInv, NEW w \in 1 .. Len(workers), EchoConnect(w), UNCHANGED <<requests, expired, flows>>
    PROVE  EchoInv'
<1> DEFINE x == [workers[w] EXCEPT !.state = "idle"]
<1>1. workers[w] \in Workers /\ OneAtATime(workers[w]) /\ workers[w].state = "connecting"
  BY WorkerFacts, ZenonT(30) DEF EchoConnect
<1>2. CASE workers' = [workers EXCEPT ![w].state = "idle"] /\ UNCHANGED injected
  <2>1. x \in Workers /\ x.key = workers[w].key /\ workers' = [workers EXCEPT ![w] = x]
    BY <1>1, <1>2, ZenonT(30) DEF Workers
  <2>2. OneAtATime(x) /\ \A n \in Nat : Has(x, n) => Has(workers[w], n)
    BY <1>1, ZenonT(30) DEF OneAtATime, Has, Workers
  <2> HIDE DEF x
  <2>3. QED
    BY <1>1, <1>2, <2>1, <2>2, OneWorkerSteps, ZenonT(30)
<1>3. CASE End(w)
  BY <1>1, <1>3, EndStep, ZenonT(30)
<1>4. QED
  BY <1>2, <1>3, ZenonT(30) DEF EchoConnect

\* Behind the first of a queue without repetitions, nothing repeats either, and
\* the first is not met again.
LEMMA TailOnce ==
    ASSUME NEW q \in Seq(Nat), q # <<>>, \A i, j \in 1 .. Len(q) : q[i] = q[j] => i = j
    PROVE  /\ \A i, j \in 1 .. Len(Tail(q)) : Tail(q)[i] = Tail(q)[j] => i = j
           /\ \A i \in 1 .. Len(Tail(q)) : Tail(q)[i] # q[1] /\ \E j \in 1 .. Len(q) : Tail(q)[i] = q[j]
<1>1. \A i \in 1 .. Len(Tail(q)) : i + 1 \in 1 .. Len(q) /\ i + 1 # 1 /\ Tail(q)[i] = q[i + 1] /\ 1 \in 1 .. Len(q)
  OBVIOUS
<1>2. \A i, j \in 1 .. Len(Tail(q)) : i + 1 = j + 1 => i = j
  OBVIOUS
<1>3. QED
  BY <1>1, <1>2, ZenonT(30)

\* The next request of the queue becomes the current one, or is skipped.
LEMMA TakeStep ==
    ASSUME EchoInv, NEW w \in 1 .. Len(workers), TakeRequest(w), UNCHANGED <<requests, expired, flows>>
    PROVE  EchoInv'
<1> DEFINE n == Head(workers[w].queue)
           c == IF n <= expired THEN 0 ELSE n
           s == IF n <= expired THEN "idle" ELSE "writing"
           x == [workers[w] EXCEPT !.queue = Tail(@), !.current = c, !.state = s]
<1>1. /\ workers[w] \in Workers /\ OneAtATime(workers[w]) /\ workers[w].state = "idle"
      /\ workers[w].queue \in Seq(Nat) /\ workers[w].queue # <<>> /\ workers[w].current = 0
  BY WorkerFacts, ZenonT(30) DEF TakeRequest, Workers, OneAtATime
<1>2. /\ n \in Nat /\ n = workers[w].queue[1] /\ Tail(workers[w].queue) \in Seq(Nat)
      /\ Len(workers[w].queue) \in Nat /\ Len(workers[w].queue) > 0
      /\ Len(Tail(workers[w].queue)) = Len(workers[w].queue) - 1
      /\ \A i \in 1 .. Len(Tail(workers[w].queue)) : Tail(workers[w].queue)[i] = workers[w].queue[i + 1]
  BY <1>1, SeqTail, SeqEmpty
<1>3. c \in Nat /\ n # 0 /\ c \in {0, n} /\ (c # 0 <=> s = "writing") /\ s \in {"idle", "writing"}
  <2>1. workers[w].queue[1] # 0
    BY <1>1, <1>2 DEF OneAtATime
  <2>2. n \in Nat /\ n # 0
    BY <1>2, <2>1, ZenonT(30)
  <2> HIDE DEF n
  <2>3. QED
    BY <2>2, ZenonT(30)
<1> HIDE DEF n, c, s
<1>4. /\ x \in Workers /\ x.key = workers[w].key /\ x.current = c /\ x.state = s
      /\ x.queue = Tail(workers[w].queue)
      /\ x.asked = workers[w].asked /\ x.replies = workers[w].replies
  BY <1>1, <1>2, <1>3, ZenonT(30) DEF Workers
<1>5. workers' = [workers EXCEPT ![w] = x] /\ UNCHANGED injected
  BY ZenonT(30) DEF TakeRequest, n, c, s
<1> HIDE DEF x
<1>6. OneAtATime(x)
  <2>1. x.asked = {} /\ x.replies = <<>>
    BY <1>1, <1>4, ZenonT(30) DEF OneAtATime
  <2>2. \A i, j \in 1 .. Len(workers[w].queue) : workers[w].queue[i] = workers[w].queue[j] => i = j
    BY <1>1, ZenonT(30) DEF OneAtATime
  <2>3. \A i \in 1 .. Len(workers[w].queue) : workers[w].queue[i] # 0
    BY <1>1, ZenonT(30) DEF OneAtATime
  <2>4. /\ \A i, j \in 1 .. Len(Tail(workers[w].queue)) :
              Tail(workers[w].queue)[i] = Tail(workers[w].queue)[j] => i = j
        /\ \A i \in 1 .. Len(Tail(workers[w].queue)) :
              /\ Tail(workers[w].queue)[i] # workers[w].queue[1]
              /\ \E j \in 1 .. Len(workers[w].queue) : Tail(workers[w].queue)[i] = workers[w].queue[j]
    <3> DEFINE q == workers[w].queue
    <3> HIDE DEF q
    <3>1. q \in Seq(Nat) /\ q # <<>> /\ \A i, j \in 1 .. Len(q) : q[i] = q[j] => i = j
      BY <1>1, <2>2, ZenonT(30) DEF q
    <3>2. QED
      BY <3>1, TailOnce, ZenonT(30) DEF q
  <2>5. \A i, j \in 1 .. Len(x.queue) : x.queue[i] = x.queue[j] => i = j
    BY <1>4, <2>4
  <2>6. \A i \in 1 .. Len(x.queue) : x.queue[i] # 0 /\ x.queue[i] # n
    <3>1. \A i \in 1 .. Len(Tail(workers[w].queue)) :
             Tail(workers[w].queue)[i] # 0 /\ Tail(workers[w].queue)[i] # n
      BY <1>2, <2>3, <2>4, ZenonT(30)
    <3>2. QED
      BY <1>4, <3>1
  <2>7. QED
    BY <1>3, <1>4, <2>1, <2>5, <2>6, ZenonT(30) DEF OneAtATime
<1>7. \A m \in Nat : Has(x, m) => Has(workers[w], m)
  <2> SUFFICES ASSUME NEW m \in Nat, Has(x, m) PROVE Has(workers[w], m)
    BY ZenonT(30)
  <2>1. CASE m = c
    BY <1>2, <1>3, <2>1 DEF Has
  <2>2. ASSUME NEW i \in 1 .. Len(x.queue), x.queue[i] = m PROVE Has(workers[w], m)
    <3>1. i + 1 \in 1 .. Len(workers[w].queue) /\ workers[w].queue[i + 1] = m
      BY <1>2, <1>4, <2>2
    <3>2. QED
      BY <3>1, ZenonT(30) DEF Has
  <2>3. QED
    BY <1>4, <2>1, <2>2, ZenonT(30) DEF Has
<1>8. QED
  BY <1>1, <1>4, <1>5, <1>6, <1>7, OneWorkerSteps, ZenonT(30)

\* The current request is asked of the proxy.
LEMMA WriteStep ==
    ASSUME EchoInv, NEW w \in 1 .. Len(workers), WritePacket(w), UNCHANGED <<requests, expired, flows>>
    PROVE  EchoInv'
<1> DEFINE x == [workers[w] EXCEPT !.state = "reading", !.asked = @ \cup {workers[w].current}]
<1>1. workers[w] \in Workers /\ OneAtATime(workers[w]) /\ workers[w].state = "writing"
  BY WorkerFacts, ZenonT(30) DEF WritePacket
<1>2. /\ x \in Workers /\ x.key = workers[w].key
      /\ workers' = [workers EXCEPT ![w] = x] /\ UNCHANGED injected
  BY <1>1, ZenonT(30) DEF Workers, WritePacket
<1>3. OneAtATime(x) /\ \A n \in Nat : Has(x, n) => Has(workers[w], n)
  BY <1>1, ZenonT(30) DEF OneAtATime, Has, Workers
<1> HIDE DEF x
<1>4. QED
  BY <1>1, <1>2, <1>3, OneWorkerSteps, ZenonT(30)

\* A report of the proxy: it is about the current request.
LEMMA ReportStep ==
    ASSUME EchoInv, NEW w \in 1 .. Len(workers), RemoteReports(w)
    PROVE  EchoInv'
<1>1. PICK n \in workers[w].asked, p \in Payloads \cup {"damaged"} :
          workers' = [workers EXCEPT ![w].asked = @ \ {n},
                                     ![w].replies = Append(@, [answers |-> n, payload |-> p])]
  BY ZenonT(30) DEF RemoteReports
<1> DEFINE m == [answers |-> n, payload |-> p]
           x == [workers[w] EXCEPT !.asked = @ \ {n}, !.replies = Append(@, m)]
<1>2. workers[w] \in Workers /\ OneAtATime(workers[w])
  BY WorkerFacts, ZenonT(30)
<1>3. /\ workers[w].state = "reading" /\ n = workers[w].current /\ workers[w].replies = <<>>
      /\ n \in Nat /\ workers[w].asked \ {n} = {}
  BY <1>2 DEF OneAtATime, Workers
<1>4. m \in ReplySet /\ Append(workers[w].replies, m) = <<m>> /\ <<m>> \in Seq(ReplySet)
  BY <1>3 DEF ReplySet
<1>5. x \in Workers /\ x.key = workers[w].key /\ workers' = [workers EXCEPT ![w] = x]
  BY <1>1, <1>2, <1>3, <1>4, ZenonT(30) DEF Workers
<1>6. /\ x.state = "reading" /\ x.current = n /\ x.queue = workers[w].queue
      /\ x.asked = {} /\ x.replies = <<m>>
  BY <1>2, <1>3, <1>4, ZenonT(30) DEF Workers
<1>7. Len(<<m>>) = 1 /\ <<m>>[1].answers = n
  BY ZenonT(30)
<1>8. OneAtATime(x) /\ \A k \in Nat : Has(x, k) => Has(workers[w], k)
  <2> HIDE DEF x, m
  <2>1. QED
    BY <1>2, <1>3, <1>6, <1>7 DEF OneAtATime, Has
<1> HIDE DEF x, m
<1>9. QED
  BY <1>3, <1>5, <1>8, OneWorkerSteps, ZenonT(30) DEF RemoteReports

\* A reply that mirrors the current request is injected: the first for it.
LEMMA InjectStep ==
    ASSUME EchoInv, NEW w \in 1 .. Len(workers), UNCHANGED <<requests, expired, flows>>,
           workers[w].state = "reading", workers[w].replies # <<>>,
           workers' = [workers EXCEPT ![w].state = "idle", ![w].current = 0, ![w].replies = Tail(@)],
           injected' = Append(injected, [request |-> workers[w].current,
                                         answers |-> Head(workers[w].replies).answers])
    PROVE  EchoInv'
<1> DEFINE x == [workers[w] EXCEPT !.state = "idle", !.current = 0, !.replies = Tail(@)]
           c == workers[w].current
           new == [request |-> c, answers |-> Head(workers[w].replies).answers]
<1>1. workers[w] \in Workers /\ OneAtATime(workers[w])
  BY WorkerFacts, ZenonT(30)
<1>2. /\ c \in Nat /\ c # 0 /\ workers[w].replies \in Seq(ReplySet) /\ Len(workers[w].replies) = 1
      /\ workers[w].asked = {} /\ workers[w].replies[1].answers = c
  BY <1>1, ZenonT(30) DEF OneAtATime, Workers
<1>3. Tail(workers[w].replies) = <<>> /\ Head(workers[w].replies) = workers[w].replies[1]
  <2>1. Tail(workers[w].replies) \in Seq(ReplySet) /\ Len(Tail(workers[w].replies)) = 0
    BY <1>2, SeqTail
  <2>2. Tail(workers[w].replies) = <<>>
    BY <2>1, SeqEmpty, ZenonT(30)
  <2>3. Head(workers[w].replies) = workers[w].replies[1]
    BY <1>2
  <2>4. QED
    BY <2>2, <2>3, ZenonT(30)
<1>4. new = [request |-> c, answers |-> c] /\ new \in InjectedSet /\ new.request = c
  BY <1>2, <1>3, ZenonT(30) DEF InjectedSet
<1>5. x \in Workers /\ x.key = workers[w].key /\ workers' = [workers EXCEPT ![w] = x]
  BY <1>1, <1>3, SeqEmpty, ZenonT(30) DEF Workers
<1>6. /\ x.state = "idle" /\ x.current = 0 /\ x.queue = workers[w].queue /\ x.asked = {}
      /\ x.replies = <<>>
  BY <1>1, <1>2, <1>3, ZenonT(30) DEF Workers
<1>7. injected' = Append(injected, new)
  BY ZenonT(30)
<1> HIDE DEF x, new
<1>8. OneAtATime(x)
  BY <1>1, <1>6 DEF OneAtATime
<1>9. \A n \in Nat : Has(x, n) => Has(workers[w], n) /\ n # c
  BY <1>1, <1>6, ZenonT(30) DEF Has, OneAtATime
<1>10. /\ workers' \in Seq(Workers) /\ Len(workers') = Len(workers)
       /\ \A v \in 1 .. Len(workers) : workers'[v] = IF v = w THEN x ELSE workers[v]
  BY <1>5, Replaced, ZenonT(30)
<1>11. /\ injected' \in Seq(InjectedSet) /\ Len(injected) \in Nat /\ Len(injected') = Len(injected) + 1
       /\ \A i \in 1 .. Len(injected) : injected'[i] = injected[i]
       /\ injected'[Len(injected) + 1] = new
       /\ DOMAIN injected = 1 .. Len(injected) /\ DOMAIN injected' = 1 .. Len(injected) + 1
  BY <1>4, <1>7, SeqAppended, SeqLength DEF EchoInv, EchoTypes
<1>12. Has(workers[w], c)
  BY <1>2, ZenonT(30) DEF Has
<1>13. \A i \in 1 .. Len(injected) : injected[i].request # c
  BY <1>2, <1>12, ZenonT(30) DEF EchoInv, Exclusive
<1>14. Exclusive'
  <2>1. \A v \in 1 .. Len(workers'), n \in Nat : Has(workers'[v], n) => Has(workers[v], n) /\ n # c
    <3> SUFFICES ASSUME NEW v \in 1 .. Len(workers'), NEW n \in Nat, Has(workers'[v], n)
                 PROVE  Has(workers[v], n) /\ n # c
      BY ZenonT(30)
    <3>1. CASE v = w
      BY <1>9, <1>10, <3>1, ZenonT(30)
    <3>2. CASE v # w
      BY <1>2, <1>10, <1>12, <3>2 DEF EchoInv, Exclusive
    <3>3. QED
      BY <3>1, <3>2, ZenonT(30)
  <2>2. \A v \in 1 .. Len(workers') : OneAtATime(workers'[v])
    BY <1>8, <1>10, ZenonT(30) DEF EchoInv, Exclusive
  <2>3. ASSUME NEW v \in 1 .. Len(workers'), NEW n \in Nat, Has(workers'[v], n)
        PROVE  /\ n <= Len(requests')
               /\ \A u \in 1 .. Len(workers') : Has(workers'[u], n) => u = v
               /\ \A i \in 1 .. Len(injected') : injected'[i].request # n
    <3>1. Has(workers[v], n) /\ n # c
      BY <2>1, <2>3, ZenonT(30)
    <3>2. n <= Len(requests') /\ \A u \in 1 .. Len(workers') : Has(workers'[u], n) => u = v
      BY <1>10, <2>1, <3>1, ZenonT(30) DEF EchoInv, Exclusive
    <3>3. \A i \in 1 .. Len(injected) : injected[i].request # n
      BY <1>10, <3>1, ZenonT(30) DEF EchoInv, Exclusive
    <3>4. \A i \in 1 .. Len(injected') : injected'[i].request # n
      BY <1>4, <1>11, <3>1, <3>3
    <3>5. QED
      BY <3>2, <3>4, ZenonT(30)
  <2>4. c <= Len(requests)
    BY <1>2, <1>12, ZenonT(30) DEF EchoInv, Exclusive
  <2>5. \A i \in 1 .. Len(injected') : injected'[i].request <= Len(requests')
    BY <1>4, <1>11, <2>4 DEF EchoInv, Exclusive
  <2>6. QED
    BY <2>2, <2>3, <2>5, ZenonT(30) DEF Exclusive
<1>15. Table'
  <2>1. Taken' = Taken
    BY ZenonT(30) DEF Taken
  <2>2. QED
    BY <1>5, <1>10, <2>1 DEF EchoInv, Table, Taken
<1>16. OwnReply'
  <2>1. \A i \in DOMAIN injected' : injected'[i].request = injected'[i].answers
    BY <1>4, <1>11 DEF EchoInv, OwnReply
  <2>2. \A i, j \in DOMAIN injected' : injected'[i] = injected'[j] => i = j
    BY <1>4, <1>11, <1>13 DEF EchoInv, OwnReply, IsInjective
  <2>3. QED
    BY <2>1, <2>2, ZenonT(30) DEF OwnReply, IsInjective
<1>17. EchoTypes'
  BY <1>10, <1>11, ZenonT(30) DEF EchoInv, EchoTypes
<1>18. QED
  BY <1>14, <1>15, <1>16, <1>17, ZenonT(30) DEF EchoInv

\* Every step of a worker.
LEMMA WorkerPreserves ==
    ASSUME EchoInv, NEW w \in 1 .. Len(workers), WorkerStep(w)
    PROVE  EchoInv'
<1>1. UNCHANGED <<requests, expired, flows>>
  BY ZenonT(30) DEF WorkerStep
<1>2. CASE ReadPacket(w)
  <2>1. CASE End(w)
    BY <1>1, <1>2, <2>1, EndStep, ZenonT(30) DEF ReadPacket
  <2>2. CASE ~ End(w)
    BY <1>1, <1>2, <2>2, InjectStep, ZenonT(30) DEF ReadPacket
  <2>3. QED
    BY <2>1, <2>2, ZenonT(30)
<1>3. CASE IdleTimeout(w) \/ EchoTimeout(w) \/ StreamFails(w)
  BY <1>1, <1>3, EndStep, ZenonT(30) DEF IdleTimeout, EchoTimeout, StreamFails
<1>4. QED
  BY <1>1, <1>2, <1>3, ConnectStep, TakeStep, WriteStep, ZenonT(30) DEF WorkerStep

-----------------------------------------------------------------------------
\* retain keeps the flows whose worker lives, and only those.
LEMMA RetainedFacts ==
    ASSUME EchoInv
    PROVE  LET left == {j \in EchoKeys : Retained[j] # 0} IN
           /\ Retained \in [EchoKeys -> Nat]
           /\ \A k \in left : /\ Retained[k] \in 1 .. Len(workers)
                              /\ workers[Retained[k]].key = k /\ workers[Retained[k]].state # "ended"
           /\ \A w \in 1 .. Len(workers) : workers[w].state # "ended" => Retained[workers[w].key] = w
           /\ IsFiniteSet(left) /\ Cardinality(left) \in Nat /\ Cardinality(left) <= MaxFlows
<1> DEFINE left == {j \in EchoKeys : Retained[j] # 0}
<1>1. Retained \in [EchoKeys -> Nat]
  BY ZenonT(30) DEF EchoInv, EchoTypes, Retained
<1>2. \A k \in left : /\ k \in Taken /\ Retained[k] \in 1 .. Len(workers)
                      /\ workers[Retained[k]].key = k /\ workers[Retained[k]].state # "ended"
  BY ZenonT(30) DEF EchoInv, EchoTypes, Table, Taken, Retained, HasEnded
<1>3. \A w \in 1 .. Len(workers) : workers[w].state # "ended" => Retained[workers[w].key] = w
  <2> SUFFICES ASSUME NEW w \in 1 .. Len(workers), workers[w].state # "ended"
               PROVE  Retained[workers[w].key] = w
    BY ZenonT(30)
  <2>1. workers[w].key \in EchoKeys /\ flows[workers[w].key] = w
    BY WorkerFacts, ZenonT(30) DEF Workers, EchoInv, Table
  <2>2. QED
    BY <2>1, ZenonT(30) DEF Retained, HasEnded
<1>4. IsFiniteSet(left) /\ Cardinality(left) <= Cardinality(Taken)
  <2>1. left \in SUBSET Taken
    BY <1>2, ZenonT(30)
  <2>2. QED
    BY <2>1, FS_Subset, ZenonT(30) DEF EchoInv, Table
<1>5. Cardinality(left) \in Nat /\ Cardinality(Taken) \in Nat
  BY <1>4, FS_CardinalityType, ZenonT(30) DEF EchoInv, Table
<1>6. Cardinality(left) <= MaxFlows
  BY <1>4, <1>5, EchoFlowsAssumption DEF EchoInv, Table
<1>7. QED
  BY <1>1, <1>2, <1>3, <1>4, <1>5, <1>6, ZenonT(30)

\* A request that arrives has a number of its own.
LEMMA NewRequest ==
    ASSUME EchoInv, NEW k \in EchoKeys, NEW p \in Payloads, Dispatch(k, p)
    PROVE  /\ Len(requests) \in Nat /\ requests' \in Seq(RequestSet)
           /\ Len(requests') = Len(requests) + 1
           /\ \A w \in 1 .. Len(workers), n \in Nat : Has(workers[w], n) => n <= Len(requests)
           /\ \A i \in 1 .. Len(injected) : injected[i].request \in Nat /\ injected[i].request <= Len(requests)
<1>1. [key |-> k, payload |-> p] \in RequestSet
  BY ZenonT(30) DEF RequestSet
<1>2. /\ Len(requests) \in Nat /\ requests' \in Seq(RequestSet)
      /\ Len(requests') = Len(requests) + 1
  BY <1>1, SeqAppended, SeqLength DEF EchoInv, EchoTypes, Dispatch
<1>3. \A i \in 1 .. Len(injected) : injected[i].request \in Nat
  <2>1. \A i \in 1 .. Len(injected) : injected[i] \in InjectedSet
    BY SeqLength, ZenonT(30) DEF EchoInv, EchoTypes
  <2>2. QED
    BY <2>1, ZenonT(30) DEF InjectedSet
<1>4. QED
  BY <1>2, <1>3, ZenonT(30) DEF EchoInv, Exclusive

\* A request of a new key past the limit is lost.
LEMMA DispatchLost ==
    ASSUME EchoInv, NEW k \in EchoKeys, NEW p \in Payloads, Dispatch(k, p),
           flows' = Retained, UNCHANGED workers
    PROVE  EchoInv'
<1>1. UNCHANGED <<expired, injected>>
  BY ZenonT(30) DEF Dispatch
<1>2. EchoTypes'
  BY <1>1, NewRequest, RetainedFacts, ZenonT(30) DEF EchoInv, EchoTypes
<1>3. Exclusive'
  <2>1. \A w \in 1 .. Len(workers), n \in Nat : Has(workers[w], n) => n <= Len(requests')
    BY NewRequest
  <2>2. \A i \in 1 .. Len(injected) : injected[i].request <= Len(requests')
    BY NewRequest
  <2>3. QED
    BY <1>1, <2>1, <2>2, ZenonT(30) DEF EchoInv, Exclusive
<1>4. Table'
  <2>1. Taken' = {j \in EchoKeys : Retained[j] # 0}
    BY ZenonT(30) DEF Taken
  <2>2. QED
    BY <2>1, RetainedFacts, ZenonT(30) DEF Table
<1>5. QED
  BY <1>1, <1>2, <1>3, <1>4, ZenonT(30) DEF EchoInv, OwnReply

\* A request of a new key, within the limit, gets a worker.
LEMMA DispatchNew ==
    ASSUME EchoInv, NEW k \in EchoKeys, NEW p \in Payloads, Dispatch(k, p),
           Cardinality({j \in EchoKeys : Retained[j] # 0}) < MaxFlows, Retained[k] = 0,
           flows' = [Retained EXCEPT ![k] = Len(workers) + 1],
           workers' = Append(workers, [key |-> k, state |-> "connecting", current |-> 0,
                                       queue |-> <<Len(requests) + 1>>, asked |-> {}, replies |-> <<>>])
    PROVE  EchoInv'
<1> DEFINE n == Len(requests) + 1
           q == <<n>>
           x == [key |-> k, state |-> "connecting", current |-> 0, queue |-> q,
                 asked |-> {}, replies |-> <<>>]
           left == {j \in EchoKeys : Retained[j] # 0}
<1>1. UNCHANGED <<expired, injected>>
  BY ZenonT(30) DEF Dispatch
<1>2. n \in Nat /\ n # 0 /\ q \in Seq(Nat) /\ Len(q) = 1 /\ q[1] = n
  BY NewRequest
<1>3. workers' = Append(workers, x)
  BY ZenonT(30)
<1> HIDE DEF n, q
<1>4. x \in Workers
  BY <1>2, SeqEmpty, ZenonT(30) DEF Workers
<1>5. /\ x.key = k /\ x.state = "connecting" /\ x.current = 0 /\ x.queue = q
      /\ x.asked = {} /\ x.replies = <<>>
  BY ZenonT(30)
<1> HIDE DEF x
<1>6. OneAtATime(x) /\ \A m \in Nat : Has(x, m) => m = n
  <2>1. \A i \in 1 .. Len(x.queue) : i = 1 /\ x.queue[i] = n
    <3>1. Len(x.queue) = 1 /\ x.queue[1] = n
      BY <1>2, <1>5, ZenonT(30)
    <3>2. \A i \in 1 .. 1 : i = 1
      OBVIOUS
    <3>3. QED
      BY <3>1, <3>2, ZenonT(30)
  <2>2. OneAtATime(x)
    BY <1>2, <1>5, <2>1, ZenonT(30) DEF OneAtATime
  <2>3. \A m \in Nat : Has(x, m) => m = n
    BY <1>5, <2>1, ZenonT(30) DEF Has
  <2>4. QED
    BY <2>2, <2>3, ZenonT(30)
<1>7. /\ Len(workers) \in Nat /\ workers' \in Seq(Workers) /\ Len(workers') = Len(workers) + 1
      /\ \A w \in 1 .. Len(workers) : workers'[w] = workers[w]
      /\ workers'[Len(workers) + 1] = x
      /\ \A w \in 1 .. Len(workers') : w \in 1 .. Len(workers) \/ w = Len(workers) + 1
  <2>1. workers \in Seq(Workers) /\ Len(workers) \in Nat
    BY SeqLength, ZenonT(30) DEF EchoInv, EchoTypes
  <2>2. /\ workers' \in Seq(Workers) /\ Len(workers') = Len(workers) + 1
        /\ \A w \in 1 .. Len(workers) : workers'[w] = workers[w]
        /\ workers'[Len(workers) + 1] = x
    BY <1>3, <1>4, <2>1, SeqAppended
  <2>3. QED
    BY <2>1, <2>2
<1>8. EchoTypes'
  BY <1>1, <1>7, NewRequest, RetainedFacts DEF EchoInv, EchoTypes
<1>9. Exclusive'
  <2>1. \A w \in 1 .. Len(workers') : OneAtATime(workers'[w])
    <3>1. \A w \in 1 .. Len(workers) : OneAtATime(workers[w])
      BY ZenonT(30) DEF EchoInv, Exclusive
    <3>2. QED
      BY <1>6, <1>7, <3>1, ZenonT(30)
  <2>2. ASSUME NEW w \in 1 .. Len(workers'), NEW m \in Nat, Has(workers'[w], m)
        PROVE  /\ m <= Len(requests')
               /\ \A v \in 1 .. Len(workers') : Has(workers'[v], m) => v = w
               /\ \A i \in 1 .. Len(injected') : injected'[i].request # m
    <3>1. CASE w = Len(workers) + 1
      <4>1. m = n
        BY <1>6, <1>7, <2>2, <3>1, ZenonT(30)
      <4>2. \A v \in 1 .. Len(workers) : ~ Has(workers[v], n)
        BY <1>2, NewRequest DEF n
      <4>3. \A i \in 1 .. Len(injected) : injected[i].request # n
        BY NewRequest DEF n
      <4>4. n <= Len(requests')
        BY NewRequest DEF n
      <4>5. QED
        BY <1>1, <1>7, <3>1, <4>1, <4>2, <4>3, <4>4, ZenonT(30)
    <3>2. CASE w \in 1 .. Len(workers)
      <4>1. Has(workers[w], m) /\ m # n /\ m <= Len(requests')
        BY <1>7, <2>2, <3>2, NewRequest DEF n
      <4>2. QED
        <5>1. ~ Has(x, m)
          BY <1>6, <4>1, ZenonT(30)
        <5>2. \A v \in 1 .. Len(workers) : Has(workers[v], m) => v = w
          BY <3>2, <4>1, ZenonT(30) DEF EchoInv, Exclusive
        <5>3. \A i \in 1 .. Len(injected) : injected[i].request # m
          BY <3>2, <4>1, ZenonT(30) DEF EchoInv, Exclusive
        <5>4. QED
          BY <1>1, <1>7, <3>2, <4>1, <5>1, <5>2, <5>3, ZenonT(30)
    <3>3. QED
      BY <1>7, <3>1, <3>2, ZenonT(30)
  <2>3. \A i \in 1 .. Len(injected') : injected'[i].request <= Len(requests')
    BY <1>1, NewRequest
  <2>4. QED
    BY <2>1, <2>2, <2>3, ZenonT(30) DEF Exclusive
<1>10. Table'
  <2>1. /\ flows'[k] = Len(workers) + 1 /\ Retained \in [EchoKeys -> Nat]
        /\ \A j \in EchoKeys \ {k} : flows'[j] = Retained[j]
    BY RetainedFacts, ZenonT(30)
  <2>2. Taken' = left \cup {k} /\ k \notin left
    BY <1>7, <2>1 DEF Taken
  <2>3. IsFiniteSet(left \cup {k}) /\ Cardinality(left \cup {k}) = Cardinality(left) + 1
    BY <2>2, FS_AddElement, RetainedFacts, ZenonT(30)
  <2>4. IsFiniteSet(Taken') /\ Cardinality(Taken') <= MaxFlows
    BY <2>2, <2>3, RetainedFacts, EchoFlowsAssumption
  <2>5. \A j \in Taken' : flows'[j] \in 1 .. Len(workers') /\ workers'[flows'[j]].key = j
    BY <1>5, <1>7, <2>1, <2>2, RetainedFacts
  <2>6. \A w \in 1 .. Len(workers') : workers'[w].state # "ended" => flows'[workers'[w].key] = w
    <3> SUFFICES ASSUME NEW w \in 1 .. Len(workers'), workers'[w].state # "ended"
                 PROVE  flows'[workers'[w].key] = w
      BY ZenonT(30)
    <3>1. CASE w = Len(workers) + 1
      BY <1>5, <1>7, <2>1, <3>1, ZenonT(30)
    <3>2. CASE w \in 1 .. Len(workers)
      <4>1. workers[w].key \in EchoKeys /\ Retained[workers[w].key] = w
        BY <1>7, <3>2, RetainedFacts, WorkerFacts, ZenonT(30) DEF Workers
      <4>2. QED
        BY <1>7, <2>1, <3>2, <4>1
    <3>3. QED
      BY <1>7, <3>1, <3>2, ZenonT(30)
  <2>7. QED
    BY <2>4, <2>5, <2>6, ZenonT(30) DEF Table
<1>11. QED
  BY <1>1, <1>8, <1>9, <1>10, ZenonT(30) DEF EchoInv, OwnReply

\* A request of a key that has a worker is queued, unless the queue is full.
LEMMA DispatchQueued ==
    ASSUME EchoInv, NEW k \in EchoKeys, NEW p \in Payloads, Dispatch(k, p),
           Retained[k] # 0, flows' = Retained,
           workers' = [workers EXCEPT ![Retained[k]].queue = Append(@, Len(requests) + 1)]
    PROVE  EchoInv'
<1> DEFINE w == Retained[k]
           n == Len(requests) + 1
           x == [workers[w] EXCEPT !.queue = Append(@, n)]
<1>1. UNCHANGED <<expired, injected>>
  BY ZenonT(30) DEF Dispatch
<1>2. w \in 1 .. Len(workers) /\ workers[w].state # "ended"
  BY RetainedFacts, ZenonT(30)
<1> HIDE DEF w
<1>3. workers[w] \in Workers /\ OneAtATime(workers[w]) /\ workers[w].queue \in Seq(Nat)
  BY <1>2, WorkerFacts, ZenonT(30) DEF Workers
<1>4. n \in Nat /\ n # 0 /\ ~ Has(workers[w], n)
  BY <1>2, NewRequest
<1>5. workers' = [workers EXCEPT ![w] = x]
  BY ZenonT(30) DEF w
<1> HIDE DEF n
<1>6. /\ Append(workers[w].queue, n) \in Seq(Nat) /\ Len(workers[w].queue) \in Nat
      /\ Len(Append(workers[w].queue, n)) = Len(workers[w].queue) + 1
      /\ \A i \in 1 .. Len(workers[w].queue) : Append(workers[w].queue, n)[i] = workers[w].queue[i]
      /\ Append(workers[w].queue, n)[Len(workers[w].queue) + 1] = n
  BY <1>3, <1>4, SeqAppended, SeqLength
<1>7. /\ x \in Workers /\ x.key = workers[w].key /\ x.state = workers[w].state
      /\ x.current = workers[w].current /\ x.queue = Append(workers[w].queue, n)
      /\ x.asked = workers[w].asked /\ x.replies = workers[w].replies
  BY <1>3, <1>6, ZenonT(30) DEF Workers
<1> HIDE DEF x
<1>8. \A i \in 1 .. Len(x.queue) :
          \/ i \in 1 .. Len(workers[w].queue) /\ x.queue[i] = workers[w].queue[i] /\ x.queue[i] # n
          \/ i = Len(workers[w].queue) + 1 /\ x.queue[i] = n
  BY <1>4, <1>6, <1>7 DEF Has
<1>9. OneAtATime(x)
  <2>1. workers[w].current # n
    BY <1>4, ZenonT(30) DEF Has
  <2>2. \A i, j \in 1 .. Len(x.queue) : x.queue[i] = x.queue[j] => i = j
    BY <1>3, <1>8, ZenonT(30) DEF OneAtATime
  <2>3. \A i \in 1 .. Len(x.queue) : x.queue[i] # 0 /\ x.queue[i] # x.current
    BY <1>3, <1>4, <1>7, <1>8, <2>1, ZenonT(30) DEF OneAtATime
  <2>4. QED
    BY <1>2, <1>3, <1>7, <2>2, <2>3, ZenonT(30) DEF OneAtATime
<1>10. \A m \in Nat : Has(x, m) => Has(workers[w], m) \/ m = n
  BY <1>7, <1>8, ZenonT(30) DEF Has
<1>11. /\ workers' \in Seq(Workers) /\ Len(workers') = Len(workers)
       /\ \A v \in 1 .. Len(workers) : workers'[v] = IF v = w THEN x ELSE workers[v]
  <2>1. x \in Workers
    BY <1>7, ZenonT(30)
  <2>2. QED
    BY ONLY EchoInv, <1>2, <1>5, <2>1, Replaced, ZenonT(30)
<1>12. EchoTypes'
  BY <1>1, <1>11, NewRequest, RetainedFacts, ZenonT(30) DEF EchoInv, EchoTypes
<1>13. Exclusive'
  <2>1. \A v \in 1 .. Len(workers') : OneAtATime(workers'[v])
    BY <1>9, <1>11, ZenonT(30) DEF EchoInv, Exclusive
  <2>2. \A v \in 1 .. Len(workers'), m \in Nat :
            Has(workers'[v], m) => Has(workers[v], m) \/ (v = w /\ m = n)
    BY <1>10, <1>11, ZenonT(30)
  <2>3. /\ \A v \in 1 .. Len(workers') : ~ Has(workers[v], n)
        /\ \A i \in 1 .. Len(injected) : injected[i].request # n
        /\ n <= Len(requests')
    BY <1>4, <1>11, NewRequest DEF n
  <2>4. ASSUME NEW v \in 1 .. Len(workers'), NEW m \in Nat, Has(workers'[v], m)
        PROVE  /\ m <= Len(requests')
               /\ \A u \in 1 .. Len(workers') : Has(workers'[u], m) => u = v
               /\ \A i \in 1 .. Len(injected') : injected'[i].request # m
    <3>1. CASE m = n
      BY <1>1, <2>2, <2>3, <2>4, <3>1, ZenonT(30)
    <3>2. CASE m # n
      <4>1. Has(workers[v], m)
        BY <2>2, <2>4, <3>2, ZenonT(30)
      <4>2. m <= Len(requests')
        BY <1>11, <4>1, NewRequest
      <4>3. /\ \A u \in 1 .. Len(workers) : Has(workers[u], m) => u = v
            /\ \A i \in 1 .. Len(injected) : injected[i].request # m
        BY <1>11, <4>1, ZenonT(30) DEF EchoInv, Exclusive
      <4>4. QED
        BY <1>1, <1>11, <2>2, <3>2, <4>2, <4>3, ZenonT(30)
    <3>3. QED
      BY <3>1, <3>2, ZenonT(30)
  <2>5. \A i \in 1 .. Len(injected') : injected'[i].request <= Len(requests')
    BY <1>1, NewRequest
  <2>6. QED
    BY <2>1, <2>4, <2>5, ZenonT(30) DEF Exclusive
<1>14. Table'
  <2>1. Taken' = {j \in EchoKeys : Retained[j] # 0}
    BY ZenonT(30) DEF Taken
  <2>2. \A v \in 1 .. Len(workers) :
            workers'[v].key = workers[v].key /\ workers'[v].state = workers[v].state
    BY <1>7, <1>11, ZenonT(30)
  <2>3. QED
    BY <1>11, <2>1, <2>2, RetainedFacts DEF Table
<1>15. QED
  BY <1>1, <1>12, <1>13, <1>14, ZenonT(30) DEF EchoInv, OwnReply

\* A request that arrives, whatever becomes of it.
LEMMA DispatchPreserves ==
    ASSUME EchoInv, NEW k \in EchoKeys, NEW p \in Payloads, Dispatch(k, p)
    PROVE  EchoInv'
<1>1. Retained[k] \in Nat /\ Cardinality({j \in EchoKeys : Retained[j] # 0}) \in Nat
  BY RetainedFacts, ZenonT(30)
<1>2. CASE flows' = Retained /\ UNCHANGED workers
  BY <1>2, DispatchLost, ZenonT(30)
<1>3. CASE /\ Retained[k] = 0 /\ flows' = [Retained EXCEPT ![k] = Len(workers) + 1]
           /\ ~ (Cardinality({j \in EchoKeys : Retained[j] # 0}) >= MaxFlows)
           /\ workers' = Append(workers, [key |-> k, state |-> "connecting", current |-> 0,
                                          queue |-> <<Len(requests) + 1>>, asked |-> {}, replies |-> <<>>])
  <2>1. Cardinality({j \in EchoKeys : Retained[j] # 0}) < MaxFlows
    BY <1>1, <1>3, EchoFlowsAssumption
  <2>2. QED
    BY <1>3, <2>1, DispatchNew, Zenon
<1>4. CASE /\ Retained[k] # 0 /\ flows' = Retained
           /\ workers' = [workers EXCEPT ![Retained[k]].queue = Append(@, Len(requests) + 1)]
  BY <1>4, DispatchQueued, ZenonT(30)
<1>5. QED
  BY <1>2, <1>3, <1>4, ZenonT(30) DEF Dispatch

-----------------------------------------------------------------------------
\* EchoInv is inductive.
LEMMA EchoPreserves == EchoInv /\ [EchoNext]_echoVars => EchoInv'
<1> SUFFICES ASSUME EchoInv, [EchoNext]_echoVars PROVE EchoInv'
  BY ZenonT(30)
<1>1. DOMAIN workers = 1 .. Len(workers)
  BY SeqLength, ZenonT(30) DEF EchoInv, EchoTypes
<1>2. CASE DeadlinePasses
  BY <1>2 DEF DeadlinePasses, EchoInv, EchoTypes, Exclusive, Table, Taken, OwnReply
<1>3. CASE UNCHANGED echoVars
  BY <1>3, ZenonT(30) DEF echoVars, EchoInv, EchoTypes, Exclusive, Table, Taken, OwnReply
<1>4. QED
  BY <1>1, <1>2, <1>3, DispatchPreserves, WorkerPreserves, ReportStep, ZenonT(30) DEF EchoNext

\* Nothing has arrived.
LEMMA EchoStarts == EchoInit => EchoInv
<1> SUFFICES ASSUME EchoInit PROVE EchoInv
  BY ZenonT(30)
<1>1. EchoTypes /\ Exclusive /\ OwnReply
  BY SeqEmpty DEF EchoInit, EchoTypes, Exclusive, OwnReply, IsInjective
<1>2. Taken = {}
  BY ZenonT(30) DEF EchoInit, Taken
<1>3. Table
  BY <1>2, FS_EmptySet, EchoFlowsAssumption DEF EchoInit, Table
<1>4. QED
  BY <1>1, <1>3, ZenonT(30) DEF EchoInv

\* The invariant holds throughout, however flows end and come back.
THEOREM EchoInvariant == EchoSpec => []EchoInv
BY EchoStarts, EchoPreserves, PTL DEF EchoSpec

\* A program that pings gets the reply to its own request, once.
THEOREM RepliesOwned == EchoSpec => []OwnReply
<1>1. EchoInv => OwnReply
  BY ZenonT(30) DEF EchoInv
<1>2. QED
  BY <1>1, EchoInvariant, PTL

\* MAX_FLOWS bounds the streams to the local proxy, one for each key.
THEOREM WorkersBounded == EchoSpec => []OneWorker
<1>1. EchoInv => OneWorker
  <2> SUFFICES ASSUME EchoInv PROVE OneWorker
    BY ZenonT(30)
  <2> DEFINE live == {w \in DOMAIN workers : ~ HasEnded(w)}
             f == [w \in live |-> workers[w].key]
  <2>1. DOMAIN workers = 1 .. Len(workers)
    BY SeqLength, ZenonT(30) DEF EchoInv, EchoTypes
  <2>2. \A w \in live : /\ workers[w].key \in EchoKeys /\ flows[workers[w].key] = w /\ w # 0
    BY <2>1, WorkerFacts DEF HasEnded, Workers, EchoInv, Table
  <2>3. f \in Injection(live, Taken)
    BY <2>2 DEF Injection, IsInjective, Taken
  <2>4. IsFiniteSet(live) /\ Cardinality(live) <= Cardinality(Taken)
    <3> HIDE DEF live, f
    <3>1. QED
      BY <2>3, FS_Injection, ZenonT(30) DEF EchoInv, Table
  <2>5. Cardinality(live) \in Nat /\ Cardinality(Taken) \in Nat
    BY <2>4, FS_CardinalityType, ZenonT(30) DEF EchoInv, Table
  <2>6. Cardinality(live) <= MaxFlows
    BY <2>4, <2>5, EchoFlowsAssumption DEF EchoInv, Table
  <2>7. QED
    BY <2>2, <2>6, ZenonT(30) DEF OneWorker
<1>2. QED
  BY <1>1, EchoInvariant, PTL

-----------------------------------------------------------------------------
(* Process bypass.                                                         *)
Progress == {"idle", "captured", "waiting", "lookup", "identified", "relaying", "woken"}

CacheSet == [entries : [Ports -> Owner], covers : SUBSET Flows]

JobSet ==
    [flow : Flows \cup {NoFlow}, walk : {"no", "ready", "walking", "read"},
     covers : SUBSET Flows, entries : [Ports -> Owner]]

FlowSet ==
    [pc : Progress, port : Ports \cup {CHOOSE p \in Ports : TRUE}, seen : Nat,
     identity : Owner, bypass : BOOLEAN]

PolicyTypes ==
    /\ revision \in Nat /\ pending \in Nat
    /\ owner \in [Ports -> Owner]
    /\ cache \in CacheSet /\ job \in JobSet
    /\ flow \in [Flows -> FlowSet]
    /\ since \in [Flows -> SUBSET Owner]

(* A snapshot gives a flow nobody, or one who had its port since.          *)
Fresh(f, entries) == entries[flow[f].port] \in since[f] \cup {NoApp}

(* One flow: who has its port now is one of the owners since its capture,  *)
(* it has no identity before its lookup, and a snapshot that covers it was *)
(* started after it asked.                                                 *)
FlowInv(f) ==
    /\ flow[f].pc # "idle" => flow[f].port \in Ports /\ owner[flow[f].port] \in since[f]
    /\ flow[f].pc \in {"idle", "captured", "waiting", "lookup"} => flow[f].identity = NoApp
    /\ flow[f].identity # NoApp => flow[f].identity \in since[f]
    /\ flow[f].pc = "lookup" <=> job.flow = f
    /\ f \in cache.covers => flow[f].pc # "idle" /\ Fresh(f, cache.entries)
    /\ f \in job.covers => /\ job.walk \in {"walking", "read"}
                           /\ flow[f].pc \in {"waiting", "lookup"}
                           /\ job.walk = "read" => Fresh(f, job.entries)
    /\ job.flow = f /\ job.walk \in {"walking", "read"} => f \in job.covers
    /\ flow[f].seen <= revision

PolicyInv ==
    /\ PolicyTypes
    /\ job.walk = "no" => job = NoJob
    /\ \A f \in Flows : FlowInv(f)
    /\ NoMissedUpdate

-----------------------------------------------------------------------------
\* A flow that is not in use, and the slot when it is free.
LEMMA Rest ==
    /\ NoFlowState \in FlowSet /\ NoFlowState.pc = "idle" /\ NoFlowState.seen = 0
    /\ NoFlowState.identity = NoApp
    /\ NoJob \in JobSet /\ NoJob.flow = NoFlow /\ NoJob.walk = "no" /\ NoJob.covers = {}
    /\ Cleared \in [Ports -> Owner] /\ \A p \in Ports : Cleared[p] = NoApp
BY DEF NoFlowState, FlowSet, Progress, NoJob, JobSet, Owner, Cleared

\* The list is replaced, or the change announced.
LEMMA UpdateSteps ==
    ASSUME PolicyInv, NEW list \in SUBSET Apps, SetNames(list) \/ SendModify
    PROVE  PolicyInv'
<1>1. UNCHANGED <<owner, cache, job, flow, since>>
  BY DEF SetNames, SendModify
<1>2. revision \in Nat /\ pending \in Nat
  BY DEF PolicyInv, PolicyTypes
<1>3. /\ revision' \in Nat /\ pending' \in Nat /\ revision <= revision'
      /\ pending' > 0 \/ revision' = revision + 1
  BY <1>2 DEF SetNames, SendModify
<1>4. PolicyTypes'
  BY <1>1, <1>3 DEF PolicyInv, PolicyTypes
<1>5. ASSUME NEW g \in Flows PROVE FlowInv(g)' /\ flow[g].seen \in Nat /\ flow[g].seen <= revision
  <2>1. flow[g].seen \in Nat /\ flow[g].seen <= revision /\ flow[g].seen <= revision'
    BY <1>2, <1>3 DEF PolicyInv, PolicyTypes, FlowInv, FlowSet
  <2>2. QED
    BY <1>1, <2>1 DEF PolicyInv, FlowInv, Fresh
<1>6. NoMissedUpdate'
  <2> SUFFICES ASSUME NEW g \in Flows, pending' = 0, flow'[g].seen = revision' PROVE FALSE
    BY DEF NoMissedUpdate
  <2>1. revision' = revision + 1
    BY <1>3
  <2>2. QED
    BY <1>1, <1>2, <1>5, <2>1
<1>7. QED
  BY <1>1, <1>4, <1>5, <1>6 DEF PolicyInv

\* What a flow's own step does not touch: the other flows and the list.
LEMMA OwnStep ==
    ASSUME PolicyInv, NEW f \in Flows, UNCHANGED <<policy, owner>>, PolicyTypes',
           job'.walk = "no" => job' = NoJob,
           \A g \in Flows \ {f} : flow'[g] = flow[g] /\ since'[g] = since[g],
           \A g \in Flows \ {f} : FlowInv(g)',
           FlowInv(f)',
           HasMatcher /\ flow'[f].pc = "relaying" => (flow'[f].bypass <=> flow'[f].identity \in names)
    PROVE  PolicyInv'
<1>1. UNCHANGED <<names, revision, pending>>
  BY DEF policy
<1>2. ASSUME NEW g \in Flows, HasMatcher, flow'[g].pc = "relaying", pending = 0, flow'[g].seen = revision
      PROVE  flow'[g].bypass <=> flow'[g].identity \in names
  BY <1>2 DEF PolicyInv, NoMissedUpdate, Matches
<1>3. NoMissedUpdate'
  BY <1>1, <1>2 DEF NoMissedUpdate, Matches, HasMatcher
<1>4. QED
  BY <1>3 DEF PolicyInv

\* A flow's step that leaves the cache, the lookup and every owner alone, and keeps
\* the flow's port and its identity.
LEMMA QuietStep ==
    ASSUME PolicyInv, NEW f \in Flows, UNCHANGED <<policy, owner, cache, job, since>>,
           NEW s \in FlowSet, flow' = [flow EXCEPT ![f] = s],
           s.port = flow[f].port, s.identity = flow[f].identity, s.seen <= revision,
           flow[f].pc \notin {"idle", "lookup"}, s.pc \notin {"idle", "lookup"},
           s.pc = "waiting" => flow[f].identity = NoApp, s.pc # "captured",
           flow[f].pc # "waiting",
           HasMatcher /\ s.pc = "relaying" => (s.bypass <=> s.identity \in names)
    PROVE  PolicyInv'
<1>1. UNCHANGED <<names, revision, pending>>
  BY DEF policy
<1>2. /\ flow \in [Flows -> FlowSet] /\ flow'[f] = s
      /\ \A g \in Flows \ {f} : flow'[g] = flow[g]
  BY DEF PolicyInv, PolicyTypes
<1>3. PolicyTypes'
  BY <1>1, <1>2, ZenonT(30) DEF PolicyInv, PolicyTypes
<1>4. ASSUME NEW g \in Flows \ {f} PROVE FlowInv(g)'
  BY <1>1, <1>2, ZenonT(30) DEF PolicyInv, FlowInv, Fresh
<1>5. FlowInv(f)'
  BY <1>1, <1>2 DEF PolicyInv, FlowInv, Fresh
<1>6. QED
  BY <1>2, <1>3, <1>4, <1>5, OwnStep DEF PolicyInv

\* The flow subscribes, decides, wakes up or goes on as before.
LEMMA QuietSteps ==
    ASSUME PolicyInv, NEW f \in Flows,
           \/ Subscribe(f) \/ Decide(f) \/ Wake(f)
           \/ Recheck(f) /\ Matches(flow[f].identity) = flow[f].bypass
    PROVE  PolicyInv'
<1>1. /\ flow[f] \in FlowSet /\ flow[f].seen <= revision /\ revision \in Nat
      /\ flow[f].pc = "captured" => flow[f].identity = NoApp
  BY DEF PolicyInv, PolicyTypes, FlowInv
<1>2. CASE Subscribe(f)
  <2> DEFINE s == [flow[f] EXCEPT !.pc = IF HasMatcher THEN "waiting" ELSE "identified",
                                  !.seen = revision]
  <2>1. /\ s \in FlowSet /\ s.port = flow[f].port /\ s.identity = flow[f].identity
        /\ s.seen = revision /\ s.pc \in {"waiting", "identified"}
    BY <1>1, ZenonT(30) DEF FlowSet, Progress
  <2>2. /\ flow' = [flow EXCEPT ![f] = s] /\ UNCHANGED <<policy, owner, cache, job, since>>
        /\ flow[f].pc = "captured"
    BY <1>2, ZenonT(30) DEF Subscribe
  <2> HIDE DEF s
  <2>3. QED
    <3>1. /\ s.pc \notin {"idle", "lookup", "captured"} /\ s.pc # "relaying"
          /\ flow[f].pc \notin {"idle", "lookup", "waiting"} /\ flow[f].identity = NoApp
      BY <1>1, <2>1, <2>2
    <3>2. s.seen <= revision
      BY <1>1, <2>1
    <3>3. QED
      BY <2>1, <2>2, <3>1, <3>2, QuietStep, ZenonT(30)
<1>3. CASE Decide(f)
  <2> DEFINE s == [flow[f] EXCEPT !.pc = "relaying",
                                  !.bypass = HasMatcher /\ Matches(flow[f].identity)]
  <2>1. /\ s \in FlowSet /\ s.port = flow[f].port /\ s.identity = flow[f].identity
        /\ s.seen = flow[f].seen /\ s.pc = "relaying"
        /\ HasMatcher => (s.bypass <=> s.identity \in names)
    BY <1>1, ZenonT(30) DEF FlowSet, Progress, Matches, HasMatcher
  <2>2. /\ flow' = [flow EXCEPT ![f] = s] /\ UNCHANGED <<policy, owner, cache, job, since>>
        /\ flow[f].pc = "identified"
    BY <1>3, ZenonT(30) DEF Decide
  <2> HIDE DEF s
  <2>3. QED
    BY <1>1, <2>1, <2>2, QuietStep, ZenonT(30)
<1>4. CASE Wake(f)
  <2> DEFINE s == [flow[f] EXCEPT !.pc = "woken", !.seen = revision]
  <2>1. /\ s \in FlowSet /\ s.port = flow[f].port /\ s.identity = flow[f].identity
        /\ s.seen = revision /\ s.pc = "woken"
    BY <1>1, ZenonT(30) DEF FlowSet, Progress
  <2>2. /\ flow' = [flow EXCEPT ![f] = s] /\ UNCHANGED <<policy, owner, cache, job, since>>
        /\ flow[f].pc = "relaying"
    BY <1>4, ZenonT(30) DEF Wake
  <2> HIDE DEF s
  <2>3. QED
    <3>1. /\ s.pc \notin {"idle", "lookup", "captured"} /\ s.pc \notin {"relaying", "waiting"}
          /\ flow[f].pc \notin {"idle", "lookup", "waiting"}
      BY <1>1, <2>1, <2>2
    <3>2. s.seen <= revision
      BY <1>1, <2>1
    <3>3. QED
      BY <2>1, <2>2, <3>1, <3>2, QuietStep, ZenonT(30)
<1>5. CASE Recheck(f) /\ Matches(flow[f].identity) = flow[f].bypass
  <2> DEFINE s == [flow[f] EXCEPT !.pc = "relaying"]
  <2>1. /\ s \in FlowSet /\ s.port = flow[f].port /\ s.identity = flow[f].identity
        /\ s.seen = flow[f].seen /\ s.pc = "relaying" /\ s.bypass = flow[f].bypass
    BY <1>1 DEF FlowSet, Progress
  <2>2. /\ flow' = [flow EXCEPT ![f] = s] /\ UNCHANGED <<policy, owner, cache, job, since>>
        /\ flow[f].pc = "woken"
    BY <1>5 DEF Recheck
  <2>3. s.bypass <=> s.identity \in names
    BY <1>5, <2>1, ZenonT(30) DEF Matches
  <2> HIDE DEF s
  <2>4. QED
    BY <1>1, <2>1, <2>2, <2>3, QuietStep, ZenonT(30)
<1>6. QED
  BY <1>2, <1>3, <1>4, <1>5, ZenonT(30)

\* A flow that ends leaves the cache and the running lookup.
LEMMA ForgetSteps ==
    ASSUME PolicyInv, NEW f \in Flows, Forget(f), UNCHANGED <<policy, owner>>,
           \/ job' = job /\ flow[f].pc \in {"relaying", "woken"}
           \/ job' = [job EXCEPT !.flow = IF @ = f THEN NoFlow ELSE @, !.covers = @ \ {f}]
    PROVE  PolicyInv'
<1>1. UNCHANGED <<names, revision, pending>>
  BY DEF policy
<1>2. /\ flow \in [Flows -> FlowSet] /\ since \in [Flows -> SUBSET Owner]
      /\ cache \in CacheSet /\ job \in JobSet /\ revision \in Nat /\ FlowInv(f)
      /\ job.walk = "no" => job = NoJob
  BY DEF PolicyInv, PolicyTypes
<1>3. /\ flow' \in [Flows -> FlowSet] /\ flow'[f] = NoFlowState
      /\ since' \in [Flows -> SUBSET Owner]
      /\ \A g \in Flows \ {f} : flow'[g] = flow[g] /\ since'[g] = since[g]
  BY <1>2, Rest DEF Forget
<1>4. /\ cache' \in CacheSet /\ cache'.entries = cache.entries
      /\ cache'.covers = cache.covers \ {f}
  BY <1>2 DEF Forget, CacheSet
<1>5. /\ job' \in JobSet /\ job'.walk = job.walk /\ job'.entries = job.entries
      /\ job'.covers = job.covers \ {f} /\ job'.flow # f
      /\ \A g \in Flows \ {f} : job'.flow = g <=> job.flow = g
  <2>1. CASE job' = job /\ flow[f].pc \in {"relaying", "woken"}
    <3>1. f \notin job.covers /\ job.flow # f
      BY <1>2, <2>1 DEF FlowInv
    <3>2. QED
      BY <1>2, <2>1, <3>1 DEF JobSet
  <2>2. CASE job' = [job EXCEPT !.flow = IF @ = f THEN NoFlow ELSE @, !.covers = @ \ {f}]
    BY <1>2, <2>2, ProcessPolicyAssumption, ZenonT(30) DEF JobSet
  <2>3. QED
    BY <2>1, <2>2
<1>6. job'.walk = "no" => job' = NoJob
  <2> SUFFICES ASSUME job.walk = "no" PROVE job' = NoJob
    BY <1>5
  <2>1. job = NoJob
    BY <1>2
  <2>2. job' \in JobSet /\ job'.walk = "no" /\ job'.covers = {} /\ job'.entries = NoJob.entries
    BY <1>5, <2>1, Rest
  <2>3. job'.flow = NoFlow
    BY <1>5, <2>1, Rest, ProcessPolicyAssumption DEF JobSet
  <2>4. QED
    BY <2>2, <2>3 DEF JobSet, NoJob
<1>7. PolicyTypes'
  BY <1>1, <1>3, <1>4, <1>5, ZenonT(30) DEF PolicyInv, PolicyTypes
<1>8. ASSUME NEW g \in Flows \ {f} PROVE FlowInv(g)'
  <2>1. FlowInv(g)
    BY DEF PolicyInv
  <2>2. QED
    BY <1>1, <1>3, <1>4, <1>5, <2>1 DEF FlowInv, Fresh
<1>9. FlowInv(f)'
  BY <1>1, <1>2, <1>3, <1>4, <1>5, Rest DEF FlowInv
<1>10. QED
  BY <1>3, <1>6, <1>7, <1>8, <1>9, Rest, OwnStep

\* The relay is reset, ends, or its task is cancelled.
LEMMA EndSteps ==
    ASSUME PolicyInv, NEW f \in Flows,
           \/ Recheck(f) /\ Matches(flow[f].identity) # flow[f].bypass
           \/ RelayEnds(f) \/ Cancelled(f)
    PROVE  PolicyInv'
BY ForgetSteps, ZenonT(30) DEF Recheck, RelayEnds, Cancelled

\* A packet is captured: its port has the owner it has now.
LEMMA CaptureStep ==
    ASSUME PolicyInv, NEW f \in Flows, NEW p \in Ports, Capture(f, p)
    PROVE  PolicyInv'
<1> DEFINE s == [NoFlowState EXCEPT !.pc = "captured", !.port = p]
<1>1. UNCHANGED <<names, revision, pending>> /\ UNCHANGED <<policy, owner, cache, job>>
  BY DEF Capture, policy
<1>2. /\ flow \in [Flows -> FlowSet] /\ since \in [Flows -> SUBSET Owner]
      /\ owner \in [Ports -> Owner] /\ revision \in Nat /\ FlowInv(f)
  BY DEF PolicyInv, PolicyTypes
<1>3. /\ s \in FlowSet /\ s.pc = "captured" /\ s.port = p /\ s.seen = 0 /\ s.identity = NoApp
  BY Rest, ZenonT(30) DEF FlowSet, Progress
<1>4. flow' = [flow EXCEPT ![f] = s] /\ flow[f].pc = "idle" /\ since' = [since EXCEPT ![f] = {owner[p]}]
  BY DEF Capture
<1> HIDE DEF s
<1>5. /\ flow' \in [Flows -> FlowSet] /\ flow'[f] = s
      /\ since' \in [Flows -> SUBSET Owner] /\ since'[f] = {owner[p]}
      /\ \A g \in Flows \ {f} : flow'[g] = flow[g] /\ since'[g] = since[g]
  BY <1>2, <1>3, <1>4
<1>6. PolicyTypes'
  BY <1>1, <1>5, ZenonT(30) DEF PolicyInv, PolicyTypes
<1>7. ASSUME NEW g \in Flows \ {f} PROVE FlowInv(g)'
  BY <1>1, <1>5 DEF PolicyInv, FlowInv, Fresh
<1>8. FlowInv(f)'
  BY <1>1, <1>2, <1>3, <1>4, <1>5 DEF FlowInv
<1>9. QED
  BY <1>1, <1>3, <1>5, <1>6, <1>7, <1>8, OwnStep DEF PolicyInv

\* A port changes hands: the flows that hold it remember the new owner.
LEMMA RebindStep ==
    ASSUME PolicyInv, NEW p \in Ports, NEW app \in Owner, Rebind(p, app)
    PROVE  PolicyInv'
<1>1. UNCHANGED <<names, revision, pending>> /\ UNCHANGED <<cache, job, flow>>
  BY DEF Rebind, policy
<1>2. /\ owner \in [Ports -> Owner] /\ since \in [Flows -> SUBSET Owner]
      /\ owner' = [owner EXCEPT ![p] = app]
  BY DEF PolicyInv, PolicyTypes, Rebind
<1>3. \A g \in Flows : /\ since'[g] \in SUBSET Owner /\ since[g] \subseteq since'[g]
                       /\ flow[g].pc # "idle" /\ flow[g].port = p => app \in since'[g]
  BY <1>2 DEF Rebind
<1>4. owner' \in [Ports -> Owner] /\ since' \in [Flows -> SUBSET Owner]
  BY <1>2, <1>3 DEF Rebind
<1>5. PolicyTypes'
  BY <1>1, <1>4, ZenonT(30) DEF PolicyInv, PolicyTypes
<1>6. ASSUME NEW g \in Flows PROVE FlowInv(g)'
  <2>1. FlowInv(g)
    BY ZenonT(30) DEF PolicyInv
  <2>2. (flow[g].pc # "idle" => flow[g].port \in Ports /\ owner[flow[g].port] \in since[g])'
    BY <1>1, <1>2, <1>3, <2>1, ZenonT(30) DEF FlowInv
  <2>3. QED
    BY <1>1, <1>3, <2>1, <2>2 DEF FlowInv, Fresh
<1>7. NoMissedUpdate'
  BY <1>1 DEF PolicyInv, NoMissedUpdate, Matches
<1>8. QED
  BY <1>1, <1>5, <1>6, <1>7 DEF PolicyInv

\* The flow gets the slot: nobody else has it.
LEMMA TakeSlotStep ==
    ASSUME PolicyInv, NEW f \in Flows, TakeSlot(f)
    PROVE  PolicyInv'
<1> DEFINE s == [flow[f] EXCEPT !.pc = "lookup"]
           j == [NoJob EXCEPT !.flow = f, !.walk = "ready"]
<1>1. UNCHANGED <<names, revision, pending>> /\ UNCHANGED <<policy, owner, cache, since>>
  BY DEF TakeSlot, policy
<1>2. /\ flow \in [Flows -> FlowSet] /\ flow[f].pc = "waiting" /\ job = NoJob
      /\ flow' = [flow EXCEPT ![f] = s] /\ job' = j
  BY DEF PolicyInv, PolicyTypes, TakeSlot
<1>3. /\ s \in FlowSet /\ s.pc = "lookup" /\ s.port = flow[f].port
      /\ s.seen = flow[f].seen /\ s.identity = flow[f].identity
  BY <1>2 DEF FlowSet, Progress
<1>4. j \in JobSet /\ j.flow = f /\ j.walk = "ready" /\ j.covers = {}
  BY Rest, ZenonT(30) DEF JobSet, NoJob
<1> HIDE DEF s, j
<1>5. /\ flow' \in [Flows -> FlowSet] /\ flow'[f] = s
      /\ \A g \in Flows \ {f} : flow'[g] = flow[g] /\ since'[g] = since[g]
  BY <1>1, <1>2, <1>3, ZenonT(30)
<1>6. PolicyTypes'
  BY <1>1, <1>2, <1>4, <1>5, ZenonT(30) DEF PolicyInv, PolicyTypes
<1>7. ASSUME NEW g \in Flows \ {f} PROVE FlowInv(g)'
  <2>1. FlowInv(g) /\ job.flow # g
    BY <1>2, Rest, ProcessPolicyAssumption, ZenonT(30) DEF PolicyInv
  <2>2. QED
    BY <1>1, <1>2, <1>4, <1>5, <2>1, ZenonT(30) DEF FlowInv, Fresh
<1>8. FlowInv(f)'
  BY <1>1, <1>2, <1>3, <1>4, <1>5 DEF PolicyInv, FlowInv, Fresh
<1>9. QED
  BY <1>1, <1>2, <1>3, <1>4, <1>5, <1>6, <1>7, <1>8, OwnStep, ZenonT(30)

\* The lookup's own steps do not touch the list.
LEMMA JobSteps ==
    ASSUME PolicyInv, JobStep
    PROVE  PolicyInv'
<1>1. /\ PolicyTypes /\ job \in JobSet /\ cache \in CacheSet /\ flow \in [Flows -> FlowSet]
      /\ owner \in [Ports -> Owner] /\ \A g \in Flows : FlowInv(g)
  BY DEF PolicyInv, PolicyTypes
<1>2. CASE StartWalk
  <2>1. UNCHANGED <<names, revision, pending>> /\ UNCHANGED <<owner, cache, flow, since>>
    BY <1>2 DEF StartWalk, policy
  <2>2. /\ job' \in JobSet /\ job'.walk = "walking" /\ job'.flow = job.flow
        /\ job'.covers = Requested
    BY <1>1, <1>2, ZenonT(30) DEF StartWalk, JobSet, Requested
  <2>3. ASSUME NEW g \in Flows PROVE FlowInv(g)'
    BY <1>1, <2>1, <2>2 DEF FlowInv, Fresh, Requested
  <2>4. PolicyTypes' /\ NoMissedUpdate'
    BY <1>1, <2>1, <2>2 DEF PolicyInv, PolicyTypes, NoMissedUpdate, Matches
  <2>5. QED
    BY <2>2, <2>3, <2>4 DEF PolicyInv
<1>3. CASE ReadTable
  <2>1. UNCHANGED <<names, revision, pending>> /\ UNCHANGED <<owner, cache, flow, since>>
    BY <1>3 DEF ReadTable, policy
  <2>2. PICK entries \in {owner, Cleared} : job' = [job EXCEPT !.walk = "read", !.entries = entries]
    BY <1>3, ZenonT(30) DEF ReadTable
  <2>3. /\ job' \in JobSet /\ job'.walk = "read" /\ job'.flow = job.flow
        /\ job'.covers = job.covers /\ job'.entries = entries /\ job.walk = "walking"
    BY <1>1, <1>3, <2>2, Rest, ZenonT(30) DEF ReadTable, JobSet
  <2>4. ASSUME NEW g \in Flows, g \in job.covers PROVE Fresh(g, entries)
    <3>1. flow[g].port \in Ports /\ owner[flow[g].port] \in since[g]
      BY <1>1, <2>4, ZenonT(30) DEF FlowInv
    <3>2. Cleared[flow[g].port] = NoApp
      BY <3>1, Rest, ZenonT(30)
    <3>3. QED
      BY <2>2, <3>1, <3>2, ZenonT(30) DEF Fresh
  <2>5. ASSUME NEW g \in Flows PROVE FlowInv(g)'
    BY <1>1, <2>1, <2>3, <2>4, ZenonT(30) DEF FlowInv, Fresh
  <2>6. PolicyTypes' /\ NoMissedUpdate'
    BY <1>1, <2>1, <2>3, ZenonT(30) DEF PolicyInv, PolicyTypes, NoMissedUpdate, Matches
  <2>7. QED
    BY <2>3, <2>5, <2>6 DEF PolicyInv
<1>4. CASE Identify
  <2>1. UNCHANGED <<names, revision, pending>> /\ UNCHANGED <<owner, since>>
    BY <1>4, ZenonT(30) DEF Identify, policy
  <2>2. /\ cache' \in CacheSet /\ job' = NoJob
        /\ \A g \in cache'.covers : flow[g].pc # "idle" /\ Fresh(g, cache'.entries)
        /\ job.flow \in Flows => job.flow \in cache'.covers
    <3>1. CASE job.walk = "read"
      <4>1. cache' = [entries |-> job.entries, covers |-> job.covers] /\ job' = NoJob
        BY <1>4, <3>1, ZenonT(30) DEF Identify, Refreshed
      <4>2. QED
        BY <1>1, <3>1, <4>1 DEF JobSet, CacheSet, FlowInv
    <3>2. CASE job.walk = "ready" /\ job.flow \in cache.covers
      <4>1. cache' = cache /\ job' = NoJob
        BY <1>4, <3>2, ZenonT(30) DEF Identify, Refreshed
      <4>2. QED
        BY <1>1, <3>2, <4>1 DEF CacheSet, FlowInv
    <3>3. QED
      BY <1>4, <3>1, <3>2, ZenonT(30) DEF Identify
  <2>3. \A g \in Flows : g # job.flow => flow'[g] = flow[g]
    BY <1>4, ZenonT(30) DEF Identify
  <2>4. ASSUME NEW g \in Flows, g = job.flow
        PROVE  /\ flow'[g] \in FlowSet /\ flow'[g].pc = "identified"
               /\ flow'[g].port = flow[g].port /\ flow'[g].seen = flow[g].seen
               /\ flow'[g].identity \in since[g] \cup {NoApp}
    <3>1. flow'[g] = [flow[g] EXCEPT !.pc = "identified", !.identity = cache'.entries[flow[g].port]]
      BY <1>4, <2>4, ZenonT(30) DEF Identify
    <3>2. flow[g].pc = "lookup" /\ flow[g].port \in Ports /\ flow[g] \in FlowSet
      BY <1>1, <2>4 DEF FlowInv
    <3>3. cache'.entries[flow[g].port] \in Owner
      BY <2>2, <3>2 DEF CacheSet
    <3>4. cache'.entries[flow[g].port] \in since[g] \cup {NoApp}
      BY <2>2, <2>4 DEF Fresh
    <3>5. QED
      BY <3>1, <3>2, <3>3, <3>4, ZenonT(30) DEF FlowSet, Progress
  <2>5. ASSUME NEW g \in Flows PROVE FlowInv(g)'
    <3>1. flow'[g].port = flow[g].port /\ flow'[g].seen = flow[g].seen
      BY <2>3, <2>4, ZenonT(30)
    <3>2. g \in cache'.covers => flow'[g].pc # "idle" /\ Fresh(g, cache.entries)'
      BY <2>1, <2>2, <2>3, <2>4, <3>1 DEF Fresh
    <3>3. NoJob.flow # g /\ NoJob.covers = {}
      BY Rest, ProcessPolicyAssumption
    <3>4. CASE g = job.flow
      BY <1>1, <2>1, <2>2, <2>4, <3>1, <3>2, <3>3, <3>4, ZenonT(30) DEF FlowInv
    <3>5. CASE g # job.flow
      BY <1>1, <2>1, <2>2, <2>3, <3>2, <3>3, <3>5 DEF FlowInv
    <3>6. QED
      BY <3>4, <3>5
  <2>6. flow' \in [Flows -> FlowSet]
    <3>1. \A g \in Flows : flow'[g] \in FlowSet
      BY <1>1, <2>3, <2>4
    <3>2. flow' = [g \in Flows |-> flow'[g]]
      BY <1>4, ZenonT(30) DEF Identify
    <3>3. QED
      BY <3>1, <3>2, ZenonT(30)
  <2>7. PolicyTypes'
    BY <1>1, <2>1, <2>2, <2>6, Rest, ZenonT(30) DEF PolicyTypes
  <2>8. NoMissedUpdate'
    BY <2>1, <2>3, <2>4 DEF PolicyInv, NoMissedUpdate, Matches
  <2>9. QED
    BY <2>2, <2>5, <2>7, <2>8 DEF PolicyInv
<1>5. QED
  BY <1>2, <1>3, <1>4 DEF JobStep

\* Every step keeps the invariant: one lemma for each kind of step.
LEMMA PolicyPreserves ==
    ASSUME PolicyInv, [Next]_vars
    PROVE  PolicyInv'
<1>1. CASE \E list \in SUBSET Apps : SetNames(list)
  BY <1>1, UpdateSteps
<1>2. CASE SendModify
  BY <1>2, UpdateSteps
<1>3. CASE \E p \in Ports, app \in Owner : Rebind(p, app)
  BY <1>3, RebindStep
<1>4. CASE \E f \in Flows, p \in Ports : Capture(f, p)
  BY <1>4, CaptureStep
<1>5. CASE \E f \in Flows : Subscribe(f) \/ TakeSlot(f) \/ Decide(f) \/ Wake(f)
                             \/ Recheck(f) \/ RelayEnds(f) \/ Cancelled(f)
  BY <1>5, QuietSteps, TakeSlotStep, EndSteps
<1>6. CASE JobStep
  BY <1>6, JobSteps
<1>7. CASE UNCHANGED vars
  BY <1>7, ZenonT(30) DEF vars, PolicyInv, PolicyTypes, FlowInv, Fresh, NoMissedUpdate, Matches
<1>8. QED
  BY <1>1, <1>2, <1>3, <1>4, <1>5, <1>6, <1>7 DEF Next

\* A run starts with no flow, no lookup and nothing announced.
LEMMA PolicyStarts == Init => PolicyInv
<1> SUFFICES ASSUME Init PROVE PolicyInv
  OBVIOUS
<1>1. /\ \A f \in Flows : flow[f] = NoFlowState
      /\ job = NoJob /\ cache.covers = {} /\ revision = 0
  BY DEF Init
<1>2. PolicyTypes
  BY Rest DEF Init, PolicyTypes, CacheSet, Owner
<1>3. \A f \in Flows : FlowInv(f)
  BY <1>1, Rest, ProcessPolicyAssumption DEF FlowInv
<1>4. NoMissedUpdate
  BY <1>1, Rest DEF NoMissedUpdate
<1>5. QED
  BY <1>1, <1>2, <1>3, <1>4 DEF PolicyInv

\* The inductive invariant holds in every behaviour of the process policy.
THEOREM PolicyInvariant == Spec => []PolicyInv
BY PolicyStarts, PolicyPreserves, PTL DEF Spec

\* An identity given to a flow belongs to an application that had its port at
\* some time since the capture, for any number of flows sharing the snapshots of
\* refresh and whether or not its walks fail.
THEOREM IdentitiesFresh == Spec => []FreshIdentity
<1>1. PolicyInv => FreshIdentity
  BY DEF PolicyInv, FlowInv, FreshIdentity
<1>2. QED
  BY <1>1, PolicyInvariant, PTL

\* A relay that has seen the latest revision follows the list in effect, for any
\* number of set_names calls and wherever they fall in match_session.
THEOREM UpdatesSeen == Spec => []NoMissedUpdate
<1>1. PolicyInv => NoMissedUpdate
  BY DEF PolicyInv
<1>2. QED
  BY <1>1, PolicyInvariant, PTL
=============================================================================
