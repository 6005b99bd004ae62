------------------------------ MODULE EchoFlows ------------------------------
(***************************************************************************)
(* ICMP Echo forwarding (icmp.rs): the table of flows, the bounded queue   *)
(* of each and the worker that carries its requests, one at a time, over a *)
(* stream of its own to the local proxy.                                   *)
(*                                                                         *)
(* Requests are numbered in the order of their arrival.  All have the same *)
(* time to live, so they expire in that order too: `expired' is the number *)
(* of the last one whose deadline has passed.                              *)
(***************************************************************************)
EXTENDS Naturals, FiniteSets, Sequences, Functions

CONSTANTS
    EchoKeys,      \* source, destination and identifier
    Payloads,      \* what a request carries after its header
    MaxFlows,      \* MAX_FLOWS
    QueueDepth,    \* QUEUE_DEPTH
    MaxRequests    \* bound on the requests

ASSUME EchoFlowsAssumption ==
    MaxFlows \in Nat /\ QueueDepth \in Nat /\ MaxRequests \in Nat

VARIABLES
    requests,   \* the valid requests that arrived
    expired,    \* how many of them are past their deadline
    flows,      \* each key's worker, 0 if it has none
    workers,    \* the workers, in the order they were spawned
    injected    \* the replies injected: the request, and the one it answers

echoVars == <<requests, expired, flows, workers, injected>>

EchoInit ==
    /\ requests = <<>> /\ expired = 0 /\ workers = <<>> /\ injected = <<>>
    /\ flows = [k \in EchoKeys |-> 0]

HasEnded(w) == workers[w].state = "ended"

(* Mutant: a flow that waits for its reply looks like one that has ended.  *)
RetainedIdle == [k \in EchoKeys |-> IF flows[k] # 0 /\ workers[flows[k]].state \in {"ended", "reading"} THEN 0 ELSE flows[k]]

(* The flows whose worker still holds its end of the queue.                *)
Retained == [k \in EchoKeys |-> IF flows[k] # 0 /\ HasEnded(flows[k]) THEN 0 ELSE flows[k]]

(* A valid request arrives.  A new key past the limit and a full queue are *)
(* packet loss; a new key otherwise gets a worker.                         *)
Dispatch(k, p) ==
    LET table == Retained
        n == Len(requests) + 1
        full == Cardinality({j \in EchoKeys : table[j] # 0}) >= MaxFlows
        w == IF table[k] = 0 THEN Len(workers) + 1 ELSE table[k]
    IN
    /\ Len(requests) < MaxRequests
    /\ requests' = Append(requests, [key |-> k, payload |-> p])
    /\ \/ /\ full /\ table[k] = 0
          /\ flows' = table /\ UNCHANGED workers
       \/ /\ ~ full /\ table[k] = 0
          /\ flows' = [table EXCEPT ![k] = w]
          /\ workers' = Append(workers, [key |-> k, state |-> "connecting", current |-> 0,
                                         queue |-> <<n>>, asked |-> {}, replies |-> <<>>])
       \/ /\ table[k] # 0
          /\ flows' = table
          /\ workers' = IF Len(workers[w].queue) < QueueDepth
                        THEN [workers EXCEPT ![w].queue = Append(@, n)] ELSE workers
    /\ UNCHANGED <<expired, injected>>

DeadlinePasses ==
    /\ expired < Len(requests)
    /\ expired' = expired + 1
    /\ UNCHANGED <<requests, flows, workers, injected>>

-----------------------------------------------------------------------------
(* A worker ends: its stream and what its queue holds are dropped.         *)
End(w) ==
    /\ workers' = [workers EXCEPT ![w].state = "ended", ![w].current = 0, ![w].queue = <<>>,
                                  ![w].asked = {}, ![w].replies = <<>>]
    /\ UNCHANGED injected

(* The private SOCKS5 command succeeds, fails or takes too long.           *)
EchoConnect(w) ==
    /\ workers[w].state = "connecting"
    /\ \/ workers' = [workers EXCEPT ![w].state = "idle"] /\ UNCHANGED injected
       \/ End(w)

(* The next request; one that expired in the queue is skipped.             *)
TakeRequest(w) ==
    LET n == Head(workers[w].queue) IN
    /\ workers[w].state = "idle" /\ workers[w].queue # <<>>
    /\ workers' = [workers EXCEPT ![w].queue = Tail(@),
                                  ![w].current = IF n <= expired THEN 0 ELSE n,
                                  ![w].state = IF n <= expired THEN "idle" ELSE "writing"]
    /\ UNCHANGED injected

IdleTimeout(w) == workers[w].state = "idle" /\ workers[w].queue = <<>> /\ End(w)

WritePacket(w) ==
    /\ workers[w].state = "writing"
    /\ workers' = [workers EXCEPT ![w].state = "reading", ![w].asked = @ \cup {workers[w].current}]
    /\ UNCHANGED injected

(* A reply is injected only if it is the request's mirror image.           *)
ReadPacket(w) ==
    LET c == workers[w].current
        r == Head(workers[w].replies)
    IN
    /\ workers[w].state = "reading" /\ workers[w].replies # <<>>
    /\ \/ /\ r.payload = requests[c].payload
          /\ workers' = [workers EXCEPT ![w].state = "idle", ![w].current = 0, ![w].replies = Tail(@)]
          /\ injected' = Append(injected, [request |-> c, answers |-> r.answers])
       \/ r.payload # requests[c].payload /\ End(w)

(* Mutant: a request that is not answered in time does not end the flow.   *)
EchoTimeoutContinuing(w) ==
    /\ workers[w].state \in {"writing", "reading"} /\ workers[w].current <= expired
    /\ workers' = [workers EXCEPT ![w].state = "idle", ![w].current = 0]
    /\ UNCHANGED injected

(* "Cancellation requires dropping the connection": no answer in time ends *)
(* the flow.                                                               *)
EchoTimeout(w) ==
    /\ workers[w].state \in {"writing", "reading"} /\ workers[w].current <= expired
    /\ End(w)

(* The stream fails, in a write or in a read.                              *)
StreamFails(w) == workers[w].state \in {"writing", "reading"} /\ End(w)

WorkerStep(w) ==
    /\ \/ EchoConnect(w) \/ TakeRequest(w) \/ IdleTimeout(w) \/ WritePacket(w) \/ ReadPacket(w)
       \/ EchoTimeout(w) \/ StreamFails(w)
    /\ UNCHANGED <<requests, expired, flows>>

(* External: the proxy reports a request's reply once, however late, or    *)
(* something that is no answer to it.                                      *)
RemoteReports(w) ==
    /\ \E n \in workers[w].asked, p \in Payloads \cup {"damaged"} :
          /\ p \in {requests[n].payload, "damaged"}
          /\ workers' = [workers EXCEPT ![w].asked = @ \ {n},
                                        ![w].replies = Append(@, [answers |-> n, payload |-> p])]
    /\ UNCHANGED <<requests, expired, flows, injected>>

EchoNext ==
    \/ \E k \in EchoKeys, p \in Payloads : Dispatch(k, p)
    \/ DeadlinePasses
    \/ \E w \in DOMAIN workers : WorkerStep(w) \/ RemoteReports(w)

EchoSpec == EchoInit /\ [][EchoNext]_echoVars

-----------------------------------------------------------------------------
(* "No reply is injected until the remote endpoint reports an actual echo  *)
(* reply": every reply given to a pinging program is the one to its very   *)
(* request, even when several requests look the same, and no request gets  *)
(* two.                                                                    *)
OwnReply ==
    /\ \A i \in DOMAIN injected : injected[i].request = injected[i].answers
    /\ IsInjective(injected)

(* The workers that still hold a stream are those in the table, one for    *)
(* each key and at most MAX_FLOWS, however flows end and come back.        *)
OneWorker ==
    /\ \A w \in DOMAIN workers : ~ HasEnded(w) => flows[workers[w].key] = w
    /\ Cardinality({w \in DOMAIN workers : ~ HasEnded(w)}) <= MaxFlows
=============================================================================
