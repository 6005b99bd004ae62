---------------------------- MODULE MCUdpBypass ----------------------------
(***************************************************************************)
(* Small instances for TLC of the parts that let traffic bypass the proxy: *)
(* the UDP bypass pool, the search of the physical resolvers, and the      *)
(* origins of DNS questions.  A behaviour exercises one of them.           *)
(***************************************************************************)
EXTENDS UdpBypass, PhysicalDns, QueryOrigins, TLC

CONSTANTS r1, r2, loopback, l1, l2, l3

VARIABLE part   \* the part that runs

MCPreferred == <<r1, r2>>
MCOfInterface == <<r2, loopback>>

(* Two applications ask for one name, a third for another.                 *)
MCSubject == (l1 :> "a") @@ (l2 :> "a") @@ (l3 :> "b")

MCTraceWorlds ==
    [questions : {{l1, l2, l3}}, traces : {1}, mishaps : {{}}]
    \cup [questions : {{l1, l2}}, traces : {1}, mishaps : {{"lost"}, {"slow"}, {"fails"}}]
    \cup [questions : {{l1}}, traces : {2}, mishaps : {{}, {"lost", "slow", "fails"}}]
    \cup [questions : {{}}, traces : {1}, mishaps : {{}}]

PhysicalRests == PhysicalInit /\ \A q \in Searches : search[q].at = "absent"

(* Any of the initial states, for they are the same up to symmetry.        *)
UdpRests == Init /\ \E o \in Owners : table = [s \in Sources |-> o]

OriginRests == OriginInit /\ around.questions = {}

PoolInit == part = "udp" /\ Init /\ PhysicalRests /\ OriginRests

SumInit ==
    \/ PoolInit
    \/ part = "resolvers" /\ UdpRests /\ PhysicalInit /\ OriginRests
    \/ part = "origins" /\ UdpRests /\ PhysicalRests /\ OriginInit

SumNext ==
    /\ UNCHANGED part
    /\ \/ part = "udp" /\ Next /\ UNCHANGED <<physicalVars, originVars>>
       \/ part = "resolvers" /\ PhysicalNext /\ UNCHANGED <<vars, originVars>>
       \/ part = "origins" /\ OriginNext /\ UNCHANGED <<vars, physicalVars>>
       \/ part # "udp" /\ UNCHANGED <<vars, physicalVars, originVars>>

SumSpec == SumInit /\ [][SumNext]_<<part, vars, physicalVars, originVars>>

(* The UDP bypass pool alone.                                              *)
PoolSpec ==
    /\ PoolInit
    /\ [][SumNext]_<<part, vars, physicalVars, originVars>>
    /\ Fairness

Symmetry ==
    Permutations(Flows) \cup Permutations(Sources) \cup Permutations(Owners)
        \cup Permutations(Interfaces)
=============================================================================
