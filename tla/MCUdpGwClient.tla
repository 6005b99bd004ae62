--------------------------- MODULE MCUdpGwClient ---------------------------
(***************************************************************************)
(* Small instances for TLC of two parts that hand shared connections or    *)
(* workers to the flows of the TUN: the gateway's client pool and the ICMP *)
(* echo flows.  A behaviour exercises one of them.                         *)
(***************************************************************************)
EXTENDS UdpGwClient, EchoFlows, TLC

VARIABLE part   \* the part that runs

SumInit == Init /\ EchoInit /\ part \in {"pool", "echo"}

SumNext ==
    /\ UNCHANGED part
    /\ \/ part = "pool" /\ Next /\ UNCHANGED echoVars
       \/ part = "echo" /\ EchoNext /\ UNCHANGED vars

SumSpec == SumInit /\ [][SumNext]_<<part, vars, echoVars>>

Symmetry == Permutations(Flows) \cup Permutations(Streams)
=============================================================================
