----------------------------- MODULE MCSessions -----------------------------
(***************************************************************************)
(* Small instances for TLC of the sessions of a run, and of one that is    *)
(* DNS over TCP.  A behaviour exercises one of the two while the other     *)
(* rests.                                                                  *)
(***************************************************************************)
EXTENDS Sessions, DnsOverTcp

(* A run that has returned.                                                *)
RunRests ==
    /\ token = TRUE /\ loop = "done" /\ accepted = NoSession
    /\ task = [t \in Tasks |-> "idle"] /\ protocol = [s \in Sessions |-> "tcp"]
    /\ total = 0 /\ count = [p \in Protocols |-> 0]
    /\ aborted = TRUE /\ result = "ok" /\ active = 0

VARIABLE part   \* the part that runs

SumInit ==
    /\ DnsInit
    /\ \/ part = "run" /\ Init
       \/ part = "dns" /\ RunRests

SumNext ==
    /\ UNCHANGED part
    /\ \/ part = "run" /\ Next /\ UNCHANGED dnsVars
       \/ part = "dns" /\ DnsNext /\ UNCHANGED vars
       \/ part = "dns" /\ session = "ended" /\ UNCHANGED <<vars, dnsVars>>

(* Nothing that is fair is enabled in a run that has returned, or in a     *)
(* session that was asked nothing.                                         *)
SumSpec == SumInit /\ [][SumNext]_<<part, vars, dnsVars>> /\ Fairness /\ DnsFairness
=============================================================================
