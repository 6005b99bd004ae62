---------------------------- MODULE MCLifeCycle ----------------------------
(***************************************************************************)
(* Small instances for TLC of the calls that start and stop runs, and of   *)
(* the setup and relay of TCP sessions (Handshake).  A behaviour exercises *)
(* one of the two while the other rests.                                   *)
(***************************************************************************)
EXTENDS LifeCycle, Handshake

CONSTANTS c1, c2

MCFlows == {c1, c2}

Forms(lengths, others) ==
    [form : {"length"}, length : lengths] \cup {[form |-> f, length |-> 1] : f \in others \cap {"close"}}
        \cup {[form |-> f, length |-> 0] : f \in others}

(* One session of every kind with data that follows the reply, two HTTP    *)
(* sessions that share the digest state, and none.                         *)
MCWorlds ==
    [proxy : {"socks4", "socks5", "none"}, active : {{c1}}, known : BOOLEAN, auth : {"password"},
     forms : {{}}, ends : {TRUE}, filter : BOOLEAN, data : {3}, expires : {0}]
    \cup [proxy : {"http"}, active : {{c1}}, known : BOOLEAN, auth : {"open", "basic", "digest"},
          forms : {Forms({0, 1}, {"close", "none", "chunked"})}, ends : {TRUE},
          filter : BOOLEAN, data : {2}, expires : {1}]
    \cup [proxy : {"http"}, active : {{c1, c2}}, known : {TRUE}, auth : {"digest"},
          forms : {Forms({0}, {})}, ends : {FALSE}, filter : {FALSE}, data : {0}, expires : {1}]
    \cup [proxy : {"http"}, active : {{}}, known : {TRUE}, auth : {"open"},
          forms : {{}}, ends : {FALSE}, filter : {FALSE}, data : {0}, expires : {0}]

ShakeRests == ShakeInit /\ world.active = {}

LifeRests == LifeInit /\ \A c \in Calls : call[c] = "absent"

SumNext ==
    \/ LifeNext /\ UNCHANGED shakeVars
    \/ ShakeNext /\ UNCHANGED lifeVars

sumVars == <<lifeVars, shakeVars>>

SumSpec ==
    /\ (LifeInit /\ ShakeRests) \/ (LifeRests /\ ShakeInit)
    /\ [][SumNext]_sumVars
    /\ LifeFairness /\ ShakeFairness

(* The calls alone.                                                        *)
CallsSpec == LifeInit /\ ShakeRests /\ [][SumNext]_sumVars
=============================================================================
