----------------------------- MODULE StableMap ------------------------------
(***************************************************************************)
(* What the fake-IP allocator promises to applications that cache its DNS  *)
(* answers ("Persist fake-IP mappings so application DNS caches survive a  *)
(* proxy process restart", src/virtual_dns.rs): a one-to-one map that      *)
(* processes come and go around, in which a mapping is only given up when  *)
(* every address is in use and a new name needs one.                       *)
(***************************************************************************)
EXTENDS Naturals

CONSTANTS Names, PoolSize
VARIABLE map

Pool == 0 .. PoolSize - 1

OneToOne(m) == \A d, e \in m : d.ip = e.ip \/ d.name = e.name => d = e

Init == map = {}

\* A new name takes an address nobody has.
Assign(n, ip) ==
    /\ \A e \in map : e.name # n /\ e.ip # ip
    /\ map' = map \cup {[ip |-> ip, name |-> n]}

\* A new name takes the address of another name, every address being in use.
Reuse(n, old) ==
    /\ \A ip \in Pool : \E e \in map : e.ip = ip
    /\ \A e \in map : e.name # n
    /\ map' = (map \ {old}) \cup {[ip |-> old.ip, name |-> n]}

\* A handle that already answered queries from memory becomes persistent.
Adopt ==
    /\ map = {}
    /\ map' \subseteq [ip : Pool, name : Names]
    /\ OneToOne(map')

Next ==
    \/ \E n \in Names, ip \in Pool : Assign(n, ip)
    \/ \E n \in Names, old \in map : Reuse(n, old)
    \/ Adopt

Spec == Init /\ [][Next]_map
=============================================================================
