---------------------------- MODULE MCVirtualDns ----------------------------
(* Small instances of VirtualDns for TLC.                                  *)
EXTENDS VirtualDns, TLC

Symmetry == Permutations(Names)
=============================================================================
