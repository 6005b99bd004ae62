-------------------------- MODULE MCProcessPolicy ---------------------------
(* Small instances of ProcessPolicy for TLC.                               *)
EXTENDS ProcessPolicy
=============================================================================
