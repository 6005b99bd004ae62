-------------------------- MODULE MCWindowsRoutes --------------------------
(* Instances of WindowsRoutes for TLC.                                     *)
EXTENDS WindowsRoutes
=============================================================================
