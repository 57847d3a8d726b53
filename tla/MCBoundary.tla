----------------------------- MODULE MCBoundary -----------------------------
(* Instance of Boundary for TLC.                                           *)
EXTENDS Boundary
=============================================================================
