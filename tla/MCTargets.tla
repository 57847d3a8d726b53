----------------------------- MODULE MCTargets -----------------------------
(* Instances of Targets for TLC.                                           *)
EXTENDS TargetsHistory, TLC

Symmetry == Permutations(Observer)
=============================================================================
