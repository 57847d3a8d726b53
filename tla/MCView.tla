------------------------------- MODULE MCView -------------------------------
(* The instances of MCOrchestrator with a reader of the passport.          *)
EXTENDS MCOrchestrator, PassportView
=============================================================================
