--------------------------- MODULE MCOrchestrator ---------------------------
(* Instances of Orchestrator for TLC: the payloads of the epochs, and the  *)
(* symmetry of the workers, keys and observers.                            *)
EXTENDS Orchestrator, TLC

CONSTANTS e1, e2, t1, t2

OneTarget == [e \in Epoch |-> t1]
TwoTargets == [e \in Epoch |-> IF e = e2 THEN t2 ELSE t1]
One == [f \in Field |-> 1]
SameRelease == [e \in Epoch |-> One]

HumanChange == [e \in Epoch |-> None]
AgentDeploy == [e \in Epoch |-> "deploy"]

InProduction == [t \in Target |-> "prod"]
InStaging == [t \in Target |-> "staging"]
StagingAndProduction == [t \in Target |-> IF t = t2 THEN "prod" ELSE "staging"]

Symmetry == Permutations(Session) \cup Permutations(Key) \cup Permutations(Observer)
=============================================================================
