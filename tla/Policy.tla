------------------------------- MODULE Policy -------------------------------
(***************************************************************************)
(* The policy engine (orchestrator/app/policy.py): what an actor may do in *)
(* an environment, and under which controls.  The schemas already strip    *)
(* the strings and admit only lower-case ones, so evaluate_policy's own    *)
(* strip().lower() changes nothing here and is left out.                   *)
(***************************************************************************)

Destructive == {"delete", "destroy", "drop", "purge"}
ReadOnly == {"read", "inspect", "status"}
DeployWrite == {"deploy", "write", "promote"}
Production == {"prod", "production"}
NonProduction == {"dev", "development", "staging", "stage"}

Decide(decision, rule, controls) ==
  [decision |-> decision, rule_id |-> rule, controls |-> controls]

(* The clauses of evaluate_policy in their order: the first that applies.  *)
evaluate_policy(actor, action, environment) ==
  LET agentWrite(envs) ==
        actor = "ai_agent" /\ environment \in envs /\ action \in DeployWrite
  IN IF action \in Destructive
       THEN Decide("DENY", "deny-destructive-action", {"manual-operator"})
     ELSE IF action \in ReadOnly
       THEN Decide("ALLOW", "allow-readonly", {})
     ELSE IF agentWrite(Production)
       THEN Decide("ASK", "ask-agent-production-write",
                   {"verified-pipeline", "human-approval", "scoped-capability"})
     ELSE IF agentWrite(NonProduction)
       THEN Decide("ALLOW", "allow-agent-nonprod-write",
                   {"verified-pipeline", "scoped-capability"})
     ELSE Decide("ASK", "ask-default-mutating-action", {"human-approval"})
=============================================================================
