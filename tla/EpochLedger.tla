----------------------------- MODULE EpochLedger -----------------------------
(***************************************************************************)
(* What the orchestrator promises about an epoch, without requests, locks, *)
(* sessions, pipelines, capabilities or an executor: a record is           *)
(* registered once and approved at most once; it is decided only when      *)
(* approved or when the policy leaves it to the agent; a key decides it    *)
(* once, and every decision is the state of the epoch, a receipt and an    *)
(* event for other systems, all at the same instant.                       *)
(***************************************************************************)
EXTENDS Naturals

CONSTANTS
  Epoch, Key,
  Unattended  \* the epochs an agent may execute without an approval

VARIABLES
  state,      \* state[e]: ABSENT, DRAFT, APPROVED or the last verdict
  approved,   \* approved[e]: a human approved e
  verdicts,   \* the decisions taken
  events      \* events[e]: number of decisions announced

lvars == <<state, approved, verdicts, events>>

LedgerInit ==
  /\ state = [e \in Epoch |-> "ABSENT"]
  /\ approved = [e \in Epoch |-> FALSE]
  /\ verdicts = {}
  /\ events = [e \in Epoch |-> 0]

Register(e) ==
  /\ state[e] = "ABSENT"
  /\ state' = [state EXCEPT ![e] = "DRAFT"]
  /\ UNCHANGED <<approved, verdicts, events>>

Approve(e) ==
  /\ state[e] # "ABSENT"
  /\ ~approved[e]
  /\ state' = [state EXCEPT ![e] = "APPROVED"]
  /\ approved' = [approved EXCEPT ![e] = TRUE]
  /\ UNCHANGED <<verdicts, events>>

Decide(e, k, outcome) ==
  /\ approved[e] \/ e \in Unattended
  /\ \A v \in verdicts : v.epoch # e \/ v.key # k
  /\ state' = [state EXCEPT ![e] = outcome]
  /\ verdicts' = verdicts \cup {[epoch |-> e, key |-> k, outcome |-> outcome]}
  /\ events' = [events EXCEPT ![e] = @ + 1]
  /\ UNCHANGED approved

LedgerNext ==
  \E e \in Epoch :
    \/ Register(e)
    \/ Approve(e)
    \/ \E k \in Key, outcome \in {"EXECUTED", "DENIED_STALE"} : Decide(e, k, outcome)

LedgerSpec == LedgerInit /\ [][LedgerNext]_lvars
=============================================================================
