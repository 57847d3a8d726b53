--------------------------- MODULE TargetsHistory ---------------------------
(***************************************************************************)
(* Targets with a history of what separates the two copies of a target:    *)
(* observations that overlap, and failures.  The steps are those of        *)
(* Targets; the history only watches them.                                 *)
(***************************************************************************)
EXTENDS Targets

VARIABLE disturbed  \* disturbed[t]: "overlap" and "failure", as they happened to t

htvars == <<tvars, disturbed>>

HistoryInit == TargetsInit /\ disturbed = [t \in Target |-> {}]

Watch(targets, what) ==
  disturbed' = [t \in Target |->
    IF t \in targets THEN disturbed[t] \cup {what} ELSE disturbed[t]]

(* Somebody else's observation of t is under way, or its RPC still is.     *)
Overlaps(o, t) == \E p \in Observer \ {o} : obs[p] # IdleObs /\ obs[p].target = t

Begins(o) ==
  /\ ObserveRead(o) \/ DriftRead(o)
  /\ Watch({t \in {obs'[o].target} : Overlaps(o, t)}, "overlap")

Proceeds(o) ==
  /\ ObserveCommit(o) \/ ObserveConflict(o) \/ Deliver(o) \/ ObserveAnswered(o)
  /\ UNCHANGED disturbed

Fails(o) ==
  /\ ObserveTimeout(o) \/ Drop(o)
  /\ Watch({obs[o].target}, "failure")

Restarts ==
  /\ ExecutorRestart \/ TargetsCrash
  /\ Watch(Target, "failure")

HistoryNext ==
  \/ \E o \in Observer : Begins(o) \/ Proceeds(o) \/ Fails(o)
  \/ Restarts

HistorySpec ==
  /\ HistoryInit /\ [][HistoryNext]_htvars
  /\ \A o \in Observer : WF_tvars(HandlerStep(o))

----------------------------------------------------------------------------
HistoryTypeOK ==
  /\ TargetsTypeOK
  /\ disturbed \in [Target -> SUBSET {"overlap", "failure"}]

(* With no RPC under way the executor compares with the row that the       *)
(* orchestrator shows, as long as the observations of the target came one  *)
(* after the other and no RPC or process failed.                           *)
AtRest(t) == \A o \in Observer : obs[o].step \in {"sent", "applied", "late"} => obs[o].target # t
UndisturbedStoresAgree ==
  \A t \in Target : disturbed[t] = {} /\ AtRest(t) => store[t] = live[t]

(* The committed row is an identity that somebody reported, never a blend  *)
(* of two, as long as the observations of the target came one after the    *)
(* other; failures do not matter.                                          *)
LiveWasObserved ==
  \A t \in Target : "overlap" \notin disturbed[t] /\ live[t] # None => live[t] \in committed[t]
=============================================================================
