--------------------------- MODULE TargetsProofs ---------------------------
(***************************************************************************)
(* Proofs about the observations of live targets, for any number of        *)
(* targets, columns, values and concurrent observers, with or without      *)
(* failures.                                                               *)
(***************************************************************************)
EXTENDS Targets, TLAPS

(* The strengthening that makes ExecutorFollowsDatabase inductive: an      *)
(* identity that is on its way to the executor is committed already.       *)
SentWasCommitted ==
  \A o \in Observer :
    obs[o].step \in {"sent", "applied", "late"} => obs[o].ident \in committed[obs[o].target]

(* Rows are not deleted: the column-wise UPDATE of a row that an observer  *)
(* loaded still finds it.  The type of live needs this.                    *)
LoadedRowStays ==
  \A o \in Observer :
    obs[o].step \in Step /\ obs[o].row # None => live[obs[o].target] # None

TargetsInv ==
  /\ TargetsTypeOK
  /\ LoadedRowStays
  /\ SentWasCommitted
  /\ ExecutorFollowsDatabase

(* The UPDATE of an observation leaves a complete row behind.              *)
LEMMA UpsertIsRelease ==
  ASSUME NEW row \in Release \cup {None}, NEW ident \in Release,
         NEW current \in Release \cup {None}, row # None => current # None
  PROVE  Upsert(row, ident, current) \in Release
  BY DEF Upsert, Release

(* The UPDATE of a row nobody changed since it was loaded writes the whole *)
(* identity.                                                               *)
LEMMA UpsertIsExact ==
  ASSUME NEW row \in Release \cup {None}, NEW ident \in Release
  PROVE  Upsert(row, ident, row) = ident
  <1>1. CASE row = None
    BY <1>1 DEF Upsert
  <1>2. CASE row # None
    <2>1. row \in Release
      BY <1>2
    <2>2. [f \in Field |-> IF ident[f] # row[f] THEN ident[f] ELSE row[f]]
            = [f \in Field |-> ident[f]]
      OBVIOUS
    <2>3. [f \in Field |-> ident[f]] = ident
      BY DEF Release
    <2> QED BY <1>2, <2>2, <2>3 DEF Upsert
  <1> QED BY <1>1, <1>2

(* Moving a worker on keeps the type of what it serves.                    *)
LEMMA MoveType ==
  ASSUME NEW o \in Observer, NEW step \in Step \cup {"idle"},
         obs \in [Observer -> Observation \cup {IdleObs}], ~At(o, "idle"), Move(o, step)
  PROVE  /\ obs' \in [Observer -> Observation \cup {IdleObs}]
         /\ \A p \in Observer : p # o => obs'[p] = obs[p]
         /\ step = "idle" => obs'[o] = IdleObs
         /\ step # "idle" => /\ obs'[o].step = step
                             /\ obs'[o].ident = obs[o].ident
                             /\ obs'[o].target = obs[o].target
                             /\ obs'[o].row = obs[o].row
  <1>1. obs[o] \in Observation
    BY DEF At, IdleObs
  <1>2. CASE step = "idle"
    BY <1>2 DEF Move, Step, Observation, IdleObs
  <1>3. CASE step # "idle"
    BY <1>1, <1>3 DEF Move, Step, Observation, IdleObs
  <1> QED BY <1>2, <1>3

LEMMA TargetsInitInv == TargetsInit => TargetsInv
  <1> SUFFICES ASSUME TargetsInit PROVE TargetsInv
    OBVIOUS
  <1>1. TargetsTypeOK
    BY DEF TargetsInit, TargetsTypeOK
  <1>2. SentWasCommitted
    BY DEF TargetsInit, SentWasCommitted, IdleObs
  <1>3. ExecutorFollowsDatabase
    BY DEF TargetsInit, ExecutorFollowsDatabase
  <1>4. LoadedRowStays
    BY DEF TargetsInit, LoadedRowStays, IdleObs, Step
  <1> QED BY <1>1, <1>2, <1>3, <1>4 DEF TargetsInv

(* A new observation has sent nothing yet.                                 *)
LEMMA BeginKeepsInv ==
  ASSUME TargetsInv, NEW o \in Observer, NEW t \in Target, NEW ident \in Release,
         BeginObservation(o, t, ident)
  PROVE  TargetsInv'
  <1>1. TargetsTypeOK'
    BY DEF TargetsInv, TargetsTypeOK, BeginObservation, Observation, Step
  <1>2. SentWasCommitted'
    BY DEF TargetsInv, SentWasCommitted, BeginObservation, TargetsTypeOK
  <1>3. ExecutorFollowsDatabase'
    BY DEF TargetsInv, ExecutorFollowsDatabase, BeginObservation
  <1>4. LoadedRowStays'
    BY DEF TargetsInv, LoadedRowStays, BeginObservation, TargetsTypeOK
  <1> QED BY <1>1, <1>2, <1>3, <1>4 DEF TargetsInv

(* A step that moves o on, keeps what is committed and deletes no row      *)
(* keeps what the requests under way rely on.                              *)
LEMMA MoveKeepsRequests ==
  ASSUME TargetsInv, NEW o \in Observer, NEW step \in Step \cup {"idle"},
         ~At(o, "idle"), Move(o, step),
         \A t \in Target : committed[t] \subseteq committed'[t],
         \A t \in Target : live[t] # None => live'[t] # None,
         step # "idle" => obs[o].ident \in committed'[obs[o].target]
  PROVE  SentWasCommitted' /\ LoadedRowStays'
  <1>1. /\ \A p \in Observer : p # o => obs'[p] = obs[p]
        /\ step = "idle" => obs'[o] = IdleObs
        /\ step # "idle" => /\ obs'[o].step = step
                            /\ obs'[o].ident = obs[o].ident
                            /\ obs'[o].target = obs[o].target
                            /\ obs'[o].row = obs[o].row
    BY MoveType DEF TargetsInv, TargetsTypeOK
  <1>2. \A p \in Observer : obs[p].step \in Step => obs[p] \in Observation
    BY DEF TargetsInv, TargetsTypeOK, Step, IdleObs
  <1>3. obs[o].step \in Step
    BY DEF TargetsInv, TargetsTypeOK, At, Observation, IdleObs
  <1>4. SentWasCommitted'
    <2> SUFFICES ASSUME NEW p \in Observer, obs'[p].step \in {"sent", "applied", "late"}
                 PROVE  obs'[p].ident \in committed'[obs'[p].target]
      BY DEF SentWasCommitted
    <2>1. CASE p # o
      BY <1>1, <1>2, <2>1 DEF TargetsInv, SentWasCommitted, Observation, Step
    <2>2. CASE p = o
      BY <1>1, <2>2 DEF IdleObs
    <2> QED BY <2>1, <2>2
  <1>5. LoadedRowStays'
    <2> SUFFICES ASSUME NEW p \in Observer, obs'[p].step \in Step, obs'[p].row # None
                 PROVE  live'[obs'[p].target] # None
      BY DEF LoadedRowStays
    <2>1. CASE p # o
      BY <1>1, <1>2, <2>1 DEF TargetsInv, LoadedRowStays, Observation
    <2>2. CASE p = o
      BY <1>1, <1>2, <1>3, <2>2 DEF TargetsInv, LoadedRowStays, IdleObs, Step, Observation
    <2> QED BY <2>1, <2>2
  <1> QED BY <1>4, <1>5

LEMMA CommitKeepsInv ==
  ASSUME TargetsInv, NEW o \in Observer, ObserveCommit(o)
  PROVE  TargetsInv'
  <1> DEFINE t == obs[o].target
  <1> DEFINE ident == obs[o].ident
  <1>1. /\ obs[o] \in Observation /\ t \in Target /\ ident \in Release
        /\ obs[o].row \in Release \cup {None} /\ ~At(o, "idle")
    BY DEF TargetsInv, TargetsTypeOK, ObserveCommit, At, Observation, IdleObs
  <1>2. AfterCommit \in Step \cup {"idle"} /\ Move(o, AfterCommit)
    BY DEF AfterCommit, Step, ObserveCommit
  <1>3. /\ obs' \in [Observer -> Observation \cup {IdleObs}]
        /\ \A p \in Observer : p # o => obs'[p] = obs[p]
        /\ AfterCommit = "idle" => obs'[o] = IdleObs
        /\ AfterCommit # "idle" => obs'[o].ident = ident /\ obs'[o].target = t
    BY <1>1, <1>2, MoveType DEF TargetsInv, TargetsTypeOK
  <1>4. /\ committed' = [committed EXCEPT ![t] = @ \cup {ident}]
        /\ store' = store
        /\ live' = [live EXCEPT ![t] = Upsert(obs[o].row, ident, live[t])]
    BY DEF ObserveCommit
  <1>5. committed' \in [Target -> SUBSET Release]
    BY <1>1, <1>4 DEF TargetsInv, TargetsTypeOK
  <1>6. \A u \in Target : committed[u] \subseteq committed'[u]
    BY <1>1, <1>4 DEF TargetsInv, TargetsTypeOK
  <1>7. ident \in committed'[t]
    BY <1>1, <1>4 DEF TargetsInv, TargetsTypeOK
  <1>8. live' \in [Target -> Release \cup {None}] /\ live'[t] # None
    <2>1. live \in [Target -> Release \cup {None}] /\ live[t] \in Release \cup {None}
      BY <1>1 DEF TargetsInv, TargetsTypeOK
    <2>2. obs[o].row # None => live[t] # None
      BY DEF TargetsInv, LoadedRowStays, ObserveCommit, At, Step
    <2>3. Upsert(obs[o].row, ident, live[t]) \in Release
      BY <1>1, <2>1, <2>2, UpsertIsRelease
    <2> QED BY <1>1, <1>4, <2>1, <2>3, NoneIsNoRelease
  <1>9. TargetsTypeOK'
    BY <1>3, <1>4, <1>5, <1>8 DEF TargetsInv, TargetsTypeOK
  <1>10. \A u \in Target : live[u] # None => live'[u] # None
    BY <1>1, <1>4, <1>8 DEF TargetsInv, TargetsTypeOK
  <1>11. SentWasCommitted' /\ LoadedRowStays'
    BY <1>1, <1>2, <1>6, <1>7, <1>10, MoveKeepsRequests
  <1>12. ExecutorFollowsDatabase'
    BY <1>4, <1>6 DEF TargetsInv, ExecutorFollowsDatabase
  <1> QED BY <1>9, <1>11, <1>12 DEF TargetsInv

(* The executor takes over an identity that was sent.                      *)
LEMMA DeliverKeepsInv ==
  ASSUME TargetsInv, NEW o \in Observer, Deliver(o)
  PROVE  TargetsInv'
  <1> DEFINE next == IF At(o, "sent") THEN "applied" ELSE "idle"
  <1>1. /\ obs[o] \in Observation /\ ~At(o, "idle")
        /\ obs[o].target \in Target /\ obs[o].ident \in Release
    BY DEF TargetsInv, TargetsTypeOK, Deliver, At, Observation, IdleObs
  <1>2. obs[o].ident \in committed[obs[o].target]
    BY DEF TargetsInv, SentWasCommitted, Deliver
  <1>3. next \in Step \cup {"idle"} /\ Move(o, next)
    BY DEF Deliver, Step
  <1>4. /\ store' = [store EXCEPT ![obs[o].target] = obs[o].ident]
        /\ live' = live /\ committed' = committed
    BY DEF Deliver
  <1>5. TargetsTypeOK'
    BY <1>1, <1>3, <1>4, MoveType DEF TargetsInv, TargetsTypeOK
  <1>6. SentWasCommitted' /\ LoadedRowStays'
    BY <1>1, <1>2, <1>3, <1>4, MoveKeepsRequests
  <1>7. ExecutorFollowsDatabase'
    BY <1>1, <1>2, <1>4 DEF TargetsInv, TargetsTypeOK, ExecutorFollowsDatabase
  <1> QED BY <1>5, <1>6, <1>7 DEF TargetsInv

(* The steps that only move a handler on, out of its transaction or out of *)
(* its RPC.                                                                *)
LEMMA MoveKeepsInv ==
  ASSUME TargetsInv, NEW o \in Observer,
         \/ ObserveConflict(o) \/ ObserveAnswered(o) \/ ObserveTimeout(o) \/ Drop(o)
  PROVE  TargetsInv'
  <1>1. PICK step \in {"idle", "late"} :
          /\ Move(o, step)
          /\ step = "late" => obs[o].step = "sent"
    BY DEF ObserveConflict, ObserveAnswered, ObserveTimeout, Drop, At
  <1>2. ~At(o, "idle") /\ UNCHANGED <<live, store, committed>>
    BY DEF ObserveConflict, ObserveAnswered, ObserveTimeout, Drop, At
  <1>3. step \in Step \cup {"idle"}
    BY DEF Step
  <1>4. TargetsTypeOK'
    BY <1>1, <1>2, <1>3, MoveType DEF TargetsInv, TargetsTypeOK
  <1>5. step # "idle" => obs[o].ident \in committed'[obs[o].target]
    BY <1>1, <1>2 DEF TargetsInv, SentWasCommitted
  <1>6. SentWasCommitted' /\ LoadedRowStays'
    BY <1>1, <1>2, <1>3, <1>5, MoveKeepsRequests
  <1>7. ExecutorFollowsDatabase'
    BY <1>2 DEF TargetsInv, ExecutorFollowsDatabase
  <1> QED BY <1>4, <1>6, <1>7 DEF TargetsInv

LEMMA RestartKeepsInv ==
  ASSUME TargetsInv, ExecutorRestart
  PROVE  TargetsInv'
  <1>1. TargetsTypeOK'
    BY DEF TargetsInv, TargetsTypeOK, ExecutorRestart
  <1>2. SentWasCommitted' /\ LoadedRowStays'
    BY DEF TargetsInv, SentWasCommitted, LoadedRowStays, ExecutorRestart
  <1>3. ExecutorFollowsDatabase'
    BY DEF ExecutorFollowsDatabase, ExecutorRestart
  <1> QED BY <1>1, <1>2, <1>3 DEF TargetsInv

(* Stated of its two effects, so that the orchestrator's crash can use it. *)
LEMMA DropKeepsInv ==
  ASSUME TargetsInv, DropObservations, UNCHANGED <<live, store, committed>>
  PROVE  TargetsInv'
  <1>1. \A o \in Observer :
          \/ obs'[o] = IdleObs
          \/ /\ obs[o].step \in {"sent", "late"}
             /\ obs'[o] = [obs[o] EXCEPT !.step = "late"]
    BY DEF DropObservations
  <1>2. \A o \in Observer : obs[o].step \in {"sent", "late"} => obs[o] \in Observation
    BY DEF TargetsInv, TargetsTypeOK, IdleObs
  <1>3. \A o \in Observer :
          \/ obs'[o] = IdleObs
          \/ /\ obs[o].step \in {"sent", "late"} /\ obs[o] \in Observation
             /\ obs'[o] \in Observation
             /\ obs'[o].target = obs[o].target
             /\ obs'[o].ident = obs[o].ident
             /\ obs'[o].row = obs[o].row
    BY <1>1, <1>2 DEF Observation, Step
  <1>4. TargetsTypeOK'
    BY <1>3 DEF TargetsInv, TargetsTypeOK, DropObservations
  <1>5. SentWasCommitted'
    BY <1>3 DEF TargetsInv, SentWasCommitted, IdleObs
  <1>6. LoadedRowStays'
    BY <1>3 DEF TargetsInv, LoadedRowStays, IdleObs, Step
  <1>7. ExecutorFollowsDatabase'
    BY DEF TargetsInv, ExecutorFollowsDatabase
  <1> QED BY <1>4, <1>5, <1>6, <1>7 DEF TargetsInv

(* Every step of observers, executor and network keeps the invariant.      *)
LEMMA ObserversKeepInv ==
  ASSUME TargetsInv, ObserversNext
  PROVE  TargetsInv'
  <1>1. ASSUME NEW o \in Observer, ObserveRead(o)
        PROVE  TargetsInv'
    BY <1>1, BeginKeepsInv DEF ObserveRead
  <1>2. ASSUME NEW o \in Observer, DriftRead(o)
        PROVE  TargetsInv'
    <2>1. PICK t \in Target, f \in Field, v \in Value :
            live[t] # None /\ BeginObservation(o, t, [live[t] EXCEPT ![f] = v])
      BY <1>2 DEF DriftRead
    <2>2. live[t] \in [Field -> Value]
      BY <2>1 DEF TargetsInv, TargetsTypeOK, Release
    <2>3. [live[t] EXCEPT ![f] = v] \in Release
      BY <2>2 DEF Release
    <2> QED BY <2>1, <2>3, BeginKeepsInv
  <1>3. ASSUME NEW o \in Observer, ObserveCommit(o)
        PROVE  TargetsInv'
    BY <1>3, CommitKeepsInv
  <1>4. ASSUME NEW o \in Observer, Deliver(o)
        PROVE  TargetsInv'
    BY <1>4, DeliverKeepsInv
  <1>5. ASSUME NEW o \in Observer,
               \/ ObserveConflict(o) \/ ObserveAnswered(o) \/ ObserveTimeout(o) \/ Drop(o)
        PROVE  TargetsInv'
    BY <1>5, MoveKeepsInv
  <1>6. CASE ExecutorRestart
    BY <1>6, RestartKeepsInv
  <1> QED BY <1>1, <1>2, <1>3, <1>4, <1>5, <1>6 DEF ObserversNext

LEMMA TargetsStepInv == TargetsInv /\ [TargetsNext]_tvars => TargetsInv'
  <1> SUFFICES ASSUME TargetsInv, [TargetsNext]_tvars PROVE TargetsInv'
    OBVIOUS
  <1>1. CASE ObserversNext
    BY <1>1, ObserversKeepInv
  <1>2. CASE TargetsCrash
    BY <1>2, DropKeepsInv DEF TargetsCrash
  <1>3. CASE UNCHANGED tvars
    BY <1>3 DEF tvars, TargetsInv, TargetsTypeOK, LoadedRowStays, SentWasCommitted,
                ExecutorFollowsDatabase
  <1> QED BY <1>1, <1>2, <1>3 DEF TargetsNext

LEMMA TargetsInvariant == TargetsSpec => []TargetsInv
  <1>1. TargetsInit => TargetsInv
    BY TargetsInitInv
  <1>2. TargetsInv /\ [TargetsNext]_tvars => TargetsInv'
    BY TargetsStepInv
  <1> QED BY <1>1, <1>2, PTL DEF TargetsSpec

(* Rows, executor entries and observations keep their types; in particular *)
(* a column-wise UPDATE never meets an absent row.                         *)
THEOREM TargetsTypeCorrect == TargetsSpec => []TargetsTypeOK
  <1>1. TargetsInv => TargetsTypeOK
    BY DEF TargetsInv
  <1> QED BY <1>1, TargetsInvariant, PTL

(* The executor's store never runs ahead of the database: what it compares *)
(* an execution with was committed by upsert_target or demo_drift before,  *)
(* whatever is lost, late, reordered or restarted.                         *)
THEOREM StoreFollowsDatabase == TargetsSpec => []ExecutorFollowsDatabase
  <1>1. TargetsInv => ExecutorFollowsDatabase
    BY DEF TargetsInv
  <1> QED BY <1>1, TargetsInvariant, PTL
=============================================================================
