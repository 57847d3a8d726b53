---------------------------- MODULE HistoryProofs ----------------------------
(***************************************************************************)
(* Proofs about what separates the two copies of a target: as long as its  *)
(* observations do not overlap, the committed row is one that somebody     *)
(* reported; if no RPC or process failed either, the executor compares     *)
(* with that row whenever no RPC is under way.                             *)
(***************************************************************************)
EXTENDS TargetsProofs, TargetsHistory

On(o, t) == obs[o] # IdleObs /\ obs[o].target = t

(* Observations that did not overlap: at most one is under way, it has     *)
(* loaded the row that is still there, and the row was reported.           *)
Serial(t) ==
  /\ \A o, p \in Observer : On(o, t) /\ On(p, t) => o = p
  /\ \A o \in Observer : On(o, t) /\ At(o, "read") => obs[o].row = live[t]
  /\ live[t] # None => live[t] \in committed[t]

(* Nothing failed either: what is on its way to the executor is the row,   *)
(* and with nothing on its way the executor has it.                        *)
Calm(t) ==
  /\ \A o \in Observer : On(o, t) => ~At(o, "late") /\ (At(o, "sent") => obs[o].ident = live[t])
  /\ (\A o \in Observer : On(o, t) => ~At(o, "sent")) => store[t] = live[t]

HistoryInv ==
  /\ TargetsInv /\ HistoryTypeOK
  /\ \A t \in Target : "overlap" \notin disturbed[t] => Serial(t)
  /\ Remote => \A t \in Target : disturbed[t] = {} => Calm(t)

----------------------------------------------------------------------------
(* What happened to a target stays in its history.                         *)
LEMMA Watched ==
  ASSUME HistoryTypeOK, NEW S, NEW what \in {"overlap", "failure"}, Watch(S, what)
  PROVE  /\ disturbed' \in [Target -> SUBSET {"overlap", "failure"}]
         /\ \A t \in Target : /\ disturbed[t] \subseteq disturbed'[t]
                              /\ t \in S => what \in disturbed'[t]
  BY DEF HistoryTypeOK, Watch

(* A worker that is not idle serves an observation.                        *)
LEMMA ServedObservation ==
  ASSUME TargetsInv, NEW o \in Observer, ~At(o, "idle")
  PROVE  obs[o] \in Observation /\ obs[o] # IdleObs /\ obs[o].target \in Target
  BY DEF TargetsInv, TargetsTypeOK, At, IdleObs, Observation, Step

(* A step of worker o that leaves the row and the executor's entry of t    *)
(* alone, and lets o go on with t or end, keeps what is known of t.        *)
LEMMA SerialStays ==
  ASSUME TargetsInv, NEW o \in Observer, NEW t \in Target, Serial(t),
         live'[t] = live[t], committed'[t] = committed[t],
         \A p \in Observer : p # o => obs'[p] = obs[p],
         On(o, t)' => On(o, t) /\ ~At(o, "read")'
  PROVE  Serial(t)'
  BY DEF Serial, On, At

----------------------------------------------------------------------------
(* The steps, one by one.                                                  *)

LEMMA BeginsStep ==
  ASSUME HistoryInv, NEW o \in Observer, Begins(o), TargetsInv'
  PROVE  HistoryInv'
  <1>1. PICK t \in Target, ident \in Release : BeginObservation(o, t, ident)
    <2>1. ASSUME NEW t \in Target, NEW f \in Field, NEW v \in Value, live[t] # None
          PROVE  [live[t] EXCEPT ![f] = v] \in Release
      BY <2>1 DEF HistoryInv, TargetsInv, TargetsTypeOK, Release
    <2> QED BY <2>1 DEF Begins, ObserveRead, DriftRead
  <1>2. /\ obs[o] = IdleObs
        /\ \A p \in Observer : p # o => obs'[p] = obs[p]
        /\ obs'[o] = [step |-> "read", target |-> t, ident |-> ident, row |-> live[t]]
        /\ live' = live /\ store' = store /\ committed' = committed
    BY <1>1 DEF BeginObservation, HistoryInv, TargetsInv, TargetsTypeOK, At, Observation, Step
  <1>3. Watch({u \in {t} : Overlaps(o, u)}, "overlap")
    BY <1>2 DEF Begins
  <1>4. HistoryTypeOK'
    BY <1>3, Watched DEF HistoryInv, HistoryTypeOK, TargetsInv
  <1>5. \A u \in Target : disturbed[u] \subseteq disturbed'[u]
    BY <1>3, Watched DEF HistoryInv
  <1>6. ASSUME NEW u \in Target, "overlap" \notin disturbed'[u] PROVE Serial(u)'
    <2>1. Serial(u)
      BY <1>5, <1>6 DEF HistoryInv
    <2>2. CASE u # t
      <3>1. ~On(o, u)'
        BY <1>2, <2>2 DEF On
      <3> QED BY <1>2, <2>1, <3>1, SerialStays DEF HistoryInv
    <2>3. CASE u = t
      <3>1. ~Overlaps(o, t)
        BY <1>3, <1>6, <2>3, Watched DEF HistoryInv
      <3>2. \A p \in Observer : On(p, t)' => p = o
        BY <1>2, <3>1 DEF Overlaps, On
      <3>3. \A p \in Observer : On(p, t)' /\ At(p, "read")' => obs'[p].row = live'[t]
        BY <1>2, <3>2
      <3> QED BY <1>2, <2>1, <2>3, <3>2, <3>3 DEF Serial
    <2> QED BY <2>2, <2>3
  <1>7. ASSUME Remote, NEW u \in Target, disturbed'[u] = {} PROVE Calm(u)'
    <2>1. Calm(u)
      BY <1>5, <1>7 DEF HistoryInv
    <2>2. ~At(o, "late")' /\ ~At(o, "sent")' /\ ~On(o, u)
      BY <1>2 DEF At, On
    <2> QED BY <1>2, <2>1, <2>2 DEF Calm, On, At
  <1> QED BY <1>4, <1>6, <1>7 DEF HistoryInv

LEMMA CommitStep ==
  ASSUME HistoryInv, NEW o \in Observer, ObserveCommit(o), UNCHANGED disturbed, TargetsInv'
  PROVE  HistoryInv'
  <1> DEFINE t == obs[o].target
  <1> DEFINE ident == obs[o].ident
  <1>1. At(o, "read") /\ ~At(o, "idle")
    BY DEF ObserveCommit, At
  <1>2. obs[o] \in Observation /\ On(o, t) /\ t \in Target
        /\ ident \in Release /\ obs[o].row \in Release \cup {None}
    BY <1>1, ServedObservation DEF HistoryInv, On, Observation
  <1>3. /\ obs \in [Observer -> Observation \cup {IdleObs}]
        /\ live \in [Target -> Release \cup {None}] /\ committed \in [Target -> SUBSET Release]
    BY DEF HistoryInv, TargetsInv, TargetsTypeOK
  <1>4. /\ \A p \in Observer : p # o => obs'[p] = obs[p]
        /\ Remote => obs'[o].step = "sent" /\ obs'[o].target = t /\ obs'[o].ident = ident
        /\ ~Remote => obs'[o] = IdleObs
    BY <1>1, <1>3, MoveType DEF ObserveCommit, AfterCommit, Step
  <1>5. /\ live'[t] = Upsert(obs[o].row, ident, live[t])
        /\ committed'[t] = committed[t] \cup {ident}
        /\ \A u \in Target : u # t => live'[u] = live[u] /\ committed'[u] = committed[u]
        /\ store' = store
    BY <1>2, <1>3 DEF ObserveCommit
  <1>6. HistoryTypeOK'
    BY DEF HistoryInv, HistoryTypeOK, TargetsInv
  <1>7. "overlap" \notin disturbed[t] => live'[t] = ident
    <2> SUFFICES ASSUME "overlap" \notin disturbed[t] PROVE live'[t] = ident
      OBVIOUS
    <2>1. obs[o].row = live[t]
      BY <1>1, <1>2 DEF HistoryInv, Serial
    <2> QED BY <1>2, <1>5, <2>1, UpsertIsExact
  <1>8. ASSUME NEW u \in Target, "overlap" \notin disturbed'[u] PROVE Serial(u)'
    <2>1. Serial(u)
      BY <1>8 DEF HistoryInv
    <2>2. CASE u # t
      <3>1. ~On(o, u)'
        BY <1>4, <2>2 DEF On
      <3> QED BY <1>2, <1>4, <1>5, <2>1, <2>2, <3>1, SerialStays DEF HistoryInv
    <2>3. CASE u = t
      <3>1. \A p \in Observer : On(p, u)' => p = o
        BY <1>2, <1>4, <2>1, <2>3 DEF Serial, On
      <3>2. ~At(o, "read")'
        BY <1>4 DEF At, IdleObs
      <3>3. live'[u] \in committed'[u]
        BY <1>5, <1>7, <1>8, <2>3
      <3> QED BY <3>1, <3>2, <3>3 DEF Serial
    <2> QED BY <2>2, <2>3
  <1>9. ASSUME Remote, NEW u \in Target, disturbed'[u] = {} PROVE Calm(u)'
    <2>1. Calm(u) /\ Serial(u)
      BY <1>9 DEF HistoryInv
    <2>2. CASE u # t
      <3>1. ~On(o, u)' /\ ~On(o, u)
        BY <1>4, <2>2 DEF On
      <3> QED BY <1>2, <1>4, <1>5, <2>1, <2>2, <3>1 DEF Calm, On, At
    <2>3. CASE u = t
      <3>1. \A p \in Observer : On(p, u)' => p = o
        BY <1>2, <1>4, <2>1, <2>3 DEF Serial, On
      <3>2. At(o, "sent")' /\ ~At(o, "late")' /\ On(o, u)'
        BY <1>4, <1>9, <2>3 DEF At, On, IdleObs
      <3>3. obs'[o].ident = live'[u]
        BY <1>4, <1>7, <1>9, <2>3
      <3> QED BY <3>1, <3>2, <3>3 DEF Calm
    <2> QED BY <2>2, <2>3
  <1> QED BY <1>6, <1>8, <1>9 DEF HistoryInv

(* The steps that only move an observation on: Deliver, which changes the  *)
(* executor's entry, an answer, a refused insert, a timeout, a lost RPC.   *)
LEMMA MoveStep ==
  ASSUME HistoryInv, NEW o \in Observer, TargetsInv', HistoryTypeOK',
         \A u \in Target : disturbed[u] \subseteq disturbed'[u],
         \/ Deliver(o) \/ ObserveAnswered(o) \/ ObserveConflict(o)
         \/ /\ ObserveTimeout(o) \/ Drop(o)
            /\ disturbed'[obs[o].target] # {}
  PROVE  HistoryInv'
  <1> DEFINE t == obs[o].target
  <1>1. PICK step \in {"idle", "applied", "late"} :
          Move(o, step) /\ ~At(o, "idle") /\ live' = live /\ committed' = committed
    BY DEF Deliver, ObserveAnswered, ObserveConflict, ObserveTimeout, Drop, At
  <1>2. obs[o] \in Observation /\ On(o, t) /\ t \in Target
    BY <1>1, ServedObservation DEF HistoryInv, On
  <1>3. /\ \A p \in Observer : p # o => obs'[p] = obs[p]
        /\ \/ obs'[o] = IdleObs
           \/ /\ obs'[o].step = step /\ step # "idle"
              /\ obs'[o].target = t /\ obs'[o].ident = obs[o].ident
    BY <1>1, MoveType DEF HistoryInv, TargetsInv, TargetsTypeOK, Step
  <1>4. ASSUME NEW u \in Target, "overlap" \notin disturbed'[u] PROVE Serial(u)'
    <2>1. Serial(u)
      BY <1>4 DEF HistoryInv
    <2>2. On(o, u)' => On(o, u) /\ ~At(o, "read")'
      BY <1>2, <1>3 DEF On, At
    <2> QED BY <1>1, <1>3, <2>1, <2>2, SerialStays DEF HistoryInv
  <1>5. ASSUME Remote, NEW u \in Target, disturbed'[u] = {} PROVE Calm(u)'
    <2>1. Calm(u)
      BY <1>5 DEF HistoryInv
    <2>2. CASE u # t
      <3>1. ~On(o, u)' /\ ~On(o, u)
        BY <1>3, <2>2 DEF On
      <3>2. store'[u] = store[u]
        BY <1>2, <2>2 DEF Deliver, ObserveAnswered, ObserveConflict, ObserveTimeout, Drop,
                          HistoryInv, TargetsInv, TargetsTypeOK
      <3> QED BY <1>1, <1>3, <2>1, <3>1, <3>2 DEF Calm, On, At
    <2>3. CASE u = t /\ Deliver(o)
      <3>1. At(o, "sent") /\ obs[o].ident = live[t]
        BY <1>2, <2>1, <2>3 DEF Deliver, Calm, At
      <3>2. store'[t] = live'[t]
        BY <1>1, <1>2, <2>3, <3>1 DEF Deliver, HistoryInv, TargetsInv, TargetsTypeOK
      <3>3. Move(o, "applied")
        BY <2>3, <3>1 DEF Deliver
      <3>4. ~At(o, "late")' /\ ~At(o, "sent")'
        BY <1>1, <3>3, MoveType DEF HistoryInv, TargetsInv, TargetsTypeOK, Step, At
      <3> QED BY <1>1, <1>3, <2>1, <2>3, <3>2, <3>4 DEF Calm, On, At
    <2>4. CASE u = t /\ (ObserveAnswered(o) \/ ObserveConflict(o))
      <3>1. ~At(o, "sent") /\ store' = store
        BY <2>4 DEF ObserveAnswered, ObserveConflict, At
      <3>2. ~On(o, t)'
        BY <1>1, <2>4, MoveType
           DEF HistoryInv, TargetsInv, TargetsTypeOK, ObserveAnswered, ObserveConflict, On
      <3> QED BY <1>1, <1>3, <2>1, <2>4, <3>1, <3>2 DEF Calm, On, At
    <2> QED BY <1>5, <2>2, <2>3, <2>4
  <1> QED BY <1>4, <1>5 DEF HistoryInv

LEMMA RestartsStep ==
  ASSUME HistoryInv, Restarts, TargetsInv'
  PROVE  HistoryInv'
  <1>1. HistoryTypeOK' /\ \A u \in Target : /\ disturbed[u] \subseteq disturbed'[u]
                                            /\ "failure" \in disturbed'[u]
    BY Watched DEF Restarts, HistoryInv, HistoryTypeOK, TargetsInv
  <1>2. live' = live /\ committed' = committed
    BY DEF Restarts, ExecutorRestart, TargetsCrash
  <1>3. \A o \in Observer :
          \/ obs'[o] = obs[o] \/ obs'[o] = IdleObs
          \/ /\ obs[o].step \in {"sent", "late"}
             /\ obs'[o] = [obs[o] EXCEPT !.step = "late"]
    BY DEF Restarts, ExecutorRestart, TargetsCrash, DropObservations
  <1>4. \A o \in Observer, u \in Target :
          On(o, u)' => On(o, u) /\ (At(o, "read")' => obs'[o] = obs[o])
    <2> SUFFICES ASSUME NEW o \in Observer, NEW u \in Target, On(o, u)'
                 PROVE  On(o, u) /\ (At(o, "read")' => obs'[o] = obs[o])
      OBVIOUS
    <2>1. CASE obs'[o] = obs[o]
      BY <2>1 DEF On
    <2>2. CASE obs'[o] # obs[o]
      <3>1. /\ obs[o].step \in {"sent", "late"}
            /\ obs'[o] = [obs[o] EXCEPT !.step = "late"]
        BY <1>3, <2>2 DEF On
      <3>2. obs[o] \in Observation /\ obs[o] # IdleObs
        BY <3>1, ServedObservation DEF HistoryInv, At
      <3>3. obs'[o].target = obs[o].target /\ obs'[o].step = "late"
        BY <3>1, <3>2 DEF Observation
      <3> QED BY <3>2, <3>3 DEF On, At
    <2> QED BY <2>1, <2>2
  <1>5. ASSUME NEW u \in Target, "overlap" \notin disturbed'[u] PROVE Serial(u)'
    <2>1. Serial(u)
      BY <1>1, <1>5 DEF HistoryInv
    <2> QED BY <1>2, <1>4, <2>1 DEF Serial, At
  <1> QED BY <1>1, <1>5 DEF HistoryInv

LEMMA HistoryStep ==
  ASSUME HistoryInv, [HistoryNext]_htvars
  PROVE  HistoryInv'
  <1>1. [TargetsNext]_tvars
    BY DEF HistoryNext, htvars, Begins, Proceeds, Fails, Restarts, TargetsNext, ObserversNext
  <1>2. TargetsInv'
    BY <1>1, TargetsStepInv DEF HistoryInv
  <1>3. ASSUME NEW o \in Observer, Begins(o) PROVE HistoryInv'
    BY <1>2, <1>3, BeginsStep
  <1>4. ASSUME NEW o \in Observer, Proceeds(o) PROVE HistoryInv'
    <2>1. HistoryTypeOK' /\ \A u \in Target : disturbed[u] \subseteq disturbed'[u]
      BY <1>2, <1>4 DEF Proceeds, HistoryInv, HistoryTypeOK, TargetsInv
    <2> QED BY <1>2, <1>4, <2>1, CommitStep, MoveStep DEF Proceeds
  <1>5. ASSUME NEW o \in Observer, Fails(o) PROVE HistoryInv'
    <2>1. ~At(o, "idle")
      BY <1>5 DEF Fails, ObserveTimeout, Drop, At
    <2>2. obs[o].target \in Target
      BY <2>1, ServedObservation DEF HistoryInv
    <2>3. /\ HistoryTypeOK' /\ \A u \in Target : disturbed[u] \subseteq disturbed'[u]
          /\ disturbed'[obs[o].target] # {}
      BY <1>2, <1>5, <2>2, Watched DEF Fails, HistoryInv, HistoryTypeOK, TargetsInv
    <2> QED BY <1>2, <1>5, <2>3, MoveStep DEF Fails
  <1>6. CASE Restarts
    BY <1>2, <1>6, RestartsStep
  <1>7. CASE UNCHANGED htvars
    BY <1>2, <1>7 DEF htvars, tvars, HistoryInv, HistoryTypeOK, TargetsInv, Serial, Calm, On, At
  <1> QED BY <1>3, <1>4, <1>5, <1>6, <1>7 DEF HistoryNext

LEMMA HistoryInvariant == HistorySpec => []HistoryInv
  <1>1. HistoryInit => HistoryInv
    <2> SUFFICES ASSUME HistoryInit PROVE HistoryInv
      OBVIOUS
    <2>1. TargetsInv
      BY TargetsInitInv DEF HistoryInit
    <2> QED BY <2>1 DEF HistoryInit, TargetsInit, HistoryInv, HistoryTypeOK, TargetsInv,
                        Serial, Calm, On
  <1>2. HistoryInv /\ [HistoryNext]_htvars => HistoryInv'
    BY HistoryStep
  <1> QED BY <1>1, <1>2, PTL DEF HistorySpec

(* With a remote executor, the copies of a target differ at rest only      *)
(* after observations overlapped or something failed: commit first, RPC    *)
(* second (services.py 238 and 239) is enough for one observation at a     *)
(* time.                                                                   *)
THEOREM UndisturbedCopiesAgree == Remote => (HistorySpec => []UndisturbedStoresAgree)
  <1> SUFFICES ASSUME Remote PROVE HistorySpec => []UndisturbedStoresAgree
    OBVIOUS
  <1>1. HistoryInv => UndisturbedStoresAgree
    BY DEF HistoryInv, Calm, UndisturbedStoresAgree, AtRest, On, At
  <1> QED BY <1>1, HistoryInvariant, PTL

(* The column-wise UPDATE blends identities only when observations of the  *)
(* target overlap, whatever RPCs and processes fail and whichever executor *)
(* client is configured.                                                   *)
THEOREM SerialRowWasObserved == HistorySpec => []LiveWasObserved
  <1>1. HistoryInv => LiveWasObserved
    BY DEF HistoryInv, Serial, LiveWasObserved
  <1> QED BY <1>1, HistoryInvariant, PTL
=============================================================================
