-------------------------- MODULE EventLoopProofs --------------------------
(***************************************************************************)
(* Proofs about the scheduling of requests, for any number of requests,    *)
(* epochs, contents, hooks, threads and connections, with and without      *)
(* failures: types, leaks, deadlocks, pipeline hooks and evidence.         *)
(***************************************************************************)
EXTENDS EventLoop, FiniteSetTheorems, TLAPS

----------------------------------------------------------------------------
(* The requests as records.                                                *)

PcOf(kind) ==
  CASE kind = "sync" -> SyncPc
    [] kind = "upload" -> UploadPc
    [] kind = "hook" -> HookPc

LEMMA RequestFields ==
  ASSUME NEW x \in RequestState
  PROVE  /\ x # Unsent
         /\ x.kind \in {"sync", "upload", "hook"} /\ x.pc \in PcOf(x.kind)
         /\ x.kind # "hook" => x.epoch \in Epoch /\ x.rows = {}
         /\ x.kind = "upload" => x.content \in Content
         /\ x.kind = "hook" => x.hook \in 1..Len(Sent) /\ x.rows \subseteq Epoch
  <1>1. x.pc # "unsent"
    BY DEF RequestState, SyncPc, UploadPc, HookPc
  <1>2. x # Unsent
    BY <1>1 DEF Unsent
  <1> QED BY <1>2 DEF RequestState, PcOf

LEMMA PcTyped ==
  ASSUME NEW x \in RequestState, NEW pc \in PcOf(x.kind)
  PROVE  [x EXCEPT !.pc = pc] \in RequestState
  BY DEF RequestState, PcOf

(* What a request is that is past its arrival.                             *)
LEMMA Started ==
  ASSUME TypeOK, NEW r \in Request, req[r].pc # "unsent"
  PROVE  req[r] \in RequestState
  BY DEF TypeOK, Unsent

(* A request that moves keeps everything but its pc; the others stay.      *)
LEMMA Moves ==
  ASSUME TypeOK, NEW r \in Request, req[r] \in RequestState, NEW pc \in PcOf(req[r].kind),
         req' = Moved(r, pc)
  PROVE  /\ req' \in [Request -> RequestState \cup {Unsent}]
         /\ \A q \in Request : q # r => req'[q] = req[q]
         /\ req'[r] \in RequestState
         /\ req'[r].pc = pc /\ req'[r].kind = req[r].kind /\ req'[r].epoch = req[r].epoch
         /\ req'[r].content = req[r].content /\ req'[r].hook = req[r].hook
         /\ req'[r].rows = req[r].rows
  <1>1. req \in [Request -> RequestState \cup {Unsent}]
    BY DEF TypeOK
  <1>2. req'[r] = [req[r] EXCEPT !.pc = pc]
    BY <1>1 DEF Moved
  <1>3. req'[r] \in RequestState
    BY <1>2, PcTyped
  <1>4. /\ req'[r].pc = pc /\ req'[r].kind = req[r].kind /\ req'[r].epoch = req[r].epoch
        /\ req'[r].content = req[r].content /\ req'[r].hook = req[r].hook
        /\ req'[r].rows = req[r].rows
    BY <1>2 DEF RequestState
  <1> QED BY <1>1, <1>3, <1>4 DEF Moved

(* Where a request stands tells its kind.                                  *)
LEMMA KindOfPc ==
  ASSUME NEW x \in RequestState
  PROVE  /\ x.pc \in {"running", "locking", "locked"} => x.kind = "sync"
         /\ x.pc \in {"reading", "writing", "written"} => x.kind = "upload"
         /\ x.pc \in {"opening", "opened", "connecting"} => x.kind = "hook"
         /\ x.pc \in {"auth", "authed"} => x.kind \in {"sync", "upload"}
         /\ x.pc = "committing" => x.kind \in {"upload", "hook"}
  BY RequestFields DEF PcOf, SyncPc, UploadPc, HookPc

----------------------------------------------------------------------------
(* The steps of requests, grouped by how they move: every step is one of   *)
(* these, the arrival of a request, a crash or the creation of an epoch.   *)

Transition(r, from, pc) ==
  /\ req[r].pc = from /\ req' = Moved(r, pc)
  /\ req[r] \in RequestState /\ pc \in PcOf(req[r].kind)

LEMMA StepMoves ==
  ASSUME TypeOK, NEW r \in Request,
         Step(r) \/ UploadWriteFails(r) \/ UploadCommitFails(r) \/ HookCommitFails(r),
         ~HookLoads(r)
  PROVE  \E pc \in PcOf(req[r].kind) : Transition(r, req[r].pc, pc)
  <1>1. CASE DispatchDependencies(r) \/ get_db(r) \/ current_user(r)
    <2>1. req[r] \in RequestState
      BY <1>1, Started DEF DispatchDependencies, get_db, current_user, At
    <2> QED BY <1>1, <2>1, KindOfPc, RequestFields
            DEF DispatchDependencies, get_db, current_user, At, Transition, PcOf, SyncPc,
                UploadPc, HookPc
  <1>2. CASE PoolTimeout(r) \/ get_db_Close(r)
    <2>1. req[r] \in RequestState
      BY <1>2, Started DEF PoolTimeout, get_db_Close, At
    <2> QED BY <1>2, <2>1, RequestFields
            DEF PoolTimeout, get_db_Close, At, Transition, PcOf, SyncPc, UploadPc, HookPc
  <1>3. CASE DispatchHandler(r) \/ HandlerReads(r) \/ HandlerSelects(r) \/ HandlerLocks(r)
             \/ HandlerCommits(r) \/ HandlerReturns(r)
    <2>1. req[r] \in RequestState
      BY <1>3, Started
         DEF DispatchHandler, HandlerReads, HandlerSelects, HandlerLocks, HandlerCommits,
             HandlerReturns, At, Is
    <2>2. req[r].kind = "sync"
      BY <1>3, <2>1, KindOfPc
         DEF DispatchHandler, HandlerReads, HandlerSelects, HandlerLocks, HandlerCommits,
             HandlerReturns, At, Is
    <2> QED BY <1>3, <2>1, <2>2
            DEF DispatchHandler, HandlerReads, HandlerSelects, HandlerLocks,
                HandlerCommits, HandlerReturns, Transition, PcOf, SyncPc
  <1>4. CASE \/ UploadLoads(r) \/ UploadTooLarge(r) \/ UploadWrites(r) \/ UploadWritten(r)
             \/ UploadFlushes(r) \/ UploadWriteFails(r)
    <2>1. req[r] \in RequestState
      BY <1>4, Started
         DEF UploadLoads, UploadTooLarge, UploadWrites, UploadWritten, UploadFlushes,
             UploadWriteFails, At, Is
    <2>2. req[r].kind = "upload"
      BY <1>4, <2>1, KindOfPc
         DEF UploadLoads, UploadTooLarge, UploadWrites, UploadWritten, UploadFlushes,
             UploadWriteFails, At, Is
    <2> QED BY <1>4, <2>1, <2>2
            DEF UploadLoads, UploadTooLarge, UploadWrites, UploadWritten, UploadFlushes,
                UploadWriteFails, Transition, PcOf, UploadPc
  <1>5. CASE LoopCommitEnds(r)
    <2>1. req[r] \in RequestState
      BY <1>5, Started DEF LoopCommitEnds, At
    <2> QED BY <1>5, <2>1, KindOfPc
            DEF LoopCommitEnds, At, Transition, PcOf, UploadPc, HookPc
  <1>6. CASE HookQueries(r) \/ HookDuplicate(r)
    <2>1. req[r] \in RequestState
      BY <1>6, Started DEF HookQueries, HookDuplicate, At, Is
    <2>2. req[r].kind = "hook"
      BY <1>6, <2>1, KindOfPc DEF HookQueries, HookDuplicate, At, Is
    <2> QED BY <1>6, <2>1, <2>2 DEF HookQueries, HookDuplicate, Transition, PcOf, HookPc
  <1> QED BY <1>1, <1>2, <1>3, <1>4, <1>5, <1>6
          DEF Step, UploadCommits, UploadCommitFails, HookCommits, HookCommitFails

LEMMA ArrivalMoves ==
  ASSUME TypeOK, NEW r \in Request, SyncArrives(r) \/ UploadArrives(r) \/ HookArrives(r)
  PROVE  /\ req' \in [Request -> RequestState \cup {Unsent}]
         /\ \A q \in Request : q # r => req'[q] = req[q]
         /\ req[r] = Unsent /\ req'[r] \in RequestState /\ req'[r].pc = "new"
         /\ UNCHANGED <<loop, conns, lock, hvars, evars>>
  <1>1. req \in [Request -> RequestState \cup {Unsent}]
    BY DEF TypeOK
  <1>2. PICK new \in RequestState :
          /\ new.pc = "new" /\ req[r] = Unsent /\ req' = [req EXCEPT ![r] = new]
          /\ UNCHANGED <<loop, conns, lock, hvars, evars>>
    BY DEF SyncArrives, UploadArrives, HookArrives, Arrives, RequestState, SyncPc,
           UploadPc, HookPc
  <1> QED BY <1>1, <1>2

LEMMA HookLoadsMoves ==
  ASSUME TypeOK, NEW r \in Request, HookLoads(r)
  PROVE  /\ req' \in [Request -> RequestState \cup {Unsent}]
         /\ \A q \in Request : q # r => req'[q] = req[q]
         /\ req[r] \in RequestState /\ req[r].kind = "hook" /\ req[r].pc = "connecting"
         /\ req'[r] \in RequestState /\ req'[r].kind = "hook" /\ req'[r].pc = "committing"
         /\ req'[r].hook = req[r].hook /\ req'[r].rows = LoadRows(req[r].hook)
  <1>1. req \in [Request -> RequestState \cup {Unsent}]
    BY DEF TypeOK
  <1>2. req[r] \in RequestState /\ req[r].pc = "connecting" /\ req[r].kind = "hook"
    BY Started, KindOfPc DEF HookLoads, At
  <1>3. LoadRows(req[r].hook) \in SUBSET Epoch
    BY DEF LoadRows
  <1>4. req'[r] = [req[r] EXCEPT !.pc = "committing", !.rows = LoadRows(req[r].hook)]
    BY <1>1 DEF HookLoads
  <1>5. /\ req'[r] \in RequestState /\ req'[r].kind = "hook" /\ req'[r].pc = "committing"
        /\ req'[r].hook = req[r].hook /\ req'[r].rows = LoadRows(req[r].hook)
    BY <1>2, <1>3, <1>4 DEF RequestState, HookPc
  <1> QED BY <1>1, <1>2, <1>5 DEF HookLoads

LEMMA CrashMoves ==
  ASSUME TypeOK, Crash
  PROVE  /\ req' \in [Request -> RequestState \cup {Unsent}]
         /\ \A r \in Request : req'[r].pc \in {"unsent", "done"}
  <1> SUFFICES ASSUME NEW r \in Request
               PROVE  /\ req'[r] \in RequestState \cup {Unsent}
                      /\ req'[r].pc \in {"unsent", "done"}
    BY DEF Crash
  <1>1. req[r] \in RequestState \cup {Unsent}
    BY DEF TypeOK
  <1>2. CASE ~InProgress(r)
    BY <1>1, <1>2 DEF Crash, InProgress
  <1>3. CASE InProgress(r)
    <2>1. req[r] \in RequestState /\ req'[r] = [req[r] EXCEPT !.pc = "done"]
      BY <1>1, <1>3 DEF Crash, InProgress, Unsent
    <2>2. "done" \in PcOf(req[r].kind)
      BY <2>1, RequestFields DEF PcOf, SyncPc, UploadPc, HookPc
    <2>3. req'[r].pc = "done"
      BY <2>1 DEF RequestState
    <2> QED BY <2>1, <2>2, <2>3, PcTyped
  <1> QED BY <1>2, <1>3

(* Every step is of one of these kinds.                                    *)
LEMMA Kinds ==
  ASSUME [Next]_allvars
  PROVE  \/ \E r \in Request : SyncArrives(r) \/ UploadArrives(r) \/ HookArrives(r)
         \/ \E r \in Request : HookLoads(r)
         \/ \E r \in Request :
              /\ Step(r) \/ UploadWriteFails(r) \/ UploadCommitFails(r) \/ HookCommitFails(r)
              /\ ~HookLoads(r)
         \/ Crash
         \/ NewEpoch
         \/ UNCHANGED allvars
  BY DEF Next, Step

----------------------------------------------------------------------------
(* Type correctness.                                                       *)

LEMMA RequestsTyped ==
  ASSUME TypeOK, [Next]_allvars
  PROVE  req' \in [Request -> RequestState \cup {Unsent}]
  <1>1. ASSUME NEW r \in Request,
               Step(r) \/ UploadWriteFails(r) \/ UploadCommitFails(r) \/ HookCommitFails(r),
               ~HookLoads(r)
        PROVE  req' \in [Request -> RequestState \cup {Unsent}]
    BY <1>1, StepMoves, Moves DEF Transition
  <1>2. CASE NewEpoch \/ UNCHANGED allvars
    BY <1>2 DEF NewEpoch, svars, allvars, TypeOK
  <1> QED BY <1>1, <1>2, Kinds, ArrivalMoves, HookLoadsMoves, CrashMoves

LEMMA SchedulingTyped ==
  ASSUME TypeOK, [Next]_allvars
  PROVE  /\ loop' \in Request \cup {None} /\ conns' \subseteq Request
         /\ lock' \in [Epoch -> Request \cup {None}]
  <1> USE DEF TypeOK
  <1>1. ASSUME NEW r \in Request, SyncArrives(r) \/ UploadArrives(r) \/ HookArrives(r)
        PROVE  UNCHANGED <<loop, conns, lock>>
    BY <1>1, ArrivalMoves
  <1>2. ASSUME NEW r \in Request, Step(r) \/ UploadWriteFails(r) \/ UploadCommitFails(r) \/ HookCommitFails(r)
        PROVE  /\ loop' \in {loop, r, None} /\ conns' \in {conns, conns \cup {r}, conns \ {r}}
               /\ \/ lock' = lock
                  \/ \E x \in {r, None} : lock' = [lock EXCEPT ![req[r].epoch] = x]
                  \/ lock' = [e \in Epoch |-> IF lock[e] = r THEN None ELSE lock[e]]
    BY <1>2
       DEF Step, DispatchDependencies, get_db, current_user, PoolTimeout, get_db_Close,
           DispatchHandler, HandlerReads, HandlerSelects, HandlerLocks, HandlerCommits,
           HandlerReturns, UploadLoads, UploadTooLarge, UploadWrites, UploadWritten,
           UploadWriteFails, UploadFlushes, LoopCommitEnds, UploadCommits,
           UploadCommitFails, HookQueries, HookDuplicate, HookLoads, HookCommits,
           HookCommitFails
  <1>3. CASE Crash \/ NewEpoch \/ UNCHANGED allvars
    BY <1>3 DEF Crash, NewEpoch, svars, allvars
  <1>4. ASSUME NEW r \in Request, Step(r) \/ UploadWriteFails(r) \/ UploadCommitFails(r) \/ HookCommitFails(r)
        PROVE  /\ loop' \in Request \cup {None} /\ conns' \subseteq Request
               /\ lock' \in [Epoch -> Request \cup {None}]
    <2>1. lock' \in [Epoch -> Request \cup {None}]
      BY <1>2, <1>4
    <2> QED BY <1>2, <1>4, <2>1
  <1> QED BY <1>1, <1>3, <1>4 DEF Next

(* Who writes the rows of hooks, and who writes evidence.                  *)
LEMMA HookWrites ==
  ASSUME [Next]_allvars
  PROVE  \/ UNCHANGED hvars
         \/ \E e \in Epoch : EpochCreated(e) /\ UNCHANGED svars
         \/ \E r \in Request : HookCommits(r)
  BY DEF Next, Step, allvars, svars, SyncArrives, UploadArrives, HookArrives, Arrives,
         Crash, NewEpoch, DispatchDependencies, get_db, current_user, PoolTimeout,
         get_db_Close, DispatchHandler, HandlerReads, HandlerSelects, HandlerLocks,
         HandlerCommits, HandlerReturns, UploadLoads, UploadTooLarge, UploadWrites,
         UploadWritten, UploadWriteFails, UploadFlushes, UploadCommits, UploadCommitFails,
         HookQueries, HookDuplicate, HookLoads, HookCommitFails

LEMMA EvidenceWrites ==
  ASSUME [Next]_allvars
  PROVE  \/ UNCHANGED evars
         \/ \E r \in Request : UploadWrites(r) \/ UploadWritten(r) \/ UploadWriteFails(r)
                               \/ UploadCommits(r) \/ UploadCommitFails(r)
         \/ Crash
  BY DEF Next, Step, allvars, SyncArrives, UploadArrives, HookArrives, Arrives, NewEpoch,
         DispatchDependencies, get_db, current_user, PoolTimeout, get_db_Close,
         DispatchHandler, HandlerReads, HandlerSelects, HandlerLocks, HandlerCommits,
         HandlerReturns, UploadLoads, UploadTooLarge, UploadFlushes, HookQueries,
         HookDuplicate, HookLoads, HookCommits, HookCommitFails

LEMMA StatusTyped ==
  ASSUME HooksTypeOK, NEW e \in Epoch, NEW n \in 1..Len(Sent)
  PROVE  /\ Sent[n] \in Payload
         /\ NewStatus(e, n) \in {"pending", "success", "sha_mismatch"}
  <1>1. Sent[n] \in Payload
    BY PinTypes
  <1> QED BY <1>1 DEF NewStatus, Payload

LEMMA EffectTyped ==
  ASSUME HooksTypeOK, NEW n \in 1..Len(Sent), NEW rows \in SUBSET Epoch, HookEffect(n, rows)
  PROVE  HooksTypeOK'
  <1>1. status' \in [Epoch -> {"none", "pending", "success", "sha_mismatch"}]
    BY StatusTyped DEF HookEffect, HooksTypeOK
  <1>2. lastEvent' \in [Epoch -> {"none", "PIPELINE_VERIFIED", "PIPELINE_REJECTED"}]
    BY DEF HookEffect, HooksTypeOK, PipelineEvent
  <1>3. newest' \in [Epoch -> 0..Len(Sent)]
    BY DEF HookEffect, HooksTypeOK
  <1>4. inOrder' \in BOOLEAN
    BY DEF HookEffect
  <1> QED BY <1>1, <1>2, <1>3, <1>4 DEF HookEffect, HooksTypeOK

LEMMA PathTyped ==
  ASSUME NEW r, req[r] \in RequestState, req[r].kind = "upload"
  PROVE  PathOf(r) \in Path
  BY RequestFields, PathsAreContentAddressed DEF PathOf

(* The writers of evidence are uploads.                                    *)
LEMMA Uploads ==
  ASSUME TypeOK, NEW r \in Request,
         \/ UploadWrites(r) \/ UploadWritten(r) \/ UploadWriteFails(r)
         \/ UploadCommits(r) \/ UploadCommitFails(r)
  PROVE  req[r] \in RequestState /\ req[r].kind = "upload" /\ PathOf(r) \in Path
  <1>1. req[r] \in RequestState
    BY Started DEF UploadWrites, UploadWritten, UploadWriteFails, UploadCommits,
                   UploadCommitFails, LoopCommitEnds, At
  <1>2. req[r].kind = "upload"
    BY <1>1, KindOfPc DEF UploadWrites, UploadWritten, UploadWriteFails, UploadCommits,
                          UploadCommitFails, At
  <1> QED BY <1>1, <1>2, PathTyped

LEMMA TypeStep == TypeOK /\ [Next]_allvars => TypeOK'
  <1> SUFFICES ASSUME TypeOK, [Next]_allvars PROVE TypeOK'
    OBVIOUS
  <1>1. HooksTypeOK'
    <2>1. CASE UNCHANGED hvars
      BY <2>1 DEF TypeOK, HooksTypeOK, hvars
    <2>2. CASE \E e \in Epoch : EpochCreated(e)
      BY <2>2 DEF TypeOK, HooksTypeOK, EpochCreated
    <2>3. ASSUME NEW r \in Request, HookCommits(r)
          PROVE  HooksTypeOK'
      <3>1. req[r] \in RequestState /\ req[r].kind = "hook"
        BY <2>3, Started DEF HookCommits, LoopCommitEnds, At
      <3> QED BY <2>3, <3>1, RequestFields, EffectTyped DEF HookCommits, TypeOK
    <2> QED BY <2>1, <2>2, <2>3, HookWrites
  <1>2. EvidenceTypeOK'
    <2>1. CASE UNCHANGED evars
      BY <2>1 DEF TypeOK, EvidenceTypeOK, evars
    <2>2. ASSUME NEW r \in Request,
                 \/ UploadWrites(r) \/ UploadWritten(r) \/ UploadWriteFails(r)
                 \/ UploadCommits(r) \/ UploadCommitFails(r)
          PROVE  EvidenceTypeOK'
      <3>1. PathOf(r) \in Path
        BY <2>2, Uploads
      <3> QED BY <2>2, <3>1
              DEF TypeOK, EvidenceTypeOK, UploadWrites, UploadWritten, UploadWriteFails,
                  UploadCommits, UploadCommitFails, WriteBegin, WriteEnd, WriteFails,
                  RowCommits, CommitFails
    <2>3. CASE Crash
      <3>1. \A r \in Request : Storing(r) => PathOf(r) \in Path
        BY Started, PathTyped DEF Storing
      <3> QED BY <2>3, <3>1 DEF Crash, CrashDuring, TypeOK, EvidenceTypeOK
    <2> QED BY <2>1, <2>2, <2>3, EvidenceWrites
  <1> QED BY <1>1, <1>2, RequestsTyped, SchedulingTyped DEF TypeOK

(* Every variable keeps its type, the threads, connections and locks of    *)
(* all requests included.                                                  *)
THEOREM EventLoopTypeCorrect == Spec => []TypeOK
  <1>1. Init => TypeOK
    BY DEF Init, TypeOK, HooksInit, HooksTypeOK, EvidenceInit, EvidenceTypeOK
  <1> QED BY <1>1, TypeStep, PTL DEF Spec

----------------------------------------------------------------------------
(* Connections, locks and the loop.                                        *)

(* The strengthening: a request that has authenticated and not answered    *)
(* has its connection.                                                     *)
ConnectedPc == {"authed", "running", "locking", "locked", "reading", "writing", "written"}
Connected == \A r \in Request : req[r].pc \in ConnectedPc => r \in conns

LeakInv == NothingLeaks /\ Connected

(* What is left to show of a step of r: where r is and what it holds.      *)
LEMMA MoveKeepsLeakInv ==
  ASSUME TypeOK, LeakInv, NEW r \in Request, NEW pc, Transition(r, req[r].pc, pc),
         conns' \subseteq conns \cup {r}, conns \subseteq conns' \cup {r},
         r \in conns' => pc \notin NoConnPc,
         pc \in ConnectedPc => r \in conns',
         \A e \in Epoch : lock'[e] # lock[e] => lock'[e] \in {None, r},
         \A e \in Epoch : lock'[e] = r =>
           r \in conns' /\ pc \in {"locked", "answered"} /\ req[r].epoch = e,
         \A q \in Request : q # r => (loop' = q <=> loop = q),
         loop' = r <=> pc \in {"connecting", "committing"}
  PROVE  LeakInv'
  <1>1. /\ \A q \in Request : q # r => req'[q] = req[q]
        /\ req'[r].pc = pc /\ req'[r].epoch = req[r].epoch
    BY Moves DEF Transition
  <1>2. \A q \in conns' : req'[q].pc \notin NoConnPc
    BY <1>1 DEF TypeOK, LeakInv, NothingLeaks
  <1>3. ASSUME NEW e \in Epoch, lock'[e] # None
        PROVE  /\ lock'[e] \in conns' /\ req'[lock'[e]].pc \in {"locked", "answered"}
               /\ req'[lock'[e]].epoch = e
    <2>1. CASE lock'[e] = r
      BY <1>1, <2>1
    <2>2. CASE lock'[e] # r
      <3>1. lock'[e] = lock[e]
        BY <1>3, <2>2
      <3>2. lock[e] \in Request /\ lock[e] # r
        BY <1>3, <2>2, <3>1 DEF TypeOK
      <3> QED BY <1>1, <1>3, <3>1, <3>2 DEF LeakInv, NothingLeaks, NoConnPc
    <2> QED BY <2>1, <2>2
  <1>4. ASSUME NEW q \in Request
        PROVE  /\ loop' = q <=> req'[q].pc \in {"connecting", "committing"}
               /\ req'[q].pc \in ConnectedPc => q \in conns'
    BY <1>1 DEF LeakInv, NothingLeaks, NoConnPc, Connected
  <1> QED BY <1>2, <1>3, <1>4 DEF LeakInv, NothingLeaks, NoConnPc, Connected

LEMMA PcOfMove ==
  ASSUME TypeOK, NEW r \in Request, req[r] \in RequestState, NEW x, req' = Moved(r, x)
  PROVE  req'[r].pc = x
  <1>1. req'[r] = [req[r] EXCEPT !.pc = x]
    BY DEF TypeOK, Moved
  <1> QED BY <1>1 DEF RequestState

LEMMA StepKeepsLeakInv ==
  ASSUME TypeOK, LeakInv, NEW r \in Request,
         Step(r) \/ UploadWriteFails(r) \/ UploadCommitFails(r) \/ HookCommitFails(r),
         ~HookLoads(r)
  PROVE  LeakInv'
  <1>0. PICK pc : Transition(r, req[r].pc, pc)
    BY StepMoves
  <1>1. /\ req[r] \in RequestState /\ req' = Moved(r, pc) /\ req'[r].pc = pc
        /\ \A q \in Request : q # r => req'[q] = req[q]
        /\ \A x : req' = Moved(r, x) => req'[r].pc = x
    BY <1>0, Moves, PcOfMove DEF Transition
  <1>2. /\ r \in conns => req[r].pc \notin NoConnPc
        /\ \A e \in Epoch : lock[e] = r =>
             r \in conns /\ req[r].pc \in {"locked", "answered"} /\ req[r].epoch = e
        /\ loop = r <=> req[r].pc \in {"connecting", "committing"}
        /\ req[r].pc \in ConnectedPc => r \in conns
    BY NoneIsNothing DEF LeakInv, NothingLeaks, NoConnPc, Connected
  <1>3. r # None /\ None \notin Request
    BY NoneIsNothing
  (* Steps that hold and release nothing.                                  *)
  <1>4. CASE \/ DispatchDependencies(r) \/ get_db(r) \/ DispatchHandler(r) \/ HandlerReads(r)
             \/ HandlerSelects(r) \/ HandlerReturns(r)
             \/ UploadLoads(r) \/ UploadTooLarge(r) \/ UploadWrites(r) \/ UploadWritten(r)
             \/ UploadWriteFails(r)
    <2>1. /\ UNCHANGED <<loop, conns, lock>>
          /\ req[r].pc \in {"new", "opening", "authed", "running", "locked", "reading", "writing"}
          /\ <<req[r].pc, req'[r].pc>> \in
               {<<"new", "auth">>, <<"new", "opening">>, <<"opening", "opened">>,
                <<"authed", "running">>, <<"running", "answered">>, <<"running", "locking">>,
                <<"locked", "answered">>, <<"authed", "reading">>, <<"reading", "answered">>,
                <<"reading", "writing">>, <<"writing", "written">>, <<"writing", "answered">>}
      BY <1>1, <1>4
         DEF DispatchDependencies, get_db, DispatchHandler, HandlerReads, HandlerSelects,
             HandlerReturns, UploadLoads,
             UploadTooLarge, UploadWrites, UploadWritten, UploadWriteFails, At, Is, TypeOK
    <2> QED BY <1>0, <1>1, <1>2, <1>3, <2>1, MoveKeepsLeakInv DEF ConnectedPc, NoConnPc
  <1>5. CASE current_user(r)
    <2>1. /\ conns' = conns \cup {r} /\ UNCHANGED <<loop, lock>>
          /\ req[r].pc = "auth" /\ req'[r].pc = "authed"
      BY <1>1, <1>5 DEF current_user, At, TypeOK
    <2> QED BY <1>0, <1>1, <1>2, <1>3, <2>1, MoveKeepsLeakInv DEF ConnectedPc, NoConnPc
  <1>6. CASE PoolTimeout(r)
    <2>1. /\ UNCHANGED <<conns, lock>> /\ loop' = IF loop = r THEN None ELSE loop
          /\ req[r].pc \in {"auth", "connecting"} /\ req'[r].pc = "answered"
      BY <1>1, <1>6 DEF PoolTimeout, TypeOK
    <2> QED BY <1>0, <1>1, <1>2, <1>3, <2>1, MoveKeepsLeakInv DEF ConnectedPc, NoConnPc
  <1>7. CASE get_db_Close(r)
    <2>1. /\ conns' = conns \ {r} /\ UNCHANGED loop
          /\ \A e \in Epoch : lock'[e] = IF lock[e] = r THEN None ELSE lock[e]
          /\ req[r].pc = "answered" /\ req'[r].pc = "done"
      BY <1>1, <1>7 DEF get_db_Close, At, TypeOK
    <2> QED BY <1>0, <1>1, <1>2, <1>3, <2>1, MoveKeepsLeakInv DEF ConnectedPc, NoConnPc
  <1>8. CASE HandlerLocks(r)
    <2>1. /\ UNCHANGED <<conns, loop>> /\ lock[req[r].epoch] = None
          /\ \A e \in Epoch : lock'[e] = IF e = req[r].epoch THEN r ELSE lock[e]
          /\ req[r].pc = "locking" /\ req'[r].pc = "locked"
      BY <1>1, <1>8 DEF HandlerLocks, At, TypeOK
    <2> QED BY <1>0, <1>1, <1>2, <1>3, <2>1, MoveKeepsLeakInv DEF ConnectedPc, NoConnPc
  <1>9. CASE HandlerCommits(r)
    <2>1. /\ conns' = conns \ {r} /\ UNCHANGED loop
          /\ \A e \in Epoch : lock'[e] = IF e = req[r].epoch THEN None ELSE lock[e]
          /\ req[r].pc = "locked" /\ req'[r].pc = "answered"
      BY <1>1, <1>9 DEF HandlerCommits, At, TypeOK
    <2> QED BY <1>0, <1>1, <1>2, <1>3, <2>1, MoveKeepsLeakInv DEF ConnectedPc, NoConnPc
  <1>10. CASE UploadFlushes(r)
    <2>1. /\ UNCHANGED <<conns, lock>> /\ loop = None /\ loop' = r
          /\ req[r].pc = "written" /\ req'[r].pc = "committing"
      BY <1>1, <1>10 DEF UploadFlushes, At, TypeOK, LoopFree
    <2> QED BY <1>0, <1>1, <1>2, <1>3, <2>1, MoveKeepsLeakInv DEF ConnectedPc, NoConnPc
  <1>11. CASE LoopCommitEnds(r)
    <2>1. /\ conns' = conns \ {r} /\ UNCHANGED lock /\ loop' = None
          /\ req[r].pc = "committing" /\ req'[r].pc = "answered"
      BY <1>1, <1>11 DEF LoopCommitEnds, At, TypeOK
    <2> QED BY <1>0, <1>1, <1>2, <1>3, <2>1, MoveKeepsLeakInv DEF ConnectedPc, NoConnPc
  <1>12. CASE HookQueries(r)
    <2>1. /\ UNCHANGED <<conns, lock>> /\ loop = None /\ loop' = r
          /\ req[r].pc = "opened" /\ req'[r].pc = "connecting"
      BY <1>1, <1>12 DEF HookQueries, At, Is, TypeOK, LoopFree
    <2> QED BY <1>0, <1>1, <1>2, <1>3, <2>1, MoveKeepsLeakInv DEF ConnectedPc, NoConnPc
  <1>13. CASE HookDuplicate(r)
    <2>1. /\ conns' = conns \cup {r} /\ UNCHANGED lock /\ loop' = None
          /\ req[r].pc = "connecting" /\ req'[r].pc = "answered"
      BY <1>1, <1>13 DEF HookDuplicate, At, TypeOK
    <2> QED BY <1>0, <1>1, <1>2, <1>3, <2>1, MoveKeepsLeakInv DEF ConnectedPc, NoConnPc
  <1> QED BY <1>4, <1>5, <1>6, <1>7, <1>8, <1>9, <1>10, <1>11, <1>12, <1>13
          DEF Step, UploadCommits, UploadCommitFails, HookCommits, HookCommitFails

LEMMA LeakStep == TypeOK /\ LeakInv /\ [Next]_allvars => LeakInv'
  <1> SUFFICES ASSUME TypeOK, LeakInv, [Next]_allvars PROVE LeakInv'
    OBVIOUS
  <1>1. ASSUME NEW r \in Request, SyncArrives(r) \/ UploadArrives(r) \/ HookArrives(r)
        PROVE  LeakInv'
    <2>1. /\ \A q \in Request : q # r => req'[q] = req[q]
          /\ req[r].pc = "unsent" /\ req'[r].pc = "new" /\ UNCHANGED <<loop, conns, lock>>
      BY <1>1, ArrivalMoves DEF Unsent
    <2>2. r \notin conns /\ loop # r /\ \A e \in Epoch : lock[e] # r
      BY <2>1, NoneIsNothing DEF LeakInv, NothingLeaks, NoConnPc
    <2>3. NothingLeaks'
      BY <2>1, <2>2 DEF LeakInv, NothingLeaks, NoConnPc, TypeOK
    <2>4. Connected'
      BY <2>1, <2>2 DEF LeakInv, Connected, ConnectedPc, NoConnPc
    <2> QED BY <2>3, <2>4 DEF LeakInv
  <1>2. ASSUME NEW r \in Request, HookLoads(r)
        PROVE  LeakInv'
    <2>1. /\ \A q \in Request : q # r => req'[q] = req[q]
          /\ req[r].pc = "connecting" /\ req'[r].pc = "committing"
          /\ conns' = conns \cup {r} /\ UNCHANGED <<loop, lock>>
      BY <1>2, HookLoadsMoves DEF HookLoads
    <2>2. \A e \in Epoch : lock[e] # r
      BY <2>1, NoneIsNothing DEF LeakInv, NothingLeaks, NoConnPc
    <2>3. NothingLeaks'
      BY <2>1, <2>2 DEF LeakInv, NothingLeaks, NoConnPc, TypeOK
    <2>4. Connected'
      BY <2>1 DEF LeakInv, Connected, ConnectedPc, NoConnPc
    <2> QED BY <2>3, <2>4 DEF LeakInv
  <1>3. CASE Crash
    <2>1. \A r \in Request : req'[r].pc \in {"unsent", "done"}
      BY <1>3, CrashMoves
    <2>2. loop' = None /\ conns' = {} /\ lock' = [e \in Epoch |-> None]
      BY <1>3 DEF Crash
    <2> QED BY <2>1, <2>2, NoneIsNothing
               DEF LeakInv, NothingLeaks, Connected, ConnectedPc, NoConnPc
  <1>4. CASE NewEpoch \/ UNCHANGED allvars
    BY <1>4 DEF NewEpoch, svars, allvars, LeakInv, NothingLeaks, Connected
  <1> QED BY <1>1, <1>2, <1>3, <1>4, Kinds, StepKeepsLeakInv

LEMMA LeakInvariant == Spec => [](TypeOK /\ LeakInv)
  <1>1. Init => TypeOK /\ LeakInv
    BY NoneIsNothing
       DEF Init, TypeOK, HooksInit, HooksTypeOK, EvidenceInit, EvidenceTypeOK,
           LeakInv, NothingLeaks, Connected, ConnectedPc, NoConnPc, Unsent
  <1> QED BY <1>1, TypeStep, LeakStep, PTL DEF Spec

(* Refusals, timeouts, failed commits and crashes leave no connection, row *)
(* lock or blocked loop behind (get_db's finally).                         *)
THEOREM NothingIsLeaked == Spec => []NothingLeaks
  <1>1. LeakInv => NothingLeaks
    BY DEF LeakInv
  <1> QED BY <1>1, LeakInvariant, PTL

----------------------------------------------------------------------------
(* Waits.                                                                  *)

(* The rows a request waits for are epochs.                                *)
LEMMA RowsAreEpochs ==
  ASSUME TypeOK, NEW r \in Request, req[r].pc # "unsent"
  PROVE  WantsRows(r) \subseteq Epoch
  <1>1. req[r] \in RequestState
    BY Started
  <1>2. At(r, "locking") => req[r].epoch \in Epoch
    BY <1>1, KindOfPc, RequestFields DEF At
  <1>3. Needs(r) \subseteq Epoch
    BY <1>1, RequestFields DEF Needs, Updated
  <1> QED BY <1>2, <1>3 DEF WantsRows

(* What holds the loop or a row is under way.                              *)
LEMMA HoldersAreUnderWay ==
  ASSUME TypeOK, LeakInv, NEW S \in SUBSET Request
  PROVE  /\ loop \in S \cup Finished =>
              loop \in S /\ loop \in Request /\ req[loop].pc \in {"connecting", "committing"}
         /\ \A e \in Epoch : lock[e] \in S \cup Finished =>
              lock[e] \in S /\ lock[e] \in Request /\ req[lock[e]].pc \in {"locked", "answered"}
  BY NoneIsNothing DEF LeakInv, NothingLeaks, NoConnPc, Finished, At

(* A request in a deadlock: what it waits for, by where it is.             *)
LEMMA BlockedWants ==
  ASSUME TypeOK, LeakInv, NEW S \in SUBSET Request, NEW r \in S, Blocked(r, S \cup Finished)
  PROVE  /\ req[r].pc \in {"new", "opened", "authed", "reading", "written", "answered",
                            "locking", "committing"}
         /\ req[r].pc = "answered" => loop \in S
         /\ req[r].pc \in {"locking", "committing"} =>
              \E e \in WantsRows(r) : e \in Epoch /\ lock[e] \in S
  <1>1. CASE req[r].pc = "unsent"
    <2>1. req[r] = Unsent
      BY <1>1, RequestFields
         DEF TypeOK, RequestState, SyncPc, UploadPc, HookPc
    <2> QED BY <1>1, <2>1
            DEF Blocked, WantsLoop, WantsThread, WantsRows, Needs, At, Is
  <1>2. CASE req[r].pc # "unsent"
    <2>1. req[r] \in RequestState
      BY <1>2, Started
    <2>2. WantsRows(r) # {} => req[r].pc \in {"locking", "committing"}
      BY DEF WantsRows, Needs, At
    <2>3. \A e \in WantsRows(r) :
            e \in Epoch /\ (lock[e] \in S \cup Finished => lock[e] \in S)
      BY <1>2, RowsAreEpochs, HoldersAreUnderWay
    <2>4. loop \in S \cup Finished => loop \in S
      BY HoldersAreUnderWay
    <2> QED BY <2>2, <2>3, <2>4 DEF Blocked, WantsLoop, WantsThread, At, Is
  <1> QED BY <1>1, <1>2

(* The holder of a row that takes part in a deadlock has answered, and     *)
(* then the loop takes part in it too.                                     *)
LEMMA RowHolderAnswered ==
  ASSUME TypeOK, LeakInv, NEW S \in SUBSET Request, Deadlocked(S),
         NEW e \in Epoch, lock[e] \in S
  PROVE  lock[e] \in Request /\ req[lock[e]].pc = "answered" /\ loop \in S
  <1>1. lock[e] \in Request /\ req[lock[e]].pc \in {"locked", "answered"}
    BY HoldersAreUnderWay
  <1>2. Blocked(lock[e], S \cup Finished)
    BY DEF Deadlocked
  <1>3. PICK q \in S : q = lock[e]
    OBVIOUS
  <1> QED BY <1>1, <1>2, <1>3, BlockedWants

(* Every deadlock reaches the loop: threads are held by requests that      *)
(* authenticate, that do not wait for a row or that hold theirs, which all *)
(* ends, or that wait for the row of another one.                          *)
LEMMA DeadlockTakesLoop ==
  ASSUME TypeOK, LeakInv, NEW S \in SUBSET Request, Deadlocked(S)
  PROVE  loop \in S
  <1>1. PICK r \in S : Blocked(r, S \cup Finished)
    BY DEF Deadlocked
  <1>2. CASE req[r].pc \in {"locking", "committing"}
    BY <1>1, <1>2, BlockedWants, RowHolderAnswered
  <1>3. CASE WantsLoop(r) /\ loop \in S \cup Finished
    BY <1>3, HoldersAreUnderWay
  <1>4. CASE ~ThreadFree /\ OnThread \subseteq S \cup Finished
    <2>1. Cardinality({}) = 0 /\ Threads \in Nat \ {0}
      BY Capacities, FS_EmptySet
    <2>2. PICK t \in OnThread : TRUE
      BY <1>4, <2>1 DEF ThreadFree
    <2>3. t \in S /\ req[t].pc \in {"auth", "opening", "running", "locking", "locked"}
      BY <1>4 DEF OnThread, Finished, At
    <2>4. req[t].pc = "locking"
      BY <2>3, BlockedWants DEF Deadlocked
    <2> QED BY <2>3, <2>4, BlockedWants, RowHolderAnswered DEF Deadlocked
  <1>5. WantsRows(r) # {} => req[r].pc \in {"locking", "committing"}
    BY DEF WantsRows, Needs, At
  <1> QED BY <1>1, <1>2, <1>3, <1>4, <1>5 DEF Blocked

LEMMA DeadlockIsLoopStuck ==
  ASSUME TypeOK, LeakInv, NEW S \in SUBSET Request, Deadlocked(S)
  PROVE  LoopStuck
  <1>1. loop \in S /\ req[loop].pc \in {"connecting", "committing"}
    BY DeadlockTakesLoop, HoldersAreUnderWay
  <1>2. PICK r \in S : r = loop /\ Blocked(r, S \cup Finished)
    BY <1>1 DEF Deadlocked
  <1>3. req[r].pc = "committing"
    BY <1>1, <1>2, BlockedWants
  <1>4. PICK e \in WantsRows(r) : e \in Epoch /\ lock[e] \in S
    BY <1>2, <1>3, BlockedWants
  <1>5. req[lock[e]].pc = "answered" /\ lock[e] \in Request
    BY <1>4, RowHolderAnswered
  <1> QED BY <1>2, <1>3, <1>4, <1>5, NoneIsNothing DEF LoopStuck, WantsRows, At

LEMMA LoopStuckIsDeadlock ==
  ASSUME TypeOK, LeakInv, LoopStuck
  PROVE  \E S \in SUBSET Request : Deadlocked(S)
  <1>1. PICK r \in Request : loop = r /\ \E e \in Needs(r) : lock[e] # None /\ At(lock[e], "answered")
    BY DEF LoopStuck
  <1>2. PICK e \in Needs(r) : lock[e] # None /\ At(lock[e], "answered")
    BY <1>1
  <1>3. req[r].pc = "committing"
    BY <1>2 DEF Needs, At
  <1>4. e \in WantsRows(r) /\ e \in Epoch
    BY <1>2, <1>3, RowsAreEpochs DEF WantsRows, At
  <1>5. lock[e] \in Request
    BY <1>2, <1>4 DEF TypeOK
  <1>6. Blocked(r, {r, lock[e]} \cup Finished)
    BY <1>4 DEF Blocked
  <1>7. Blocked(lock[e], {r, lock[e]} \cup Finished)
    BY <1>1, <1>2 DEF Blocked, WantsLoop, At
  <1>8. Deadlocked({r, lock[e]})
    BY <1>6, <1>7 DEF Deadlocked
  <1> QED BY <1>5, <1>8

(* Of all the ways in which requests could wait for one another in a       *)
(* circle, over threads, rows and the loop, only one exists.               *)
THEOREM NoOtherDeadlock == Spec => []OneDeadlock
  <1>1. TypeOK /\ LeakInv => OneDeadlock
    BY DeadlockIsLoopStuck, LoopStuckIsDeadlock DEF OneDeadlock
  <1> QED BY <1>1, LeakInvariant, PTL

(* The rows are held by handlers at work only.                             *)
HeldAtWork == \A e \in Epoch : lock[e] # None => At(lock[e], "locked")

(* A handler at work leaves its row or leaves it held at work.             *)
LEMMA HeldAtWorkStep ==
  ASSUME TypeOK, LeakInv, HeldAtWork, [Next]_allvars, \A r \in Request : ~HandlerReturns(r)
  PROVE  HeldAtWork'
  <1> SUFFICES ASSUME NEW e \in Epoch, lock'[e] # None
               PROVE  req'[lock'[e]].pc = "locked"
    BY DEF HeldAtWork, At
  <1>1. ASSUME NEW r \in Request, SyncArrives(r) \/ UploadArrives(r) \/ HookArrives(r)
        PROVE  req'[lock'[e]].pc = "locked"
    <2>1. /\ \A q \in Request : q # r => req'[q] = req[q]
          /\ req[r].pc = "unsent" /\ lock' = lock
      BY <1>1, ArrivalMoves DEF Unsent
    <2> QED BY <2>1 DEF HeldAtWork, At, TypeOK
  <1>2. ASSUME NEW r \in Request, HookLoads(r)
        PROVE  req'[lock'[e]].pc = "locked"
    <2>1. /\ \A q \in Request : q # r => req'[q] = req[q]
          /\ req[r].pc = "connecting" /\ lock' = lock
      BY <1>2, HookLoadsMoves DEF HookLoads
    <2> QED BY <2>1 DEF HeldAtWork, At, TypeOK
  <1>3. CASE Crash
    BY <1>3 DEF Crash
  <1>4. CASE NewEpoch \/ UNCHANGED allvars
    BY <1>4 DEF NewEpoch, svars, allvars, HeldAtWork, At
  <1>5. ASSUME NEW r \in Request, ~HookLoads(r),
               Step(r) \/ UploadWriteFails(r) \/ UploadCommitFails(r) \/ HookCommitFails(r)
        PROVE  req'[lock'[e]].pc = "locked"
    <2>1. PICK pc : Transition(r, req[r].pc, pc)
      BY <1>5, StepMoves
    <2>2. /\ \A q \in Request : q # r => req'[q] = req[q]
          /\ req[r] \in RequestState /\ lock \in [Epoch -> Request \cup {None}]
      BY <2>1, Moves DEF Transition, TypeOK
    <2>3. CASE HandlerLocks(r)
      <3>1. /\ req' = Moved(r, "locked") /\ req[r].pc = "locking"
            /\ lock' = [lock EXCEPT ![req[r].epoch] = r]
        BY <2>3 DEF HandlerLocks, At
      <3>2. req'[r].pc = "locked"
        BY <2>2, <3>1, PcOfMove
      <3> QED BY <2>2, <3>1, <3>2 DEF HeldAtWork, At
    <2>4. CASE HandlerCommits(r)
      <3>1. lock' = [lock EXCEPT ![req[r].epoch] = None]
        BY <2>4 DEF HandlerCommits
      <3>2. e # req[r].epoch /\ lock[e] # None /\ lock'[e] = lock[e]
        BY <2>2, <3>1
      <3>3. lock[e] # r
        BY <3>2 DEF LeakInv, NothingLeaks, NoConnPc
      <3> QED BY <2>2, <3>2, <3>3 DEF HeldAtWork, At
    <2>5. CASE get_db_Close(r)
      <3>1. /\ lock' = [f \in Epoch |-> IF lock[f] = r THEN None ELSE lock[f]]
        BY <2>5 DEF get_db_Close
      <3> QED BY <2>2, <3>1 DEF HeldAtWork, At
    <2>6. CASE lock' = lock /\ req[r].pc # "locked"
      BY <2>2, <2>6 DEF HeldAtWork, At
    <2> QED BY <1>5, <2>3, <2>4, <2>5, <2>6
         DEF Step, DispatchDependencies, get_db, current_user, PoolTimeout,
             DispatchHandler, HandlerReads, HandlerSelects, UploadLoads, UploadTooLarge,
             UploadWrites, UploadWritten, UploadFlushes, UploadCommits, HookQueries,
             HookDuplicate, HookLoads, HookCommits, UploadWriteFails, UploadCommitFails,
             HookCommitFails, LoopCommitEnds, At, Is
  <1> QED BY <1>1, <1>2, <1>3, <1>4, <1>5, Kinds

(* The loop sticks for one reason: a handler that has locked its row and   *)
(* returns with its transaction open.  Were every such handler to end its  *)
(* transaction before it answers, as those that commit do, no set of       *)
(* requests would ever wait in a circle, whatever threads, connections,    *)
(* timeouts and crashes do.                                                *)
THEOREM OpenTransactionsStickTheLoop ==
  Spec /\ [][\A r \in Request : ~HandlerReturns(r)]_allvars =>
    [](LoopNeverStuck /\ ~\E S \in SUBSET Request : Deadlocked(S))
  <1> DEFINE Closed == \A r \in Request : ~HandlerReturns(r)
  <1>1. Init => HeldAtWork
    BY DEF Init, HeldAtWork
  <1>2. TypeOK /\ LeakInv /\ HeldAtWork /\ [Next]_allvars /\ [Closed]_allvars => HeldAtWork'
    <2>1. CASE UNCHANGED allvars
      BY <2>1 DEF HeldAtWork, At, allvars, svars
    <2> QED BY <2>1, HeldAtWorkStep
  <1>3. TypeOK /\ LeakInv /\ HeldAtWork => LoopNeverStuck
    <2> SUFFICES ASSUME TypeOK, HeldAtWork, NEW r \in Request, NEW e \in Needs(r),
                        lock[e] # None, At(lock[e], "answered")
                 PROVE  FALSE
      BY DEF LoopNeverStuck, LoopStuck
    <2>1. req[r].pc # "unsent" /\ e \in WantsRows(r)
      BY DEF Needs, WantsRows, At
    <2>2. e \in Epoch
      BY <2>1, RowsAreEpochs
    <2> QED BY <2>2 DEF HeldAtWork, At
  <1>4. OneDeadlock /\ LoopNeverStuck => ~\E S \in SUBSET Request : Deadlocked(S)
    BY DEF OneDeadlock, LoopNeverStuck
  <1> HIDE DEF Closed
  <1>5. Spec /\ [][Closed]_allvars => []HeldAtWork
    BY <1>1, <1>2, LeakInvariant, PTL DEF Spec
  <1>6. Spec /\ [][Closed]_allvars =>
          [](LoopNeverStuck /\ ~\E S \in SUBSET Request : Deadlocked(S))
    BY <1>3, <1>4, <1>5, LeakInvariant, NoOtherDeadlock, PTL
  <1> QED BY <1>6 DEF Closed

----------------------------------------------------------------------------
(* Pipeline hooks.                                                         *)

(* The strengthening: a hook that waits for its commit has not been        *)
(* processed yet, the rows it loaded are epochs of its pipeline, and those *)
(* it missed no hook has loaded; the newest hook of an epoch was           *)
(* processed, and only for an epoch that existed.                          *)
RowsLoaded ==
  \A r \in Request : req[r].kind = "hook" /\ req[r].pc = "committing" =>
    /\ req[r].hook \notin seen
    /\ \A e \in req[r].rows :
         e \in Epoch /\ status[e] # "none" /\ PipelineOf[e] = Sent[req[r].hook].pipeline
    /\ \A e \in LoadRows(req[r].hook) \ req[r].rows : newest[e] = 0
NewestSeen ==
  \A e \in Epoch : newest[e] \in seen \cup {0} /\ (status[e] = "none" => newest[e] = 0)

HookInv ==
  RowsLoaded /\ NewestSeen /\ RedeliveryHarmless /\ SuccessWasReported /\ LastEventMatches

(* A hook that commits after a step did so before, or loads its rows now.  *)
LEMMA CommittingBefore ==
  ASSUME TypeOK, [Next]_allvars, NEW r \in Request,
         req'[r].kind = "hook", req'[r].pc = "committing"
  PROVE  \/ req[r].kind = "hook" /\ req[r].pc = "committing" /\ req'[r] = req[r]
         \/ HookLoads(r)
  <1>1. ASSUME NEW q \in Request, SyncArrives(q) \/ UploadArrives(q) \/ HookArrives(q)
        PROVE  req'[r] = req[r]
    BY <1>1, ArrivalMoves
  <1>2. ASSUME NEW q \in Request, HookLoads(q)
        PROVE  req'[r] = req[r] \/ HookLoads(r)
    BY <1>2, HookLoadsMoves
  <1>3. ASSUME NEW q \in Request,
               Step(q) \/ UploadWriteFails(q) \/ UploadCommitFails(q) \/ HookCommitFails(q),
               ~HookLoads(q)
        PROVE  req'[r] = req[r]
    <2>1. PICK pc : Transition(q, req[q].pc, pc)
      BY <1>3, StepMoves
    <2>2. CASE q # r
      BY <2>1, <2>2, Moves DEF Transition
    <2>3. CASE q = r
      <3>1. req[r] \in RequestState /\ req'[r].kind = req[r].kind
        BY <2>1, <2>3, Moves DEF Transition
      <3>2. \A x : req' = Moved(r, x) => x = "committing"
        BY <3>1, PcOfMove
      <3>3. UploadFlushes(r)
        BY <1>3, <2>3, <3>2
           DEF Step, DispatchDependencies, get_db, current_user, PoolTimeout,
               get_db_Close, DispatchHandler, HandlerReads, HandlerSelects, HandlerLocks,
               HandlerCommits, HandlerReturns, UploadLoads, UploadTooLarge, UploadWrites,
               UploadWritten, UploadWriteFails, UploadCommits, UploadCommitFails,
               HookQueries, HookDuplicate, HookCommits, HookCommitFails, LoopCommitEnds
      <3> QED BY <3>1, <3>3, KindOfPc DEF UploadFlushes, At
    <2> QED BY <2>2, <2>3
  <1>4. CASE Crash
    BY <1>4, CrashMoves
  <1>5. CASE NewEpoch \/ UNCHANGED allvars
    BY <1>5 DEF NewEpoch, svars, allvars
  <1> QED BY <1>1, <1>2, <1>3, <1>4, <1>5, Kinds

LEMMA EpochsStay ==
  ASSUME TypeOK, [Next]_allvars, NEW e \in Epoch, status[e] # "none"
  PROVE  status'[e] # "none"
  <1>1. CASE UNCHANGED hvars
    BY <1>1 DEF hvars
  <1>2. CASE \E f \in Epoch : EpochCreated(f)
    BY <1>2 DEF EpochCreated, TypeOK, HooksTypeOK
  <1>3. ASSUME NEW r \in Request, HookCommits(r)
        PROVE  status'[e] # "none"
    <2>1. req[r].hook \in 1..Len(Sent)
      BY <1>3, Started, RequestFields DEF HookCommits, LoopCommitEnds, At
    <2> QED BY <1>3, <2>1, StatusTyped DEF HookCommits, HookEffect, TypeOK
  <1> QED BY <1>1, <1>2, <1>3, HookWrites

(* The commit of a hook.                                                   *)
LEMMA EffectKeepsHooks ==
  ASSUME HooksTypeOK, NewestSeen, RedeliveryHarmless, SuccessWasReported, LastEventMatches,
         NEW n \in 1..Len(Sent), NEW rows \in SUBSET LoadRows(n), n \notin seen,
         HookEffect(n, rows)
  PROVE  NewestSeen' /\ RedeliveryHarmless' /\ SuccessWasReported' /\ LastEventMatches'
  <1>1. /\ rows \subseteq Epoch
        /\ \A e \in rows : status[e] # "none" /\ PipelineOf[e] = Sent[n].pipeline
    BY DEF LoadRows
  <1>2. /\ seen' = seen \cup {n}
        /\ \A e \in Epoch : status'[e] = IF e \in rows THEN NewStatus(e, n) ELSE status[e]
        /\ \A e \in Epoch : newest'[e] = IF e \in rows /\ n > newest[e] THEN n ELSE newest[e]
        /\ inOrder' = (inOrder /\ \A m \in seen : m < n)
    BY DEF HookEffect
  <1>3. \A e \in Epoch : NewStatus(e, n) \in {"pending", "success", "sha_mismatch"}
    BY StatusTyped
  <1>4. NewestSeen'
    BY <1>1, <1>2, <1>3 DEF NewestSeen
  <1>5. RedeliveryHarmless'
    <2> SUFFICES ASSUME inOrder', NEW e \in Epoch
                 PROVE  status'[e] = CASE status'[e] = "none" -> "none"
                               [] newest'[e] = 0 /\ status'[e] # "none" -> "pending"
                               [] newest'[e] # 0 /\ status'[e] # "none" -> NewStatus(e, newest'[e])
      BY DEF RedeliveryHarmless, NewStatus
    <2>1. CASE e \notin rows
      BY <1>2, <2>1 DEF RedeliveryHarmless
    <2>2. CASE e \in rows
      <3>1. newest[e] < n
        <4>1. n \in Nat /\ n > 0
          BY PinTypes
        <4>2. newest[e] \in seen \cup {0} /\ \A m \in seen : m < n
          BY <1>2 DEF NewestSeen
        <4> QED BY <4>1, <4>2
      <3>2. newest'[e] = n /\ n # 0 /\ status'[e] = NewStatus(e, n)
        BY <1>2, <2>2, <3>1
      <3> QED BY <1>3, <3>2
    <2> QED BY <2>1, <2>2
  <1>6. SuccessWasReported'
    <2> SUFFICES ASSUME NEW e \in Epoch, status'[e] = "success"
                 PROVE  \E m \in seen' :
                          Sent[m] = [pipeline |-> PipelineOf[e], sha |-> CommitOf[e],
                                     status |-> "success"]
      BY DEF SuccessWasReported
    <2>1. CASE e \notin rows
      BY <1>2, <2>1 DEF SuccessWasReported
    <2>2. CASE e \in rows
      <3>1. Sent[n] \in Payload
        BY StatusTyped
      <3>2. Sent[n].pipeline = PipelineOf[e] /\ Sent[n].sha = CommitOf[e] /\ Sent[n].status = "success"
        BY <1>1, <1>2, <2>2 DEF NewStatus
      <3> QED BY <1>2, <3>1, <3>2 DEF Payload
    <2> QED BY <2>1, <2>2
  <1>7. LastEventMatches'
    <2> SUFFICES ASSUME NEW e \in Epoch
                 PROVE  /\ status'[e] = "success" => lastEvent'[e] = "PIPELINE_VERIFIED"
                        /\ status'[e] = "sha_mismatch" => lastEvent'[e] = "PIPELINE_REJECTED"
      BY DEF LastEventMatches
    <2>1. lastEvent'[e] = IF e \in rows /\ NewStatus(e, n) # status[e]
                          THEN PipelineEvent(NewStatus(e, n), lastEvent[e]) ELSE lastEvent[e]
      BY DEF HookEffect, Updated
    <2> QED BY <1>2, <2>1 DEF LastEventMatches, PipelineEvent
  <1> QED BY <1>4, <1>5, <1>6, <1>7

LEMMA HookStep == TypeOK /\ LeakInv /\ HookInv /\ [Next]_allvars => HookInv'
  <1> SUFFICES ASSUME TypeOK, LeakInv, HookInv, [Next]_allvars PROVE HookInv'
    OBVIOUS
  <1>1. RowsLoaded'
    <2> SUFFICES ASSUME NEW r \in Request, req'[r].kind = "hook", req'[r].pc = "committing"
                 PROVE  /\ req'[r].hook \notin seen'
                        /\ \A e \in req'[r].rows :
                             /\ e \in Epoch /\ status'[e] # "none"
                             /\ PipelineOf[e] = Sent[req'[r].hook].pipeline
                        /\ \A e \in Epoch \ req'[r].rows :
                             status'[e] # "none" /\ PipelineOf[e] = Sent[req'[r].hook].pipeline
                               => newest'[e] = 0
      BY DEF RowsLoaded, LoadRows
    <2>1. CASE HookLoads(r)
      <3>1. /\ req'[r].hook = req[r].hook /\ req'[r].rows = LoadRows(req[r].hook)
            /\ req[r].hook \notin seen /\ UNCHANGED hvars
        BY <2>1, HookLoadsMoves DEF HookLoads, Duplicate
      <3> QED BY <3>1 DEF LoadRows, hvars
    <2>2. CASE req[r].kind = "hook" /\ req[r].pc = "committing" /\ req'[r] = req[r]
      <3>1. /\ req[r].hook \notin seen
            /\ \A e \in req[r].rows :
                 e \in Epoch /\ status[e] # "none" /\ PipelineOf[e] = Sent[req[r].hook].pipeline
            /\ \A e \in Epoch \ req[r].rows :
                 status[e] # "none" /\ PipelineOf[e] = Sent[req[r].hook].pipeline
                   => newest[e] = 0
        BY <2>2 DEF HookInv, RowsLoaded, LoadRows
      <3>2. loop = r
        BY <2>2 DEF LeakInv, NothingLeaks, NoConnPc
      <3>3. ASSUME NEW q \in Request, HookCommits(q)
            PROVE  FALSE
        <4>1. req[q].pc = "committing" /\ req[q] \in RequestState
          BY <3>3, Started DEF HookCommits, LoopCommitEnds, At
        <4>2. q = r
          BY <3>2, <4>1 DEF LeakInv, NothingLeaks, NoConnPc
        <4>3. req'[r].pc = "answered"
          BY <3>3, <4>1, <4>2, PcOfMove DEF HookCommits, LoopCommitEnds
        <4> QED BY <2>2, <4>3
      <3>4. seen' = seen /\ newest' = newest
        BY <3>3, HookWrites DEF hvars, EpochCreated
      <3>5. \A e \in Epoch : status[e] = "none" => newest[e] = 0
        BY DEF HookInv, NewestSeen
      <3> QED BY <2>2, <3>1, <3>4, <3>5, EpochsStay
    <2> QED BY <2>1, <2>2, CommittingBefore
  <1>2. NewestSeen' /\ RedeliveryHarmless' /\ SuccessWasReported' /\ LastEventMatches'
    <2>1. CASE UNCHANGED hvars
      BY <2>1 DEF hvars, HookInv, NewestSeen, RedeliveryHarmless, SuccessWasReported,
                  LastEventMatches, NewStatus
    <2>2. ASSUME NEW e \in Epoch, EpochCreated(e)
          PROVE  NewestSeen' /\ RedeliveryHarmless' /\ SuccessWasReported' /\ LastEventMatches'
      <3>1. /\ status[e] = "none" /\ newest[e] = 0
            /\ \A f \in Epoch : status'[f] = IF f = e THEN "pending" ELSE status[f]
            /\ UNCHANGED <<lastEvent, seen, newest, inOrder>>
        BY <2>2 DEF EpochCreated, HookInv, NewestSeen, TypeOK, HooksTypeOK
      <3>2. NewestSeen' /\ SuccessWasReported' /\ LastEventMatches'
        BY <3>1 DEF HookInv, NewestSeen, SuccessWasReported, LastEventMatches
      <3>3. RedeliveryHarmless'
        BY <3>1 DEF HookInv, RedeliveryHarmless, NewStatus
      <3> QED BY <3>2, <3>3
    <2>3. ASSUME NEW r \in Request, HookCommits(r)
          PROVE  NewestSeen' /\ RedeliveryHarmless' /\ SuccessWasReported' /\ LastEventMatches'
      <3>1. /\ req[r] \in RequestState /\ req[r].kind = "hook" /\ req[r].pc = "committing"
            /\ HookEffect(req[r].hook, req[r].rows)
        BY <2>3, Started DEF HookCommits, LoopCommitEnds, At
      <3>2. req[r].hook \in 1..Len(Sent)
        BY <3>1, RequestFields
      <3>3. req[r].hook \notin seen /\ req[r].rows \in SUBSET LoadRows(req[r].hook)
        BY <3>1 DEF HookInv, RowsLoaded, LoadRows
      <3> QED BY <3>1, <3>2, <3>3, EffectKeepsHooks DEF TypeOK, HookInv
    <2> QED BY <2>1, <2>2, <2>3, HookWrites
  <1> QED BY <1>1, <1>2 DEF HookInv

LEMMA HookInvariant == Spec => []HookInv
  <1>1. Init => HookInv
    BY DEF Init, HooksInit, HookInv, RowsLoaded, NewestSeen, RedeliveryHarmless,
           SuccessWasReported, LastEventMatches, Unsent
  <1> QED BY <1>1, HookStep, LeakInvariant, PTL DEF Spec

(* The handler's check for a redelivery, its query for the rows and its    *)
(* commit happen as one step of the promised behaviour.                    *)
THEOREM HandlerImplementsHooks == Spec => ImplementsHooks
  <1>1. Init => HooksInit
    BY DEF Init
  <1>2. TypeOK /\ HookInv /\ [Next]_allvars => [HooksNext]_hvars
    <2> SUFFICES ASSUME TypeOK, HookInv, [Next]_allvars PROVE [HooksNext]_hvars
      OBVIOUS
    <2>1. ASSUME NEW r \in Request, HookCommits(r)
          PROVE  HookProcessed(req[r].hook) /\ req[r].hook \in 1..Len(Sent)
      <3>1. /\ req[r] \in RequestState /\ req[r].kind = "hook" /\ req[r].pc = "committing"
            /\ HookEffect(req[r].hook, req[r].rows)
        BY <2>1, Started DEF HookCommits, LoopCommitEnds, At
      <3>2. req[r].hook \in 1..Len(Sent)
        BY <3>1, RequestFields
      <3>3. /\ req[r].hook \notin seen /\ req[r].rows \in SUBSET LoadRows(req[r].hook)
            /\ \A e \in LoadRows(req[r].hook) \ req[r].rows : newest[e] = 0
        BY <3>1 DEF HookInv, RowsLoaded, LoadRows
      <3> QED BY <3>1, <3>2, <3>3 DEF HookProcessed
    <2> QED BY <2>1, HookWrites DEF HooksNext
  <1> QED BY <1>1, <1>2, EventLoopTypeCorrect, HookInvariant, PTL
          DEF Spec, ImplementsHooks, HooksSpec

(* A hook delivered again, whenever and however often, changes no status.  *)
THEOREM RedeliveriesAreHarmless == Spec => []RedeliveryHarmless
  <1>1. HookInv => RedeliveryHarmless
    BY DEF HookInv
  <1> QED BY <1>1, HookInvariant, PTL

(* No order of deliveries makes an epoch verified that GitLab did not      *)
(* report successful on its own pipeline and commit.                       *)
THEOREM OnlyReportedSuccess == Spec => []SuccessWasReported
  <1>1. HookInv => SuccessWasReported
    BY DEF HookInv
  <1> QED BY <1>1, HookInvariant, PTL

(* The last pipeline event of the passport is the one of the row.          *)
THEOREM PassportFollowsStatus == Spec => []LastEventMatches
  <1>1. HookInv => LastEventMatches
    BY DEF HookInv
  <1> QED BY <1>1, HookInvariant, PTL

----------------------------------------------------------------------------
(* Evidence.                                                               *)

Writers(p) == {r \in Request : Is(r, "upload", "writing") /\ PathOf(r) = p}
Stored(p) ==
  {r \in Request : req[r].pc \in {"written", "committing"} /\ req[r].kind = "upload"
                   /\ PathOf(r) = p}

(* The strengthening, for a path that no failure has touched: whoever has  *)
(* or is about to commit its row can rely on a whole file or on a writer   *)
(* to complete it, a writer has its file, and a file has its reason.       *)
PathInv(p) ==
  /\ p \in evidence \/ Stored(p) # {} => files[p] = "whole" \/ Writers(p) # {}
  /\ Writers(p) # {} => files[p] # "absent"
  /\ files[p] # "absent" => p \in evidence \/ Writers(p) # {} \/ Stored(p) # {}
FileInv == \A p \in Path \ harmed : PathInv(p)

LEMMA StoringIs ==
  ASSUME NEW r \in Request
  PROVE  Storing(r) <=> r \in Writers(PathOf(r)) \cup Stored(PathOf(r))
  BY DEF Storing, Is, At, Writers, Stored

LEMMA FileInvMeans == TypeOK /\ FileInv => RowHasFile /\ NoOrphanAtRest
  <1> SUFFICES ASSUME TypeOK, FileInv PROVE RowHasFile /\ NoOrphanAtRest
    OBVIOUS
  <1>1. RowHasFile
    <2> SUFFICES ASSUME NEW p \in evidence \ harmed
                 PROVE  \/ files[p] = "whole"
                        \/ \E r \in Request : Is(r, "upload", "writing") /\ PathOf(r) = p
      BY DEF RowHasFile
    <2>1. p \in Path
      BY DEF TypeOK, EvidenceTypeOK
    <2> QED BY <2>1 DEF FileInv, PathInv, Writers
  <1>2. NoOrphanAtRest
    <2> SUFFICES ASSUME NEW p \in Path \ (evidence \cup harmed), files[p] # "absent"
                 PROVE  \E r \in Request : Storing(r) /\ PathOf(r) = p
      BY DEF NoOrphanAtRest
    <2>1. PICK r \in Request : r \in Writers(p) \cup Stored(p)
      BY DEF FileInv, PathInv, Writers, Stored
    <2> QED BY <2>1 DEF Writers, Stored, Storing, Is, At
  <1> QED BY <1>1, <1>2

(* How a move changes who writes and who has written.                      *)
LEMMA MoveOfWriters ==
  ASSUME TypeOK, NEW r \in Request, NEW pc, Transition(r, req[r].pc, pc), NEW p
  PROVE  /\ Writers(p)' = (Writers(p) \ {r}) \cup
              IF req[r].kind = "upload" /\ pc = "writing" /\ PathOf(r) = p THEN {r} ELSE {}
         /\ Stored(p)' = (Stored(p) \ {r}) \cup
              IF req[r].kind = "upload" /\ pc \in {"written", "committing"} /\ PathOf(r) = p
              THEN {r} ELSE {}
  <1>1. /\ \A q \in Request : q # r => req'[q] = req[q]
        /\ req'[r].pc = pc /\ req'[r].kind = req[r].kind /\ req'[r].epoch = req[r].epoch
        /\ req'[r].content = req[r].content
    BY Moves DEF Transition
  <1> QED BY <1>1 DEF Writers, Stored, Is, At, PathOf

EvidenceWriter(r) ==
  \/ UploadWrites(r) \/ UploadWritten(r) \/ UploadWriteFails(r)
  \/ UploadCommits(r) \/ UploadCommitFails(r)

(* All other steps leave them alone.                                       *)
LEMMA OthersKeepWriters ==
  ASSUME TypeOK, [Next]_allvars, ~Crash, \A r \in Request : ~EvidenceWriter(r), NEW p
  PROVE  Writers(p)' = Writers(p) /\ Stored(p)' = Stored(p) /\ UNCHANGED evars
  <1>1. ASSUME NEW r \in Request, SyncArrives(r) \/ UploadArrives(r) \/ HookArrives(r)
        PROVE  Writers(p)' = Writers(p) /\ Stored(p)' = Stored(p)
    <2>1. /\ \A q \in Request : q # r => req'[q] = req[q]
          /\ req[r].pc = "unsent" /\ req'[r].pc = "new"
      BY <1>1, ArrivalMoves DEF Unsent
    <2> QED BY <2>1 DEF Writers, Stored, Is, At, PathOf
  <1>2. ASSUME NEW r \in Request, HookLoads(r)
        PROVE  Writers(p)' = Writers(p) /\ Stored(p)' = Stored(p)
    <2>1. /\ \A q \in Request : q # r => req'[q] = req[q]
          /\ req[r].kind = "hook" /\ req'[r].kind = "hook"
      BY <1>2, HookLoadsMoves
    <2> QED BY <2>1 DEF Writers, Stored, Is, At, PathOf
  <1>3. ASSUME NEW r \in Request,
               Step(r) \/ UploadWriteFails(r) \/ UploadCommitFails(r) \/ HookCommitFails(r),
               ~HookLoads(r)
        PROVE  Writers(p)' = Writers(p) /\ Stored(p)' = Stored(p)
    <2>1. PICK pc : Transition(r, req[r].pc, pc)
      BY <1>3, StepMoves
    <2>2. /\ req[r] \in RequestState /\ \A x : req' = Moved(r, x) => x = pc
      BY <2>1, Moves, PcOfMove DEF Transition
    <2>3. CASE UploadFlushes(r)
      <3>1. req[r].pc = "written" /\ pc = "committing"
        BY <2>2, <2>3 DEF UploadFlushes, At
      <3> QED BY <2>1, <3>1, MoveOfWriters DEF Writers, Stored, Is, At
    <2>4. CASE HookCommits(r) \/ HookCommitFails(r) \/ HookQueries(r) \/ HookDuplicate(r)
      <3>1. req[r].kind = "hook"
        BY <2>2, <2>4, KindOfPc
           DEF HookCommits, HookCommitFails, HookQueries, HookDuplicate, At, Is
      <3>2. r \notin Writers(p) /\ r \notin Stored(p)
        BY <3>1 DEF Writers, Stored, Is
      <3>3. req[r].kind # "upload"
        BY <3>1
      <3>4. Writers(p)' = Writers(p) \ {r} /\ Stored(p)' = Stored(p) \ {r}
        <4>1. /\ Writers(p)' = (Writers(p) \ {r}) \cup {}
              /\ Stored(p)' = (Stored(p) \ {r}) \cup {}
          BY <2>1, <3>3, MoveOfWriters, Zenon
        <4> QED BY <4>1
      <3> QED BY <3>2, <3>4
    <2>5. CASE ~(UploadFlushes(r) \/ HookCommits(r) \/ HookCommitFails(r)
                 \/ HookQueries(r) \/ HookDuplicate(r))
      <3>1. /\ req[r].pc \notin {"writing", "written", "committing"}
            /\ pc \notin {"writing", "written", "committing"}
        BY <1>3, <2>2, <2>5
           DEF EvidenceWriter, Step, DispatchDependencies, get_db, current_user,
               PoolTimeout, get_db_Close, DispatchHandler, HandlerReads, HandlerSelects,
               HandlerLocks, HandlerCommits, HandlerReturns, UploadLoads, UploadTooLarge,
               At, Is
      <3> QED BY <2>1, <3>1, MoveOfWriters DEF Writers, Stored, Is, At
    <2> QED BY <2>3, <2>4, <2>5
  <1>4. CASE NewEpoch \/ UNCHANGED allvars
    BY <1>4 DEF NewEpoch, svars, allvars, Writers, Stored, Is, At, PathOf
  <1>5. UNCHANGED evars
    BY EvidenceWrites DEF EvidenceWriter
  <1> QED BY <1>1, <1>2, <1>3, <1>4, <1>5, Kinds

(* A writer's move, and what is left to show of it.                        *)
LEMMA WriterMoves ==
  ASSUME TypeOK, NEW r \in Request, EvidenceWriter(r)
  PROVE  /\ req[r] \in RequestState /\ req[r].kind = "upload" /\ PathOf(r) \in Path
         /\ \E pc : Transition(r, req[r].pc, pc)
         /\ \A pc : Transition(r, req[r].pc, pc) => \A x : req' = Moved(r, x) => x = pc
  <1>1. req[r] \in RequestState /\ req[r].kind = "upload" /\ PathOf(r) \in Path
    BY Uploads DEF EvidenceWriter
  <1>2. ~HookLoads(r)
    BY <1>1, HookLoadsMoves
  <1>3. \E pc : Transition(r, req[r].pc, pc)
    BY <1>2, StepMoves DEF EvidenceWriter, Step
  <1>4. \A pc : Transition(r, req[r].pc, pc) => req'[r].pc = pc
    BY Moves DEF Transition
  <1>5. \A x : req' = Moved(r, x) => req'[r].pc = x
    BY <1>1, PcOfMove
  <1> QED BY <1>1, <1>3, <1>4, <1>5

LEMMA WriterKeepsFiles ==
  ASSUME TypeOK, FileInv, NEW r \in Request, EvidenceWriter(r), NEW p \in Path \ harmed'
  PROVE  PathInv(p)'
  <1>1. /\ req[r] \in RequestState /\ req[r].kind = "upload" /\ PathOf(r) \in Path
        /\ files \in [Path -> {"absent", "partial", "whole"}]
    BY WriterMoves DEF TypeOK, EvidenceTypeOK
  <1>2. PICK pc : Transition(r, req[r].pc, pc) /\ \A x : req' = Moved(r, x) => x = pc
    BY WriterMoves
  <1>3. /\ Writers(p)' = (Writers(p) \ {r}) \cup
              IF pc = "writing" /\ PathOf(r) = p THEN {r} ELSE {}
        /\ Stored(p)' = (Stored(p) \ {r}) \cup
              IF pc \in {"written", "committing"} /\ PathOf(r) = p THEN {r} ELSE {}
    BY <1>1, <1>2, MoveOfWriters
  <1>4. p \notin harmed
    BY DEF EvidenceWriter, UploadWrites, UploadWritten, UploadWriteFails, UploadCommits,
           UploadCommitFails, WriteBegin, WriteEnd, WriteFails, RowCommits, CommitFails
  <1>5. PathInv(p)
    BY <1>4 DEF FileInv
  <1>6. CASE PathOf(r) # p
    <2>1. r \notin Writers(p) /\ r \notin Stored(p)
      BY <1>6 DEF Writers, Stored
    <2>2. files'[p] = files[p] /\ (p \in evidence' <=> p \in evidence)
      BY <1>1, <1>6
         DEF EvidenceWriter, UploadWrites, UploadWritten, UploadWriteFails, UploadCommits,
             UploadCommitFails, WriteBegin, WriteEnd, WriteFails, RowCommits, CommitFails
    <2>3. Writers(p)' = Writers(p) /\ Stored(p)' = Stored(p)
      BY <1>3, <1>6, <2>1
    <2> QED BY <1>5, <2>2, <2>3 DEF PathInv
  <1>7. CASE PathOf(r) = p
    <2>1. CASE UploadWrites(r)
      <3>1. pc = "writing" /\ files'[p] = "partial" /\ evidence' = evidence
        BY <1>1, <1>2, <1>7, <2>1 DEF UploadWrites, WriteBegin
      <3> QED BY <1>3, <1>7, <3>1 DEF PathInv
    <2>2. CASE UploadWritten(r)
      <3>1. /\ req[r].pc = "writing" /\ pc = "written" /\ evidence' = evidence
            /\ files'[p] = IF files[p] = "absent" THEN "absent"
                           ELSE IF OtherWriter(r) THEN "partial" ELSE "whole"
        BY <1>1, <1>2, <1>7, <2>2 DEF UploadWritten, WriteEnd, At
      <3>2. r \in Writers(p) /\ files[p] # "absent"
        BY <1>1, <1>5, <1>7, <3>1 DEF Writers, Is, At, PathInv
      <3>3. OtherWriter(r) <=> Writers(p) \ {r} # {}
        BY <1>7 DEF OtherWriter, Writers
      <3>4. Writers(p)' = Writers(p) \ {r} /\ r \in Stored(p)'
        BY <1>3, <1>7, <3>1
      <3> QED BY <3>1, <3>2, <3>3, <3>4 DEF PathInv
    <2>3. CASE UploadWriteFails(r)
      BY <1>7, <2>3 DEF UploadWriteFails, WriteFails
    <2>4. CASE UploadCommits(r)
      <3>1. /\ req[r].pc = "committing" /\ pc = "answered"
            /\ evidence' = evidence \cup {p} /\ files' = files
        BY <1>2, <1>7, <2>4 DEF UploadCommits, LoopCommitEnds, RowCommits, At
      <3>2. r \in Stored(p) /\ r \notin Writers(p)
        BY <1>1, <1>7, <3>1 DEF Stored, Writers, Is, At
      <3> QED BY <1>3, <1>5, <3>1, <3>2 DEF PathInv
    <2>5. CASE UploadCommitFails(r)
      <3>1. /\ pc = "answered" /\ evidence' = evidence /\ files'[p] = "absent"
            /\ ~Shared(r) /\ p \notin evidence
        BY <1>1, <1>2, <1>7, <2>5 DEF UploadCommitFails, LoopCommitEnds, CommitFails
      <3>2. Writers(p) \subseteq {r} /\ Stored(p) \subseteq {r}
        BY <1>7, <3>1 DEF Shared, Storing, Writers, Stored, Is, At
      <3> QED BY <1>3, <3>1, <3>2 DEF PathInv
    <2> QED BY <2>1, <2>2, <2>3, <2>4, <2>5 DEF EvidenceWriter
  <1> QED BY <1>6, <1>7

LEMMA FileStep == TypeOK /\ FileInv /\ [Next]_allvars => FileInv'
  <1> SUFFICES ASSUME TypeOK, FileInv, [Next]_allvars, NEW p \in Path \ harmed'
               PROVE  PathInv(p)'
    BY DEF FileInv
  <1>1. CASE Crash
    <2>1. \A r \in Request : req'[r].pc \in {"unsent", "done"}
      BY <1>1, CrashMoves
    <2>2. Writers(p)' = {} /\ Stored(p)' = {}
      BY <2>1 DEF Writers, Stored, Is, At
    <2>3. /\ p \notin harmed /\ files' = files /\ evidence' = evidence
          /\ \A r \in Request : Storing(r) => PathOf(r) # p
      BY <1>1 DEF Crash, CrashDuring
    <2>4. Writers(p) = {} /\ Stored(p) = {}
      BY <2>3 DEF Writers, Stored, Storing, Is, At
    <2> QED BY <2>2, <2>3, <2>4 DEF FileInv, PathInv
  <1>2. ASSUME NEW r \in Request, EvidenceWriter(r)
        PROVE  PathInv(p)'
    BY <1>2, WriterKeepsFiles
  <1>3. CASE ~Crash /\ \A r \in Request : ~EvidenceWriter(r)
    <2>1. Writers(p)' = Writers(p) /\ Stored(p)' = Stored(p) /\ UNCHANGED evars
      BY <1>3, OthersKeepWriters
    <2> QED BY <2>1 DEF evars, FileInv, PathInv
  <1> QED BY <1>1, <1>2, <1>3

LEMMA FileInvariant == Spec => []FileInv
  <1>1. Init => FileInv
    BY DEF Init, EvidenceInit, FileInv, PathInv, Writers, Stored, Is, At, Unsent
  <1> QED BY <1>1, FileStep, LeakInvariant, PTL DEF Spec

(* Uploads that share a file, in any number and order, leave no row        *)
(* without it as long as none of them fails.                               *)
THEOREM RowsHaveFiles == Spec => []RowHasFile
  BY FileInvariant, FileInvMeans, EventLoopTypeCorrect, PTL

(* Only failed writes and crashes leave a file without a row.              *)
THEOREM FilesHaveRows == Spec => []NoOrphanAtRest
  BY FileInvariant, FileInvMeans, EventLoopTypeCorrect, PTL
=============================================================================
