---------------------------- MODULE LedgerProofs ----------------------------
(***************************************************************************)
(* Proofs that rest on the invariant of OrchestratorProofs: the row lock   *)
(* keeps a checked key fresh, an approved verdict is final, an EXECUTED    *)
(* verdict is about an observed release, and the orchestrator implements   *)
(* the abstract EpochLedger.                                               *)
(***************************************************************************)
EXTENDS OrchestratorProofs

----------------------------------------------------------------------------
(* The keys of executions under the lock.                                  *)

(* Only a commit of an execution writes receipts.                          *)
LEMMA OnlyCommitsWriteReceipts ==
  ASSUME [Next]_vars, receipts' # receipts
  PROVE  \E s \in Session : ExecuteCommit(s)
  BY DEF Next, vars, db, CreateEpoch, PipelineHook, AgentCreate, ApproveLoad, IssueLoad,
         ExecuteLoad, AgentExecuteLoad, Start, AgentChange, ApproveCommit, ApproveReturn,
         IssueGrant, IssuePolicyRefusal, IssueRefuse, ExecuteCall, ExecuteReturn,
         ExecutorAnswer, ExecutorFail, ExecuteConflict, RequestFails, Tick, Crash,
         TargetStep

(* A request that is with the executor after a step was called by it just  *)
(* now, with the row it read, or was there before, with the same epoch,    *)
(* key and row.                                                            *)
LEMMA ExecutingBefore ==
  ASSUME Inv, [Next]_vars, NEW s \in Session, ses'[s].pc \in {"calling", "answered"}
  PROVE  /\ \/ ExecuteCall(s) /\ ses'[s].seen = live[TargetOf[ses[s].epoch]]
            \/ ses[s].pc \in {"calling", "answered"} /\ ses'[s].seen = ses[s].seen
         /\ ses'[s].epoch = ses[s].epoch /\ ses'[s].key = ses[s].key
  <1>1. ses \in [Session -> Request \cup {Idle}]
    BY DEF Inv, TypeOK
  <1>2. CASE ses'[s] = ses[s]
    BY <1>2
  <1>3. ASSUME NEW p \in Session, Finish(p)
        PROVE  ses'[s] = ses[s]
    BY <1>1, <1>3 DEF Finish, Idle
  <1>4. ASSUME NEW p \in Session, NEW e \in Epoch, NEW op, NEW k, NEW token,
               Start(p, op, e, k, token)
        PROVE  ses'[s] = ses[s]
    BY <1>1, <1>4 DEF Start
  <1>5. ASSUME NEW p \in Session, NEW e \in Epoch, AgentCreate(p, e)
        PROVE  ses'[s] = ses[s]
    BY <1>1, <1>5 DEF AgentCreate
  <1>6. ASSUME NEW p \in Session, ExecuteCall(p) \/ ExecutorAnswer(p)
        PROVE  \/ ses'[s] = ses[s]
               \/ /\ \/ ExecuteCall(s) /\ ses'[s].seen = live[TargetOf[ses[s].epoch]]
                     \/ ses[s].pc = "calling" /\ ses'[s].seen = ses[s].seen
                  /\ ses'[s].epoch = ses[s].epoch /\ ses'[s].key = ses[s].key
    <2>1. CASE p # s
      BY <1>1, <1>6, <2>1 DEF ExecuteCall, ExecutorAnswer
    <2>2. CASE p = s
      <3>1. ses[s] \in Request
        BY <1>6, <2>2, ServedRequest DEF Inv, ExecuteCall, ExecutorAnswer, Locked, Serving
      <3>2. PICK answer :
              \/ /\ ExecuteCall(s)
                 /\ ses'[s] = [ses[s] EXCEPT !.pc = "calling",
                                             !.seen = live[TargetOf[ses[s].epoch]]]
              \/ /\ ses[s].pc = "calling"
                 /\ ses'[s] = [ses[s] EXCEPT !.pc = "answered", !.answer = answer]
        BY <1>1, <1>6, <2>2 DEF ExecuteCall, ExecutorAnswer, Serving
      <3> QED BY <3>1, <3>2 DEF Request
    <2> QED BY <2>1, <2>2
  <1>7. CASE Crash
    BY <1>7 DEF Crash, Idle
  <1>8. CASE UNCHANGED ses
    BY <1>8
  <1>9. \/ UNCHANGED ses
        \/ Crash
        \/ \E p \in Session : Finish(p) \/ ExecuteCall(p) \/ ExecutorAnswer(p)
        \/ \E p \in Session, e \in Epoch : AgentCreate(p, e)
        \/ \E p \in Session, e \in Epoch, op \in {"approve", "issue", "human", "agent"},
              k \in Key \cup {None}, token \in grants \cup {None} : Start(p, op, e, k, token)
    BY DEF Next, vars, CreateEpoch, PipelineHook, ApproveLoad, IssueLoad,
           ExecuteLoad, AgentExecuteLoad, AgentChange, ApproveCommit, ApproveReturn,
           IssueGrant, IssuePolicyRefusal, IssueRefuse, ExecuteReturn,
           ExecutorFail, ExecuteCommit, ExecuteConflict, RequestFails, Tick, TargetStep
  <1> QED BY <1>2, <1>3, <1>4, <1>5, <1>6, <1>7, <1>8, <1>9

LEMMA KeyStaysFreshStep == Inv /\ KeyStaysFresh /\ [Next]_vars => KeyStaysFresh'
  <1> SUFFICES ASSUME Inv, KeyStaysFresh, [Next]_vars, RowLocks,
                      NEW s \in Session, ses'[s].pc \in {"calling", "answered"}
               PROVE  KeyFresh(s)'
    BY DEF KeyStaysFresh
  <1>1. /\ ExecuteCall(s) \/ ses[s].pc \in {"calling", "answered"}
        /\ ses'[s].epoch = ses[s].epoch /\ ses'[s].key = ses[s].key
    BY ExecutingBefore
  <1>2. KeyFresh(s)
    BY <1>1 DEF KeyStaysFresh, ExecuteCall
  <1>3. CASE receipts' = receipts
    BY <1>1, <1>2, <1>3 DEF KeyFresh, HasKey
  <1>4. CASE receipts' # receipts
    <2>1. PICK p \in Session : ExecuteCommit(p)
      BY <1>4, OnlyCommitsWriteReceipts
    <2>2. /\ ses[p].pc = "answered" /\ ses[p].epoch \in Epoch
          /\ receipts' = receipts \cup {NewReceipt(p)}
          /\ NewReceipt(p).epoch = ses[p].epoch
      BY <2>1, ServedRequest DEF Inv, ExecuteCommit, Serving, NewReceipt
    <2>3. p # s
      BY <2>1, FinishFrees DEF Inv, ExecuteCommit, Idle
    <2>4. ses'[s] = ses[s] /\ ses[s].pc \in {"calling", "answered"}
      BY <2>1, <2>3, FinishFrees DEF Inv, ExecuteCommit
    <2>5. ses[p].epoch # ses[s].epoch
      BY <2>2, <2>3, <2>4 DEF Inv, LockInv, HoldsLock
    <2> QED BY <1>1, <1>2, <2>2, <2>5 DEF KeyFresh, HasKey
  <1> QED BY <1>3, <1>4

(* With row locks an execution that passed its key check commits without   *)
(* meeting the unique constraint of execution_receipts.                    *)
THEOREM KeysStayFresh == Spec => []KeyStaysFresh
  <1>1. Init => KeyStaysFresh
    BY DEF Init, KeyStaysFresh, Idle
  <1>2. Inv /\ KeyStaysFresh /\ [Next]_vars => KeyStaysFresh'
    BY KeyStaysFreshStep
  <1> QED BY <1>1, <1>2, Invariant, PTL DEF Spec

----------------------------------------------------------------------------
(* The states of epochs.                                                   *)

(* The steps that write deployment_epochs.                                 *)
LEMMA EpochWrites ==
  ASSUME [Next]_vars, epochs' # epochs
  PROVE  \/ \E e \in Epoch : CreateEpoch(e)
         \/ \E s \in Session, e \in Epoch : AgentCreate(s, e)
         \/ \E e \in Epoch, status \in {"pending", "success", "sha_mismatch"} :
              PipelineHook(e, status)
         \/ \E s \in Session : ApproveCommit(s) \/ ExecuteCommit(s)
  BY DEF Next, vars, db, ApproveLoad, IssueLoad, ExecuteLoad, AgentExecuteLoad, Start,
         AgentChange, ApproveReturn, IssueGrant, IssuePolicyRefusal, IssueRefuse,
         ExecuteCall, ExecuteReturn, ExecutorAnswer, ExecutorFail, ExecuteConflict,
         RequestFails, Tick, Crash, TargetStep

(* The row a step leaves of an epoch.                                      *)
LEMMA EpochStates ==
  ASSUME Inv, [Next]_vars, NEW e \in Epoch, epochs'[e] # epochs[e]
  PROVE  \/ /\ ~Exists(e)
            /\ epochs'[e].state = "DRAFT"
         \/ epochs'[e].state = epochs[e].state
         \/ \E s \in Session :
              /\ ApproveCommit(s) /\ ses[s].epoch = e
              /\ epochs'[e].state = "APPROVED"
         \/ \E s \in Session :
              /\ ExecuteCommit(s) /\ ses[s].epoch = e
              /\ epochs'[e].state = ses[s].answer.outcome
  <1>1. epochs \in [Epoch -> Row \cup {Absent}]
    BY DEF Inv, TypeOK, DbTypeOK
  <1>2. epochs[e] = [state |-> epochs[e].state, pipeline |-> epochs[e].pipeline]
    BY <1>1 DEF Row, Absent
  <1>3. CASE \E f \in Epoch : CreateEpoch(f)
    BY <1>1, <1>3 DEF CreateEpoch
  <1>4. CASE \E s \in Session, f \in Epoch : AgentCreate(s, f)
    BY <1>1, <1>4 DEF AgentCreate
  <1>5. CASE \E f \in Epoch, status \in {"pending", "success", "sha_mismatch"} :
               PipelineHook(f, status)
    BY <1>1, <1>2, <1>5 DEF PipelineHook
  <1>6. ASSUME NEW s \in Session, ApproveCommit(s)
        PROVE  ses[s].epoch = e /\ epochs'[e].state = "APPROVED"
    BY <1>1, <1>2, <1>6 DEF ApproveCommit
  <1>7. ASSUME NEW s \in Session, ExecuteCommit(s)
        PROVE  ses[s].epoch = e /\ epochs'[e].state = ses[s].answer.outcome
    BY <1>1, <1>2, <1>7 DEF ExecuteCommit
  <1> QED BY <1>3, <1>4, <1>5, <1>6, <1>7, EpochWrites

(* A verdict that is committed is one of the two the executor gives.       *)
LEMMA CommittedOutcome ==
  ASSUME Inv, NEW s \in Session, ExecuteCommit(s)
  PROVE  ses[s].answer.outcome \in Verdict
  BY DEF Inv, RequestInv, Sound, ExecuteCommit, Serving, Answer

(* An approved epoch that has its verdict is never executable again: only  *)
(* approve_epoch leads out of a terminal state, and it returns the         *)
(* approval that exists.                                                   *)
THEOREM ApprovedVerdictIsFinal == Spec => ApprovedTerminalIsFinal
  <1> DEFINE Final(e) ==
        approval[e] # None /\ epochs[e].state \in Verdict => epochs'[e].state \in Verdict
  <1>1. Inv /\ [Next]_vars => \A e \in Epoch : Final(e)
    <2> SUFFICES ASSUME Inv, [Next]_vars, NEW e \in Epoch,
                        approval[e] # None, epochs[e].state \in Verdict,
                        epochs'[e] # epochs[e]
                 PROVE  epochs'[e].state \in Verdict
      OBVIOUS
    <2>1. Exists(e)
      BY DEF Exists, Absent, Verdict
    <2>2. \A s \in Session : ~(ApproveCommit(s) /\ ses[s].epoch = e)
      BY DEF ApproveCommit, MayApprove
    <2> QED BY <2>1, <2>2, EpochStates, CommittedOutcome
  <1> QED BY <1>1, Invariant, PTL DEF Spec, ApprovedTerminalIsFinal

----------------------------------------------------------------------------
(* What an EXECUTED verdict is about.                                      *)

(* The strengthening: an answer EXECUTED that has not committed yet is     *)
(* about an observed release, too.                                         *)
AnswersWereObserved ==
  \A s \in Session :
    ses[s].pc = "answered" /\ ses[s].answer.outcome = "EXECUTED"
      => ReleaseOf[ses[s].epoch] \in committed[TargetOf[ses[s].epoch]]

(* The in-process client compares with the row that the execution read.    *)
SeenWasObserved ==
  ~Remote => \A s \in Session : ses[s].pc \in {"calling", "answered"} =>
               ses[s].seen \in committed[TargetOf[ses[s].epoch]]

(* Observations that committed are not forgotten.                          *)
LEMMA CommittedGrows ==
  ASSUME Inv, [Next]_vars, NEW t \in Target
  PROVE  committed[t] \subseteq committed'[t]
  <1>1. committed \in [Target -> SUBSET Release]
    BY DEF Inv, TargetsInv, TargetsTypeOK
  <1>2. CASE UNCHANGED committed
    BY <1>2
  <1>3. CASE \E o \in Observer : ObserveCommit(o)
    BY <1>1, <1>3 DEF ObserveCommit
  <1>4. ASSUME ObserversNext
        PROVE  UNCHANGED committed \/ \E o \in Observer : ObserveCommit(o)
    BY <1>4 DEF ObserversNext, ObserveRead, DriftRead, BeginObservation, ObserveConflict,
                Deliver, ObserveAnswered, ObserveTimeout, Drop, ExecutorRestart
  <1> QED BY <1>2, <1>3, <1>4
          DEF Next, vars, tvars, CreateEpoch, PipelineHook, AgentCreate, ApproveLoad,
              IssueLoad, ExecuteLoad, AgentExecuteLoad, Start, AgentChange, ApproveCommit,
              ApproveReturn, IssueGrant, IssuePolicyRefusal, IssueRefuse, ExecuteCall,
              ExecuteReturn, ExecutorAnswer, ExecutorFail, ExecuteCommit, ExecuteConflict,
              RequestFails, Finish, Tick, Crash, TargetStep

(* An answer that is there after a step was there before or is given now.  *)
LEMMA AnsweredBefore ==
  ASSUME Inv, [Next]_vars, NEW s \in Session, ses'[s].pc = "answered"
  PROVE  ses'[s] = ses[s] \/ ExecutorAnswer(s)
  <1>1. ses \in [Session -> Request \cup {Idle}]
    BY DEF Inv, TypeOK
  <1>2. ASSUME NEW p \in Session, Finish(p)
        PROVE  ses'[s] = ses[s]
    BY <1>1, <1>2 DEF Finish, Idle
  <1>3. ASSUME NEW p \in Session, NEW e \in Epoch, NEW op, NEW k, NEW token,
               Start(p, op, e, k, token)
        PROVE  ses'[s] = ses[s]
    BY <1>1, <1>3 DEF Start
  <1>4. ASSUME NEW p \in Session, NEW e \in Epoch, AgentCreate(p, e)
        PROVE  ses'[s] = ses[s]
    BY <1>1, <1>4 DEF AgentCreate
  <1>5. ASSUME NEW p \in Session, ExecuteCall(p)
        PROVE  ses'[s] = ses[s]
    <2>1. CASE p # s
      BY <1>1, <1>5, <2>1 DEF ExecuteCall
    <2>2. CASE p = s
      <3>1. ses[s] \in Request
        BY <1>5, <2>2, ServedRequest DEF Inv, ExecuteCall, Locked, Serving
      <3>2. ses'[s] = [ses[s] EXCEPT !.pc = "calling", !.seen = live[TargetOf[ses[s].epoch]]]
        BY <1>1, <1>5, <2>2 DEF ExecuteCall
      <3>3. ses'[s].pc = "calling"
        BY <3>1, <3>2 DEF Request
      <3> QED BY <3>3
    <2> QED BY <2>1, <2>2
  <1>6. ASSUME NEW p \in Session, ExecutorAnswer(p)
        PROVE  ses'[s] = ses[s] \/ ExecutorAnswer(s)
    BY <1>1, <1>6 DEF ExecutorAnswer
  <1>7. CASE Crash
    BY <1>7 DEF Crash, Idle
  <1>8. \/ UNCHANGED ses
        \/ Crash
        \/ \E p \in Session : Finish(p) \/ ExecuteCall(p) \/ ExecutorAnswer(p)
        \/ \E p \in Session, e \in Epoch : AgentCreate(p, e)
        \/ \E p \in Session, e \in Epoch, op \in {"approve", "issue", "human", "agent"},
              k \in Key \cup {None}, token \in grants \cup {None} : Start(p, op, e, k, token)
    BY DEF Next, vars, CreateEpoch, PipelineHook, ApproveLoad, IssueLoad,
           ExecuteLoad, AgentExecuteLoad, AgentChange, ApproveCommit, ApproveReturn,
           IssueGrant, IssuePolicyRefusal, IssueRefuse, ExecuteReturn,
           ExecutorFail, ExecuteCommit, ExecuteConflict, RequestFails, Tick, TargetStep
  <1> QED BY <1>2, <1>3, <1>4, <1>5, <1>6, <1>7, <1>8

LEMMA AnswersWereObservedStep ==
  ASSUME Inv, AnswersWereObserved, SeenWasObserved, [Next]_vars
  PROVE  AnswersWereObserved'
  <1> SUFFICES ASSUME NEW s \in Session, ses'[s].pc = "answered",
                      ses'[s].answer.outcome = "EXECUTED"
               PROVE  ReleaseOf[ses'[s].epoch] \in committed'[TargetOf[ses'[s].epoch]]
    BY DEF AnswersWereObserved
  <1>1. CASE ses'[s] = ses[s]
    <2>1. ses[s].epoch \in Epoch
      BY <1>1, ServedRequest DEF Inv
    <2> QED BY <1>1, <2>1, CommittedGrows, PayloadTypes DEF AnswersWereObserved
  <1>2. CASE ExecutorAnswer(s)
    <2> DEFINE e == ses[s].epoch
    <2> DEFINE answer == [outcome |-> Compare(ReleaseOf[e], Observed(s)),
                          observed |-> Observed(s), at |-> now]
    <2>1. ses[s] \in Request /\ e \in Epoch /\ TargetOf[e] \in Target
      BY <1>2, ServedRequest, PayloadTypes DEF Inv, ExecutorAnswer, Serving
    <2>2. ses'[s] = [ses[s] EXCEPT !.pc = "answered", !.answer = answer]
      BY <1>2 DEF ExecutorAnswer, Inv, TypeOK
    <2>3. ses'[s].epoch = e /\ ses'[s].answer = answer
      BY <2>1, <2>2 DEF Request
    <2>4. Observed(s) = ReleaseOf[e]
      BY <2>3 DEF Compare
    <2>5. ReleaseOf[e] # None
      BY <2>1, PayloadTypes, NoneIsNoRelease
    <2>6. ReleaseOf[e] \in committed[TargetOf[e]]
      <3>1. CASE Remote
        BY <2>1, <2>4, <2>5, <3>1 DEF Observed, Inv, TargetsInv, ExecutorFollowsDatabase
      <3>2. CASE ~Remote
        BY <1>2, <2>4, <3>2 DEF Observed, SeenWasObserved, ExecutorAnswer, Serving
      <3> QED BY <3>1, <3>2
    <2> QED BY <2>1, <2>3, <2>6, CommittedGrows
  <1> QED BY <1>1, <1>2, AnsweredBefore

LEMMA ExecutedWasObservedStep ==
  ASSUME Inv, AnswersWereObserved, ExecutedWasObserved, [Next]_vars
  PROVE  ExecutedWasObserved'
  <1> SUFFICES ASSUME NEW r \in receipts', r.outcome = "EXECUTED"
               PROVE  ReleaseOf[r.epoch] \in committed'[TargetOf[r.epoch]]
    BY DEF ExecutedWasObserved
  <1>1. CASE r \in receipts
    <2>1. r.epoch \in Epoch
      BY <1>1 DEF Inv, TypeOK, DbTypeOK, Receipt
    <2> QED BY <1>1, <2>1, CommittedGrows, PayloadTypes DEF ExecutedWasObserved
  <1>2. CASE r \notin receipts
    <2>1. PICK s \in Session : ExecuteCommit(s)
      BY <1>2, OnlyCommitsWriteReceipts
    <2>2. /\ ses[s].pc = "answered" /\ ses[s].epoch \in Epoch
          /\ r = NewReceipt(s)
      BY <1>2, <2>1, ServedRequest DEF Inv, ExecuteCommit, Serving
    <2>3. r.epoch = ses[s].epoch /\ r.outcome = ses[s].answer.outcome
      BY <2>2 DEF NewReceipt
    <2> QED BY <2>2, <2>3, CommittedGrows, PayloadTypes DEF AnswersWereObserved
  <1> QED BY <1>1, <1>2

(* With a remote executor an EXECUTED receipt is about a release that an   *)
(* observer reported for the target and that the database committed.       *)
THEOREM RemoteExecutionWasObserved ==
  ASSUME Remote
  PROVE  Spec => []ExecutedWasObserved
  <1>1. Init => AnswersWereObserved /\ ExecutedWasObserved
    BY DEF Init, AnswersWereObserved, ExecutedWasObserved, Idle
  <1>2. SeenWasObserved
    BY DEF SeenWasObserved
  <1>3. Inv /\ AnswersWereObserved /\ ExecutedWasObserved /\ [Next]_vars
          => AnswersWereObserved' /\ ExecutedWasObserved'
    BY <1>2, AnswersWereObservedStep, ExecutedWasObservedStep
  <1> QED BY <1>1, <1>3, Invariant, PTL DEF Spec

----------------------------------------------------------------------------
(* What an execution with the in-process executor is about.                *)

(* The strengthening: while observations do not overlap, each has loaded   *)
(* the row that is still there, and the row is an identity as reported.    *)
LoadedIsLive == \A o \in Observer : At(o, "read") => obs[o].row = live[obs[o].target]
LiveIsCommitted == \A t \in Target : live[t] # None => live[t] \in committed[t]
SerialInv == LoadedIsLive /\ LiveIsCommitted

(* A row that nobody else is about to change is replaced as a whole.       *)
LEMMA SerialCommit ==
  ASSUME TargetsInv, SerialInv, ~Overlapping, NEW o \in Observer, ObserveCommit(o)
  PROVE  SerialInv'
  <1> DEFINE t == obs[o].target
  <1>1. At(o, "read") /\ obs[o] \in Observation
    BY DEF ObserveCommit, TargetsInv, TargetsTypeOK, At, IdleObs
  <1>2. t \in Target /\ obs[o].ident \in Release /\ live[t] \in Release \cup {None}
    BY <1>1 DEF Observation, TargetsInv, TargetsTypeOK
  <1>3. obs[o].row = live[t]
    BY <1>1 DEF SerialInv, LoadedIsLive
  <1>4. Upsert(obs[o].row, obs[o].ident, live[t]) = obs[o].ident
    BY <1>2, <1>3, UpsertIsExact
  <1>5. /\ live' = [live EXCEPT ![t] = obs[o].ident]
        /\ committed' = [committed EXCEPT ![t] = @ \cup {obs[o].ident}]
    BY <1>4 DEF ObserveCommit
  <1>6. LiveIsCommitted'
    BY <1>2, <1>5 DEF SerialInv, LiveIsCommitted, TargetsInv, TargetsTypeOK
  <1>7. LoadedIsLive'
    <2> SUFFICES ASSUME NEW p \in Observer, At(p, "read")'
                 PROVE  obs'[p].row = live'[obs'[p].target]
      BY DEF LoadedIsLive
    <2>1. p # o /\ obs'[p] = obs[p]
      <3>1. Move(o, AfterCommit) /\ AfterCommit \in Step \cup {"idle"} /\ ~At(o, "idle")
        BY <1>1 DEF ObserveCommit, AfterCommit, Step, At
      <3>2. /\ \A q \in Observer : q # o => obs'[q] = obs[q]
            /\ AfterCommit = "idle" => obs'[o] = IdleObs
            /\ AfterCommit # "idle" => obs'[o].step = AfterCommit
        BY <3>1, MoveType DEF TargetsInv, TargetsTypeOK
      <3>3. ~At(o, "read")'
        BY <3>2 DEF At, AfterCommit, IdleObs
      <3> QED BY <3>2, <3>3
    <2>2. At(p, "read") /\ obs[p] \in Observation
      BY <2>1 DEF At, TargetsInv, TargetsTypeOK, IdleObs
    <2>3. obs[p].target # t /\ obs[p].target \in Target
      BY <1>1, <2>1, <2>2 DEF Overlapping, Observation
    <2>4. live'[obs[p].target] = live[obs[p].target]
      BY <1>2, <1>5, <2>3 DEF TargetsInv, TargetsTypeOK
    <2> QED BY <2>1, <2>2, <2>4 DEF SerialInv, LoadedIsLive
  <1> QED BY <1>6, <1>7 DEF SerialInv

(* Only commits change rows; no other step moves an observation into its   *)
(* transaction than the one that loads the row.                            *)
LEMMA SerialStep ==
  ASSUME Inv, SerialInv, ~Overlapping, [Next]_vars
  PROVE  SerialInv'
  <1>0. TargetsInv
    BY DEF Inv
  <1>1. ASSUME NEW o \in Observer, NEW t \in Target, NEW ident \in Release,
               BeginObservation(o, t, ident)
        PROVE  SerialInv'
    <2>1. /\ \A p \in Observer : p # o => obs'[p] = obs[p]
          /\ obs'[o].row = live[t] /\ obs'[o].target = t
          /\ UNCHANGED <<live, committed>>
      BY <1>0, <1>1 DEF BeginObservation, TargetsInv, TargetsTypeOK
    <2> QED BY <2>1 DEF SerialInv, LoadedIsLive, LiveIsCommitted, At
  <1>2. ASSUME UNCHANGED <<live, committed>>,
               \A o \in Observer : At(o, "read")' => obs'[o] = obs[o]
        PROVE  SerialInv'
    BY <1>2 DEF SerialInv, LoadedIsLive, LiveIsCommitted, At
  <1>3. ASSUME NEW o \in Observer,
               \/ ObserveConflict(o) \/ Deliver(o) \/ ObserveAnswered(o)
               \/ ObserveTimeout(o) \/ Drop(o)
        PROVE  SerialInv'
    <2>1. PICK step \in {"idle", "applied", "late"} :
            Move(o, step) /\ ~At(o, "idle") /\ UNCHANGED <<live, committed>>
      BY <1>3 DEF ObserveConflict, Deliver, ObserveAnswered, ObserveTimeout, Drop, At
    <2>2. /\ \A q \in Observer : q # o => obs'[q] = obs[q]
          /\ step = "idle" => obs'[o] = IdleObs
          /\ step # "idle" => obs'[o].step = step
      BY <1>0, <2>1, MoveType DEF TargetsInv, TargetsTypeOK, Step
    <2>3. ~At(o, "read")'
      BY <2>2 DEF At, IdleObs
    <2> QED BY <1>2, <2>1, <2>2, <2>3
  <1>4. CASE ExecutorRestart
    BY <1>2, <1>4 DEF ExecutorRestart
  <1>5. CASE Crash
    <2>1. \A o \in Observer :
            \/ obs'[o] = IdleObs
            \/ obs[o].step \in {"sent", "late"} /\ obs'[o] = [obs[o] EXCEPT !.step = "late"]
      BY <1>5 DEF Crash, DropObservations
    <2>2. \A o \in Observer : obs[o].step \in {"sent", "late"} => obs[o] \in Observation
      BY <1>0 DEF TargetsInv, TargetsTypeOK, IdleObs
    <2>3. ASSUME NEW o \in Observer
          PROVE  ~At(o, "read")'
      <3>1. CASE obs'[o] = IdleObs
        BY <3>1 DEF At, IdleObs
      <3>2. CASE obs[o] \in Observation /\ obs'[o] = [obs[o] EXCEPT !.step = "late"]
        <4>1. obs'[o].step = "late"
          BY <3>2 DEF Observation
        <4> QED BY <4>1 DEF At
      <3> QED BY <2>1, <2>2, <3>1, <3>2
    <2> QED BY <1>2, <1>5, <2>3 DEF Crash
  <1>6. CASE TargetStep
    <2>1. ASSUME NEW o \in Observer, ObserveRead(o)
          PROVE  SerialInv'
      BY <1>1, <2>1 DEF ObserveRead
    <2>2. ASSUME NEW o \in Observer, DriftRead(o)
          PROVE  SerialInv'
      <3>1. PICK t \in Target, f \in Field, v \in Value :
              live[t] # None /\ BeginObservation(o, t, [live[t] EXCEPT ![f] = v])
        BY <2>2 DEF DriftRead
      <3>2. [live[t] EXCEPT ![f] = v] \in Release
        BY <1>0, <3>1 DEF TargetsInv, TargetsTypeOK, Release
      <3> QED BY <1>1, <3>1, <3>2
    <2> QED BY <1>0, <1>3, <1>4, <1>6, <2>1, <2>2, SerialCommit
               DEF TargetStep, ObserversNext
  <1>7. UNCHANGED tvars \/ Crash \/ TargetStep
    BY DEF Next, vars, CreateEpoch, PipelineHook, AgentCreate, ApproveLoad, IssueLoad,
           ExecuteLoad, AgentExecuteLoad, Start, AgentChange, ApproveCommit,
           ApproveReturn, IssueGrant, IssuePolicyRefusal, IssueRefuse, ExecuteCall,
           ExecuteReturn, ExecutorAnswer, ExecutorFail, ExecuteCommit, ExecuteConflict,
           RequestFails, Tick, Finish
  <1>8. CASE UNCHANGED tvars
    BY <1>2, <1>8 DEF tvars
  <1> QED BY <1>5, <1>6, <1>7, <1>8

LEMMA SeenWasObservedStep ==
  ASSUME Inv, SerialInv, SeenWasObserved, [Next]_vars
  PROVE  SeenWasObserved'
  <1> SUFFICES ASSUME ~Remote, NEW s \in Session, ses'[s].pc \in {"calling", "answered"}
               PROVE  ses'[s].seen \in committed'[TargetOf[ses'[s].epoch]]
    BY DEF SeenWasObserved
  <1>1. ses'[s].epoch = ses[s].epoch
    BY ExecutingBefore
  <1>2. CASE ExecuteCall(s) /\ ses'[s].seen = live[TargetOf[ses[s].epoch]]
    <2>1. TargetOf[ses[s].epoch] \in Target
      BY <1>2, ServedRequest, PayloadTypes DEF Inv, ExecuteCall, Locked, Serving
    <2>2. live[TargetOf[ses[s].epoch]] # None
      BY <1>2 DEF ExecuteCall, MayStart
    <2> QED BY <1>1, <1>2, <2>1, <2>2, CommittedGrows DEF SerialInv, LiveIsCommitted
  <1>3. CASE ses[s].pc \in {"calling", "answered"} /\ ses'[s].seen = ses[s].seen
    <2>1. TargetOf[ses[s].epoch] \in Target
      BY <1>3, ServedRequest, PayloadTypes DEF Inv
    <2> QED BY <1>1, <1>3, <2>1, CommittedGrows DEF SeenWasObserved
  <1> QED BY <1>2, <1>3, ExecutingBefore

(* With either client an EXECUTED receipt is about a release that somebody *)
(* reported for the target, as long as no two observations of one target   *)
(* are in their transactions at once, whatever else is concurrent or fails *)
(* (two that are may leave a row, and an execution, that nobody reported). *)
THEOREM SerialExecutionWasObserved == Spec /\ []~Overlapping => []ExecutedWasObserved
  <1> DEFINE J == SerialInv /\ SeenWasObserved /\ AnswersWereObserved /\ ExecutedWasObserved
  <1>1. Init => J
    BY DEF Init, TargetsInit, SerialInv, LoadedIsLive, LiveIsCommitted, SeenWasObserved,
           AnswersWereObserved, ExecutedWasObserved, Idle, At, IdleObs
  <1>2. Inv /\ J /\ ~Overlapping /\ [Next]_vars => J'
    BY SerialStep, SeenWasObservedStep, AnswersWereObservedStep, ExecutedWasObservedStep
  <1>3. J => ExecutedWasObserved
    OBVIOUS
  <1> HIDE DEF J
  <1> QED BY <1>1, <1>2, <1>3, Invariant, PTL DEF Spec

----------------------------------------------------------------------------
(* The refinement of EpochLedger.                                          *)

(* Steps that keep what the ledger sees stutter.                           *)
LEMMA LedgerStutters ==
  ASSUME UNCHANGED <<approval, receipts, outbox>>,
         \A e \in Epoch : epochs'[e].state = epochs[e].state
  PROVE  UNCHANGED Ledger!lvars
  <1>1. [e \in Epoch |-> epochs[e].state]' = [e \in Epoch |-> epochs[e].state]
    OBVIOUS
  <1> QED BY <1>1 DEF Ledger!lvars

(* A new state in one row is a new state of one epoch.                     *)
LEMMA StateWritten ==
  ASSUME Inv, NEW e \in Epoch, NEW w, epochs' = [epochs EXCEPT ![e].state = w]
  PROVE  [f \in Epoch |-> epochs[f].state]'
           = [[f \in Epoch |-> epochs[f].state] EXCEPT ![e] = w]
  <1>1. epochs \in [Epoch -> Row \cup {Absent}]
    BY DEF Inv, TypeOK, DbTypeOK
  <1>2. epochs'[e] = [epochs[e] EXCEPT !.state = w]
    BY <1>1
  <1>3. epochs[e] = [state |-> epochs[e].state, pipeline |-> epochs[e].pipeline]
    BY <1>1 DEF Row, Absent
  <1>4. epochs'[e].state = w
    BY <1>2, <1>3
  <1>5. \A f \in Epoch : f # e => epochs'[f] = epochs[f]
    BY <1>1
  <1>6. \A f \in Epoch : epochs'[f].state = IF f = e THEN w ELSE epochs[f].state
    BY <1>4, <1>5
  <1> QED BY <1>6

(* A new row in one of the two ways to create an epoch is a registration.  *)
LEMMA CreationRegisters ==
  ASSUME Inv, NEW e \in Epoch, ~Exists(e),
         epochs' = [epochs EXCEPT ![e] = [state |-> "DRAFT", pipeline |-> "pending"]],
         UNCHANGED <<approval, receipts, outbox>>
  PROVE  Ledger!Register(e)
  <1>1. epochs \in [Epoch -> Row \cup {Absent}]
    BY DEF Inv, TypeOK, DbTypeOK
  <1>2. [f \in Epoch |-> epochs[f].state][e] = "ABSENT"
    BY <1>1 DEF Exists, Absent
  <1>3. [f \in Epoch |-> epochs[f].state]'
          = [[f \in Epoch |-> epochs[f].state] EXCEPT ![e] = "DRAFT"]
    BY <1>1
  <1> QED BY <1>2, <1>3 DEF Ledger!Register

(* The first approval of an epoch is the ledger's approval.                *)
LEMMA ApprovalApproves ==
  ASSUME Inv, NEW s \in Session, ApproveCommit(s), NEW e \in Epoch, e = ses[s].epoch
  PROVE  Ledger!Approve(e)
  <1>1. e \in Epoch /\ Exists(e)
    BY ServedRequest DEF Inv, RequestInv, Sound, ApproveCommit, Locked, Serving, Idle
  <1>2. /\ epochs \in [Epoch -> Row \cup {Absent}]
        /\ approval \in [Epoch -> {None} \cup {Fingerprint(f) : f \in Epoch}]
        /\ approval[e] = None
    BY DEF Inv, TypeOK, DbTypeOK, ApproveCommit, MayApprove
  <1>3. [f \in Epoch |-> epochs[f].state][e] # "ABSENT"
    BY <1>1, <1>2 DEF Exists, Absent, Row, Verdict
  <1>4. ~[f \in Epoch |-> approval[f] # None][e]
    BY <1>1, <1>2
  <1>5. [f \in Epoch |-> epochs[f].state]'
          = [[f \in Epoch |-> epochs[f].state] EXCEPT ![e] = "APPROVED"]
    <2>1. epochs' = [epochs EXCEPT ![e].state = "APPROVED"]
      BY DEF ApproveCommit
    <2> QED BY <1>1, <2>1, StateWritten
  <1>6. [f \in Epoch |-> approval[f] # None]'
          = [[f \in Epoch |-> approval[f] # None] EXCEPT ![e] = TRUE]
    <2>1. approval' = [approval EXCEPT ![e] = Fingerprint(e)]
      BY DEF ApproveCommit
    <2>2. Fingerprint(e) # None
      BY <1>1, NoneIsNoFingerprint
    <2> QED BY <1>1, <1>2, <2>1, <2>2
  <1>7. UNCHANGED <<receipts, outbox>>
    BY DEF ApproveCommit
  <1> QED BY <1>3, <1>4, <1>5, <1>6, <1>7 DEF Ledger!Approve


(* A committed execution is a decision of the ledger: by what RequestInv   *)
(* keeps of the checks made under the lock, it has authority.              *)
LEMMA CommitDecides ==
  ASSUME Inv, NEW s \in Session, ExecuteCommit(s), NEW e, NEW k, NEW outcome,
         e = ses[s].epoch, k = ses[s].key, outcome = ses[s].answer.outcome
  PROVE  Ledger!Decide(e, k, outcome)
  <1> DEFINE Seen(r) == [epoch |-> r.epoch, key |-> r.key, outcome |-> r.outcome]
  <1>1. e \in Epoch
    BY ServedRequest DEF Inv, ExecuteCommit, Serving
  <1>2. /\ epochs \in [Epoch -> Row \cup {Absent}]
        /\ outbox \in [Epoch -> Nat]
    BY DEF Inv, TypeOK, DbTypeOK
  <1>3. [f \in Epoch |-> approval[f] # None][e] \/ e \in {f \in Epoch : Allowed(f)}
    <2>1. Autonomous(s) \/ Approved(s)
      BY DEF Inv, RequestInv, Sound, ExecuteCommit, Serving
    <2>2. CASE Autonomous(s)
      BY <1>1, <2>2 DEF Autonomous, Allowed
    <2>3. CASE Approved(s)
      BY <1>1, <2>3, NoneIsNoFingerprint DEF Approved
    <2> QED BY <2>1, <2>2, <2>3
  <1>4. \A v \in {Seen(r) : r \in receipts} : v.epoch # e \/ v.key # k
    BY DEF ExecuteCommit, KeyFresh, HasKey
  <1>5. [f \in Epoch |-> epochs[f].state]'
          = [[f \in Epoch |-> epochs[f].state] EXCEPT ![e] = outcome]
    <2>1. epochs' = [epochs EXCEPT ![e].state = outcome]
      BY DEF ExecuteCommit
    <2> QED BY <1>1, <2>1, StateWritten
  <1>6. {Seen(r) : r \in receipts}'
          = {Seen(r) : r \in receipts} \cup {[epoch |-> e, key |-> k, outcome |-> outcome]}
    <2>1. receipts' = receipts \cup {NewReceipt(s)}
      BY DEF ExecuteCommit
    <2>2. Seen(NewReceipt(s)) = [epoch |-> e, key |-> k, outcome |-> outcome]
      BY DEF NewReceipt
    <2> QED BY <2>1, <2>2
  <1>7. outbox' = [outbox EXCEPT ![e] = @ + 1] /\ approval' = approval
    BY DEF ExecuteCommit
  <1> QED BY <1>3, <1>4, <1>5, <1>6, <1>7 DEF Ledger!Decide

LEMMA LedgerStep == Inv /\ [Next]_vars => [Ledger!LedgerNext]_(Ledger!lvars)
  <1> SUFFICES ASSUME Inv, [Next]_vars
               PROVE  Ledger!LedgerNext \/ UNCHANGED Ledger!lvars
    OBVIOUS
  <1>1. ASSUME NEW s \in Session, ExecuteCommit(s)
        PROVE  Ledger!LedgerNext
    <2>1. PICK e \in Epoch, k \in Key, outcome \in Verdict :
            e = ses[s].epoch /\ k = ses[s].key /\ outcome = ses[s].answer.outcome
      BY <1>1, ServedRequest, CommittedOutcome
         DEF Inv, RequestInv, Sound, Carried, ExecuteCommit, Serving
    <2>2. Ledger!Decide(e, k, outcome)
      BY <1>1, <2>1, CommitDecides
    <2> QED BY <2>2 DEF Ledger!LedgerNext, Verdict
  <1>2. ASSUME NEW s \in Session, ApproveCommit(s)
        PROVE  Ledger!LedgerNext
    <2>1. PICK e \in Epoch : e = ses[s].epoch
      BY <1>2, ServedRequest DEF Inv, ApproveCommit, Locked, Serving
    <2>2. Ledger!Approve(e)
      BY <1>2, <2>1, ApprovalApproves
    <2> QED BY <2>2 DEF Ledger!LedgerNext
  <1>3. CASE \A s \in Session : ~ExecuteCommit(s) /\ ~ApproveCommit(s)
    <2>1. UNCHANGED <<approval, receipts, outbox>>
      BY <1>3 DEF Next, vars, db, CreateEpoch, PipelineHook, AgentCreate, ApproveLoad,
                  IssueLoad, ExecuteLoad, AgentExecuteLoad, Start, AgentChange,
                  ApproveReturn, IssueGrant, IssuePolicyRefusal, IssueRefuse, ExecuteCall,
                  ExecuteReturn, ExecutorAnswer, ExecutorFail, ExecuteConflict,
                  RequestFails, Tick, Crash, TargetStep
    <2>2. ASSUME NEW e \in Epoch, CreateEpoch(e)
          PROVE  Ledger!LedgerNext
      <3>1. /\ ~Exists(e)
            /\ epochs' = [epochs EXCEPT ![e] = [state |-> "DRAFT", pipeline |-> "pending"]]
        BY <2>2 DEF CreateEpoch
      <3>2. Ledger!Register(e)
        BY <2>1, <3>1, CreationRegisters
      <3> QED BY <3>2 DEF Ledger!LedgerNext
    <2>3. ASSUME NEW s \in Session, NEW e \in Epoch, AgentCreate(s, e)
          PROVE  Ledger!LedgerNext
      <3>1. /\ ~Exists(e)
            /\ epochs' = [epochs EXCEPT ![e] = [state |-> "DRAFT", pipeline |-> "pending"]]
        BY <2>3 DEF AgentCreate
      <3>2. Ledger!Register(e)
        BY <2>1, <3>1, CreationRegisters
      <3> QED BY <3>2 DEF Ledger!LedgerNext
    <2>4. CASE UNCHANGED epochs
      BY <2>1, <2>4, LedgerStutters
    <2>5. ASSUME NEW e \in Epoch, NEW status \in {"pending", "success", "sha_mismatch"},
                 PipelineHook(e, status)
          PROVE  UNCHANGED Ledger!lvars
      <3>1. epochs \in [Epoch -> Row \cup {Absent}]
        BY DEF Inv, TypeOK, DbTypeOK
      <3>2. \A f \in Epoch : epochs'[f].state = epochs[f].state
        BY <2>5, <3>1 DEF PipelineHook, Row, Absent
      <3> QED BY <2>1, <3>2, LedgerStutters
    <2> QED BY <1>3, <2>2, <2>3, <2>4, <2>5, EpochWrites
  <1> QED BY <1>1, <1>2, <1>3

(* The orchestrator implements the ledger for every number of epochs,      *)
(* workers, keys and observers: each commit of a handler is one step of    *)
(* EpochLedger, and every other step leaves the ledger alone.              *)
THEOREM OrchestratorImplementsLedger == Spec => ImplementsLedger
  <1>1. Init => Ledger!LedgerInit
    <2> SUFFICES ASSUME Init
                 PROVE  Ledger!LedgerInit
      OBVIOUS
    <2>1. [e \in Epoch |-> epochs[e].state] = [e \in Epoch |-> "ABSENT"]
      BY DEF Init, Absent
    <2>2. [e \in Epoch |-> approval[e] # None] = [e \in Epoch |-> FALSE]
      BY Zenon DEF Init
    <2>3. {[epoch |-> r.epoch, key |-> r.key, outcome |-> r.outcome] : r \in receipts} = {}
      BY DEF Init
    <2>4. outbox = [e \in Epoch |-> 0]
      BY DEF Init
    <2> QED BY <2>1, <2>2, <2>3, <2>4 DEF Ledger!LedgerInit
  <1>2. Inv /\ [Next]_vars => [Ledger!LedgerNext]_(Ledger!lvars)
    BY LedgerStep
  <1> QED BY <1>1, <1>2, Invariant, PTL DEF Spec, ImplementsLedger, Ledger!LedgerSpec
=============================================================================
