------------------------- MODULE OrchestratorProofs -------------------------
(***************************************************************************)
(* Proofs about the epoch lifecycle, for any number of epochs, workers,    *)
(* keys, targets and observers, any payload, each executor, with and       *)
(* without row locks, with and without failures.                           *)
(***************************************************************************)
EXTENDS Orchestrator, TargetsProofs

(* The inductive invariant.  Types and the state of the targets; what the  *)
(* requests under way have checked and still hold; and the properties of   *)
(* the receipts, which rest on it.                                         *)
Inv ==
  /\ TypeOK
  /\ TargetsInv
  /\ LockInv
  /\ RequestInv
  /\ VerdictHasAuthority
  /\ KeyDecidedOnce

(* What no step ever takes back: a created epoch, a change request, an     *)
(* approval, a capability.                                                 *)
Grows ==
  /\ \A e \in Epoch : Exists(e) => Exists(e)'
  /\ \A e \in Epoch : changed[e] => changed'[e]
  /\ \A e \in Epoch : approval[e] = Fingerprint(e) => approval'[e] = Fingerprint(e)
  /\ grants \subseteq grants'

----------------------------------------------------------------------------
(* Lemmas about the shapes of steps.                                       *)

(* A request that a step does not touch stays sound while facts only grow. *)
LEMMA UntouchedStaysSound ==
  ASSUME TypeOK, NEW p \in Session, Sound(p), Grows, ses'[p] = ses[p]
  PROVE  Sound(p)'
  <1>1. CASE ses[p] = Idle
    BY <1>1 DEF Sound, Idle
  <1>2. CASE ses[p] # Idle
    <2>1. ses[p] \in Request /\ ses[p].epoch \in Epoch
      BY <1>2 DEF TypeOK, Request
    <2>2. Exists(ses[p].epoch)'
      BY <1>2, <2>1 DEF Sound, Grows
    <2>3. Carried(p) => Carried(p)'
      BY <2>1 DEF Carried, Grows
    <2>4. Approved(p) => Approved(p)'
      BY <2>1 DEF Approved, Grows
    <2>5. Autonomous(p) <=> Autonomous(p)'
      BY DEF Autonomous, Policy
    <2> QED BY <2>2, <2>3, <2>4, <2>5 DEF Sound
  <1> QED BY <1>1, <1>2

(* The receipts keep their authority while facts only grow.                *)
LEMMA AuthorityStays ==
  ASSUME VerdictHasAuthority, receipts \subseteq Receipt, receipts' = receipts, Grows
  PROVE  VerdictHasAuthority'
  <1> SUFFICES ASSUME NEW r \in receipts
               PROVE  \/ approval'[r.epoch] = Fingerprint(r.epoch)
                      \/ /\ r.by = "agent" /\ changed'[r.epoch] /\ Allowed(r.epoch)
                         /\ \E g \in grants' : g.epoch = r.epoch /\ r.at < g.exp
    BY DEF VerdictHasAuthority, Allowed, Policy
  <1>1. r.epoch \in Epoch
    BY DEF Receipt
  <1>2. CASE approval[r.epoch] = Fingerprint(r.epoch)
    BY <1>1, <1>2 DEF Grows
  <1>3. CASE /\ r.by = "agent" /\ changed[r.epoch] /\ Allowed(r.epoch)
             /\ \E g \in grants : g.epoch = r.epoch /\ r.at < g.exp
    BY <1>1, <1>3 DEF Grows
  <1> QED BY <1>2, <1>3 DEF VerdictHasAuthority

(* A handler that ends leaves a free worker and no lock behind.            *)
LEMMA FinishFrees ==
  ASSUME TypeOK, NEW s \in Session, Finish(s)
  PROVE  /\ ses' \in [Session -> Request \cup {Idle}]
         /\ lock' \in [Epoch -> Session \cup {None}]
         /\ now' = now
         /\ UNCHANGED tvars
         /\ ses'[s] = Idle
         /\ \A p \in Session : p # s => ses'[p] = ses[p]
         /\ \A e \in Epoch : lock'[e] = IF lock[e] = s THEN None ELSE lock[e]
  BY DEF Finish, Unlock, TypeOK

LEMMA FinishKeepsLockInv ==
  ASSUME TypeOK, LockInv, NEW s \in Session, Finish(s)
  PROVE  LockInv'
  <1> SUFFICES ASSUME RowLocks, NEW p \in Session, NEW e \in Epoch
               PROVE  lock'[e] = p <=> HoldsLock(p, e)'
    BY DEF LockInv
  <1>1. lock[e] = p <=> HoldsLock(p, e)
    BY DEF LockInv
  <1>2. CASE p = s
    BY <1>2, FinishFrees, NoneIsNoSession DEF HoldsLock, Idle
  <1>3. CASE p # s
    BY <1>1, <1>3, FinishFrees, NoneIsNoSession DEF HoldsLock
  <1> QED BY <1>2, <1>3

(* The targets are as they were.                                           *)
LEMMA TargetsUnchanged ==
  ASSUME TargetsInv, UNCHANGED tvars
  PROVE  TargetsInv'
  BY DEF tvars, TargetsInv, TargetsTypeOK, LoadedRowStays, SentWasCommitted,
         ExecutorFollowsDatabase

(* What is left to show of a step that ends a request, once its writes     *)
(* are known.                                                              *)
LEMMA FinishKeepsInv ==
  ASSUME Inv, NEW s \in Session, Finish(s), Grows, DbTypeOK',
         VerdictHasAuthority', KeyDecidedOnce'
  PROVE  Inv'
  <1>1. TargetsInv'
    BY FinishFrees, TargetsUnchanged DEF Inv
  <1>2. TypeOK'
    BY <1>1, FinishFrees DEF Inv, TypeOK, TargetsInv
  <1>3. LockInv'
    BY FinishKeepsLockInv DEF Inv
  <1>4. RequestInv'
    <2> SUFFICES ASSUME NEW p \in Session PROVE Sound(p)'
      BY DEF RequestInv
    <2>1. CASE p = s
      BY <2>1, FinishFrees DEF Inv, Sound, Idle
    <2>2. CASE p # s
      BY <2>2, FinishFrees, UntouchedStaysSound DEF Inv, RequestInv
    <2> QED BY <2>1, <2>2
  <1> QED BY <1>1, <1>2, <1>3, <1>4 DEF Inv

(* The same for a step that writes no receipt.                             *)
LEMMA QuietFinishKeepsInv ==
  ASSUME Inv, NEW s \in Session, Finish(s), Grows, DbTypeOK', receipts' = receipts
  PROVE  Inv'
  <1>1. VerdictHasAuthority'
    BY AuthorityStays DEF Inv, TypeOK, DbTypeOK
  <1>2. KeyDecidedOnce'
    BY DEF Inv, KeyDecidedOnce
  <1> QED BY <1>1, <1>2, FinishKeepsInv

----------------------------------------------------------------------------
(* Steps that end a request without a receipt.                             *)

(* A request under way is about an epoch; its worker is typed.             *)
LEMMA ServedRequest ==
  ASSUME TypeOK, NEW s \in Session, ses[s].pc \in {"loaded", "calling", "answered", "created"}
  PROVE  /\ ses[s] \in Request
         /\ ses[s] # Idle
         /\ ses[s].epoch \in Epoch
  <1>1. ses[s] # Idle
    BY DEF Idle
  <1>2. ses[s] \in Request
    BY <1>1 DEF TypeOK
  <1> QED BY <1>1, <1>2 DEF Request

LEMMA AgentChangeKeepsInv ==
  ASSUME Inv, NEW s \in Session, AgentChange(s)
  PROVE  Inv'
  <1>1. ses[s].epoch \in Epoch
    BY ServedRequest DEF Inv, AgentChange, Serving
  <1>2. DbTypeOK'
    BY <1>1 DEF Inv, TypeOK, DbTypeOK, AgentChange, Record, Event
  <1>3. Grows
    BY <1>1 DEF Inv, TypeOK, DbTypeOK, AgentChange, Grows, Exists
  <1> QED BY <1>2, <1>3, QuietFinishKeepsInv DEF AgentChange

LEMMA ApproveCommitKeepsInv ==
  ASSUME Inv, NEW s \in Session, ApproveCommit(s)
  PROVE  Inv'
  <1> DEFINE e == ses[s].epoch
  <1>1. e \in Epoch
    BY ServedRequest DEF Inv, ApproveCommit, Locked, Serving
  <1>2. /\ approval' = [approval EXCEPT ![e] = Fingerprint(e)]
        /\ epochs' = [epochs EXCEPT ![e].state = "APPROVED"]
        /\ passport' = [passport EXCEPT ![e] = @ \cup {"APPROVED"}]
        /\ UNCHANGED <<changed, receipts, outbox, grants>>
    BY DEF ApproveCommit, Record
  <1>3. epochs' \in [Epoch -> Row \cup {Absent}]
    BY <1>1, <1>2 DEF Inv, TypeOK, DbTypeOK, Row, Absent
  <1>4. DbTypeOK'
    BY <1>1, <1>2, <1>3 DEF Inv, TypeOK, DbTypeOK, Event, Fingerprint
  <1>5. Grows
    <2>1. \A f \in Epoch : Exists(f) => Exists(f)'
      BY <1>1, <1>2 DEF Inv, TypeOK, DbTypeOK, Exists, Row, Absent
    <2> QED BY <1>1, <1>2, <2>1 DEF Inv, TypeOK, DbTypeOK, Grows, Fingerprint
  <1> QED BY <1>2, <1>4, <1>5, QuietFinishKeepsInv DEF ApproveCommit

LEMMA IssueKeepsInv ==
  ASSUME Inv, NEW s \in Session, IssueGrant(s) \/ IssuePolicyRefusal(s)
  PROVE  Inv'
  <1> DEFINE e == ses[s].epoch
  <1>1. e \in Epoch
    BY ServedRequest DEF Inv, IssueGrant, IssuePolicyRefusal, Locked, Serving
  <1>2. [epoch |-> e, exp |-> now + TTL] \in Token
    BY <1>1, TimeBounds DEF Inv, TypeOK, Token
  <1>3. DbTypeOK'
    BY <1>1, <1>2 DEF Inv, TypeOK, DbTypeOK, IssueGrant, IssuePolicyRefusal, Record, Event
  <1>4. Grows
    BY DEF IssueGrant, IssuePolicyRefusal, Grows, Exists
  <1> QED BY <1>3, <1>4, QuietFinishKeepsInv DEF IssueGrant, IssuePolicyRefusal

(* Refusals, replays and failures change no row.                           *)
LEMMA ReturnKeepsInv ==
  ASSUME Inv, NEW s \in Session,
         \/ ApproveReturn(s) \/ IssueRefuse(s) \/ ExecuteReturn(s)
         \/ ExecutorFail(s) \/ ExecuteConflict(s) \/ RequestFails(s)
  PROVE  Inv'
  <1>1. UNCHANGED db /\ Finish(s)
    BY DEF ApproveReturn, IssueRefuse, ExecuteReturn, ExecutorFail, ExecuteConflict,
           RequestFails
  <1>2. DbTypeOK'
    BY <1>1 DEF Inv, TypeOK, DbTypeOK, db
  <1>3. Grows
    BY <1>1 DEF Grows, Exists, db
  <1> QED BY <1>1, <1>2, <1>3, QuietFinishKeepsInv DEF db

----------------------------------------------------------------------------
(* The commit of a verdict.                                                *)
LEMMA ExecuteCommitKeepsInv ==
  ASSUME Inv, NEW s \in Session, ExecuteCommit(s)
  PROVE  Inv'
  <1> DEFINE e == ses[s].epoch
  <1> DEFINE r == NewReceipt(s)
  <1>1. /\ ses[s] \in Request /\ e \in Epoch
        /\ ses[s].pc = "answered" /\ ses[s].op \in Executing
    BY ServedRequest DEF Inv, ExecuteCommit, Serving
  <1>2. Sound(s)
    BY DEF Inv, RequestInv
  <1>3. /\ ses[s].answer \in Answer /\ ses[s].key \in Key
        /\ Autonomous(s) \/ Approved(s)
        /\ Carried(s)
        /\ ses[s].op = "agent" => ses[s].answer.at < ses[s].token.exp
    BY <1>1, <1>2 DEF Sound, Carried
  <1>4. r \in Receipt
    BY <1>1, <1>3 DEF NewReceipt, Receipt, Answer, Executing
  <1>5. /\ receipts' = receipts \cup {r}
        /\ epochs' = [epochs EXCEPT ![e].state = ses[s].answer.outcome]
        /\ outbox' = [outbox EXCEPT ![e] = @ + 1]
        /\ passport' = [passport EXCEPT ![e] = @ \cup {ses[s].answer.outcome}]
        /\ UNCHANGED <<changed, approval, grants>>
        /\ KeyFresh(s)
    BY DEF ExecuteCommit, Record
  <1>6. epochs' \in [Epoch -> Row \cup {Absent}]
    BY <1>1, <1>3, <1>5 DEF Inv, TypeOK, DbTypeOK, Row, Absent, Answer, Verdict
  <1>7. DbTypeOK'
    BY <1>1, <1>3, <1>4, <1>5, <1>6 DEF Inv, TypeOK, DbTypeOK, Event, Answer
  <1>8. Grows
    <2>1. \A f \in Epoch : Exists(f) => Exists(f)'
      BY <1>1, <1>3, <1>5 DEF Inv, TypeOK, DbTypeOK, Exists, Row, Absent, Answer, Verdict
    <2> QED BY <1>5, <2>1 DEF Grows
  <1>9. VerdictHasAuthority'
    <2> SUFFICES ASSUME NEW q \in receipts'
                 PROVE  \/ approval[q.epoch] = Fingerprint(q.epoch)
                        \/ /\ q.by = "agent" /\ changed[q.epoch] /\ Allowed(q.epoch)
                           /\ \E g \in grants : g.epoch = q.epoch /\ q.at < g.exp
      BY <1>5 DEF VerdictHasAuthority, Allowed, Policy
    <2>1. CASE q \in receipts
      BY <2>1 DEF Inv, VerdictHasAuthority
    <2>2. CASE q = r
      <3>1. /\ q.epoch = e /\ q.by = ses[s].op /\ q.at = ses[s].answer.at
        BY <2>2 DEF NewReceipt
      <3>2. CASE Approved(s)
        BY <3>1, <3>2 DEF Approved
      <3>3. CASE Autonomous(s)
        BY <1>3, <3>1, <3>3 DEF Autonomous, Allowed, Carried
      <3> QED BY <1>3, <3>2, <3>3
    <2> QED BY <1>5, <2>1, <2>2
  <1>10. KeyDecidedOnce'
    <2>1. r.epoch = e /\ r.key = ses[s].key
      BY DEF NewReceipt
    <2>2. \A q \in receipts : q.epoch # e \/ q.key # ses[s].key
      BY <1>5 DEF KeyFresh, HasKey
    <2> QED BY <1>5, <2>1, <2>2 DEF Inv, KeyDecidedOnce
  <1> QED BY <1>7, <1>8, <1>9, <1>10, FinishKeepsInv DEF ExecuteCommit

----------------------------------------------------------------------------
(* Steps that end no request.                                              *)

(* A step of worker s that takes no lock and writes no receipt: what is    *)
(* left to show is the type of what it writes, that facts grow, and that   *)
(* the request of s is sound.                                              *)
LEMMA WorkerStepKeepsInv ==
  ASSUME Inv, NEW s \in Session,
         ses' \in [Session -> Request \cup {Idle}],
         \A p \in Session : p # s => ses'[p] = ses[p],
         \A e \in Epoch : HoldsLock(s, e)' <=> HoldsLock(s, e),
         UNCHANGED <<lock, now, tvars, receipts>>, DbTypeOK', Grows, Sound(s)'
  PROVE  Inv'
  <1>1. TargetsInv'
    BY TargetsUnchanged DEF Inv
  <1>2. TypeOK'
    BY <1>1 DEF Inv, TypeOK, TargetsInv
  <1>3. LockInv'
    BY DEF Inv, LockInv, HoldsLock
  <1>4. RequestInv'
    BY UntouchedStaysSound DEF Inv, RequestInv
  <1>5. VerdictHasAuthority'
    BY AuthorityStays DEF Inv, TypeOK, DbTypeOK
  <1>6. KeyDecidedOnce'
    BY DEF Inv, KeyDecidedOnce
  <1> QED BY <1>1, <1>2, <1>3, <1>4, <1>5, <1>6 DEF Inv

(* A step that writes rows of the database and touches no request.         *)
LEMMA DatabaseStepKeepsInv ==
  ASSUME Inv, UNCHANGED <<ses, lock, tvars, receipts>>, now' \in Nat, DbTypeOK', Grows
  PROVE  Inv'
  <1>1. TargetsInv'
    BY TargetsUnchanged DEF Inv
  <1>2. TypeOK'
    BY <1>1 DEF Inv, TypeOK, TargetsInv
  <1>3. LockInv'
    BY DEF Inv, LockInv, HoldsLock
  <1>4. RequestInv'
    BY UntouchedStaysSound DEF Inv, RequestInv
  <1>5. VerdictHasAuthority'
    BY AuthorityStays DEF Inv, TypeOK, DbTypeOK
  <1>6. KeyDecidedOnce'
    BY DEF Inv, KeyDecidedOnce
  <1> QED BY <1>1, <1>2, <1>3, <1>4, <1>5, <1>6 DEF Inv

LEMMA DbUnchanged ==
  ASSUME DbTypeOK, UNCHANGED db
  PROVE  DbTypeOK' /\ Grows
  BY DEF DbTypeOK, db, Grows, Exists

LEMMA StartKeepsInv ==
  ASSUME Inv, NEW s \in Session, NEW e \in Epoch,
         NEW op \in {"approve", "issue", "human", "agent"},
         NEW k \in Key \cup {None}, NEW token \in Token \cup {None},
         Start(s, op, e, k, token),
         op = "agent" => token \in grants /\ token.epoch = e /\ changed[e],
         op \in Executing => k \in Key
  PROVE  Inv'
  <1> DEFINE request == [pc |-> "loaded", op |-> op, epoch |-> e, row |-> epochs[e],
                         key |-> k, token |-> token, seen |-> None, answer |-> None]
  <1>1. /\ ses[s] = Idle /\ Exists(e)
        /\ ses' = [ses EXCEPT ![s] = request]
        /\ UNCHANGED <<db, lock, now, tvars>>
    BY DEF Start
  <1>2. epochs[e] \in Row
    BY <1>1 DEF Inv, TypeOK, DbTypeOK, Exists
  <1>3. request \in Request
    BY <1>2 DEF Request
  <1>4. /\ ses' \in [Session -> Request \cup {Idle}]
        /\ ses'[s] = request
        /\ \A p \in Session : p # s => ses'[p] = ses[p]
    BY <1>1, <1>3 DEF Inv, TypeOK
  <1>5. Sound(s)'
    <2>1. Exists(e)' /\ (request.op = "agent" =>
            request.token \in grants' /\ request.token.epoch = e /\ changed'[e])
      BY <1>1 DEF db, Exists
    <2> QED BY <1>4, <2>1 DEF Sound, Carried
  <1>6. \A f \in Epoch : HoldsLock(s, f)' <=> HoldsLock(s, f)
    BY <1>1, <1>4 DEF HoldsLock, Idle
  <1>7. DbTypeOK' /\ Grows
    BY <1>1, DbUnchanged DEF Inv, TypeOK
  <1> QED BY <1>1, <1>4, <1>5, <1>6, <1>7, WorkerStepKeepsInv DEF db

LEMMA AgentCreateKeepsInv ==
  ASSUME Inv, NEW s \in Session, NEW e \in Epoch, AgentCreate(s, e)
  PROVE  Inv'
  <1> DEFINE row == [state |-> "DRAFT", pipeline |-> "pending"]
  <1> DEFINE request == [pc |-> "created", op |-> "change", epoch |-> e, row |-> row,
                         key |-> None, token |-> None, seen |-> None, answer |-> None]
  <1>1. /\ ses[s] = Idle /\ ~Exists(e)
        /\ epochs' = [epochs EXCEPT ![e] = row]
        /\ ses' = [ses EXCEPT ![s] = request]
        /\ passport' = [passport EXCEPT ![e] = @ \cup {"EPOCH_CREATED"}]
        /\ UNCHANGED <<changed, approval, receipts, outbox, grants, lock, now, tvars>>
    BY DEF AgentCreate, Record
  <1>2. row \in Row /\ row # Absent
    BY DEF Row, Absent
  <1>3. request \in Request
    BY <1>2 DEF Request
  <1>4. /\ ses' \in [Session -> Request \cup {Idle}]
        /\ ses'[s] = request
        /\ \A p \in Session : p # s => ses'[p] = ses[p]
    BY <1>1, <1>3 DEF Inv, TypeOK
  <1>5. DbTypeOK'
    BY <1>1, <1>2 DEF Inv, TypeOK, DbTypeOK, Event
  <1>6. Exists(e)' /\ Grows
    BY <1>1, <1>2 DEF Inv, TypeOK, DbTypeOK, Grows, Exists
  <1>7. Sound(s)'
    BY <1>4, <1>6 DEF Sound
  <1>8. \A f \in Epoch : HoldsLock(s, f)' <=> HoldsLock(s, f)
    BY <1>1, <1>4 DEF HoldsLock, Idle
  <1> QED BY <1>1, <1>4, <1>5, <1>6, <1>7, <1>8, WorkerStepKeepsInv

LEMMA CreateEpochKeepsInv ==
  ASSUME Inv, NEW e \in Epoch, CreateEpoch(e)
  PROVE  Inv'
  <1>1. DbTypeOK'
    BY DEF Inv, TypeOK, DbTypeOK, CreateEpoch, Record, Row, Event
  <1>2. Grows
    BY DEF Inv, TypeOK, DbTypeOK, CreateEpoch, Grows, Exists, Absent
  <1> QED BY <1>1, <1>2, DatabaseStepKeepsInv DEF CreateEpoch, Inv, TypeOK

LEMMA PipelineHookKeepsInv ==
  ASSUME Inv, NEW e \in Epoch, NEW status \in {"pending", "success", "sha_mismatch"},
         PipelineHook(e, status)
  PROVE  Inv'
  <1> DEFINE row == [epochs[e] EXCEPT !.pipeline = status]
  <1>1. epochs[e] \in Row
    BY DEF Inv, TypeOK, DbTypeOK, PipelineHook, Exists
  <1>2. row \in Row /\ row # Absent
    BY <1>1 DEF Row, Absent, Verdict
  <1>3. PICK events \in SUBSET Event : Record(e, events)
    BY DEF PipelineHook, Event
  <1>4. epochs' = [epochs EXCEPT ![e] = row]
    BY DEF PipelineHook
  <1>5. DbTypeOK'
    BY <1>2, <1>3, <1>4 DEF Inv, TypeOK, DbTypeOK, PipelineHook, Record
  <1>6. Grows
    BY <1>2, <1>4 DEF Inv, TypeOK, DbTypeOK, PipelineHook, Grows, Exists
  <1> QED BY <1>5, <1>6, DatabaseStepKeepsInv DEF PipelineHook, Inv, TypeOK

LEMMA TickKeepsInv ==
  ASSUME Inv, Tick
  PROVE  Inv'
  <1>1. DbTypeOK' /\ Grows
    BY DbUnchanged DEF Inv, TypeOK, Tick
  <1> QED BY <1>1, DatabaseStepKeepsInv DEF Tick, Inv, TypeOK, db

(* The execution takes the lock; its worker has checked its authority.     *)
LEMMA ExecuteCallKeepsInv ==
  ASSUME Inv, NEW s \in Session, ExecuteCall(s)
  PROVE  Inv'
  <1> DEFINE e == ses[s].epoch
  <1> DEFINE request == [ses[s] EXCEPT !.pc = "calling", !.seen = live[TargetOf[e]]]
  <1>1. /\ ses[s] \in Request /\ e \in Epoch
        /\ ses[s].pc = "loaded" /\ ses[s].op \in Executing
        /\ lock[e] = None
    BY ServedRequest DEF Inv, ExecuteCall, Locked, Serving, LockFree
  <1>2. /\ ses' = [ses EXCEPT ![s] = request]
        /\ lock' = IF RowLocks THEN [lock EXCEPT ![e] = s] ELSE lock
        /\ UNCHANGED <<db, now, tvars>>
        /\ MayStart(s)
    BY DEF ExecuteCall
  <1>3. live[TargetOf[e]] \in Release \cup {None}
    BY <1>1, PayloadTypes DEF Inv, TargetsInv, TargetsTypeOK
  <1>4. request \in Request
    BY <1>1, <1>3 DEF Request
  <1>5. /\ ses' \in [Session -> Request \cup {Idle}]
        /\ ses'[s] = request
        /\ \A p \in Session : p # s => ses'[p] = ses[p]
    BY <1>2, <1>4 DEF Inv, TypeOK
  <1>6. DbTypeOK' /\ Grows
    BY <1>2, DbUnchanged DEF Inv, TypeOK
  <1>7. TargetsInv'
    BY <1>2, TargetsUnchanged DEF Inv
  <1>8. TypeOK'
    BY <1>1, <1>2, <1>5, <1>6, <1>7 DEF Inv, TypeOK, TargetsInv
  <1>9. LockInv'
    <2> SUFFICES ASSUME RowLocks, NEW p \in Session, NEW f \in Epoch
                 PROVE  lock'[f] = p <=> HoldsLock(p, f)'
      BY DEF LockInv
    <2>1. lock[f] = p <=> HoldsLock(p, f)
      BY DEF Inv, LockInv
    <2>2. lock' = [lock EXCEPT ![e] = s] /\ lock \in [Epoch -> Session \cup {None}]
      BY <1>2 DEF Inv, TypeOK
    <2>3. CASE p = s
      <3>1. request.pc = "calling" /\ request.epoch = e /\ ~HoldsLock(s, f)
        BY <1>1 DEF Request, HoldsLock
      <3> QED BY <1>5, <2>1, <2>2, <2>3, <3>1 DEF HoldsLock
    <2>4. CASE p # s
      <3>1. HoldsLock(p, f)' <=> HoldsLock(p, f)
        BY <1>5, <2>4 DEF HoldsLock
      <3>2. f = e => lock[f] # p
        BY <1>1, NoneIsNoSession
      <3> QED BY <2>1, <2>2, <2>4, <3>1, <3>2
    <2> QED BY <2>3, <2>4
  <1>10. Sound(s)'
    <2>1. Sound(s) /\ ses[s] # Idle
      BY <1>1 DEF Inv, RequestInv, Idle
    <2>2. /\ request.pc = "calling" /\ request.epoch = e /\ request.op = ses[s].op
          /\ request.key = ses[s].key /\ request.token = ses[s].token
      BY <1>1 DEF Request
    <2>3. ses[s].key \in Key
      BY <1>1, <2>1 DEF Sound, Carried
    <2>4. Carried(s)'
      BY <1>1, <1>2, <1>5, <2>1, <2>2 DEF Sound, Carried, db
    <2>5. Exists(e)'
      BY <1>2, <2>1 DEF Sound, db, Exists
    <2>6. Autonomous(s)' \/ Approved(s)'
      BY <1>2, <1>5, <2>2 DEF MayStart, Autonomous, Approved, Policy, db
    <2> QED BY <1>1, <1>5, <2>2, <2>3, <2>4, <2>5, <2>6 DEF Sound
  <1>11. RequestInv'
    BY <1>5, <1>6, <1>10, UntouchedStaysSound DEF Inv, RequestInv
  <1>12. VerdictHasAuthority' /\ KeyDecidedOnce'
    BY <1>2, <1>6, AuthorityStays DEF Inv, TypeOK, DbTypeOK, db, KeyDecidedOnce
  <1> QED BY <1>7, <1>8, <1>9, <1>11, <1>12 DEF Inv

(* The answer is given while the capability lives.                         *)
LEMMA ExecutorAnswerKeepsInv ==
  ASSUME Inv, NEW s \in Session, ExecutorAnswer(s)
  PROVE  Inv'
  <1> DEFINE e == ses[s].epoch
  <1> DEFINE answer == [outcome |-> Compare(ReleaseOf[e], Observed(s)),
                        observed |-> Observed(s), at |-> now]
  <1> DEFINE request == [ses[s] EXCEPT !.pc = "answered", !.answer = answer]
  <1>1. /\ ses[s] \in Request /\ e \in Epoch
        /\ ses[s].pc = "calling" /\ ses[s].op \in Executing
    BY ServedRequest DEF Inv, ExecutorAnswer, Serving
  <1>2. /\ ses' = [ses EXCEPT ![s] = request]
        /\ UNCHANGED <<db, lock, now, tvars>>
        /\ Observed(s) # None
        /\ ContextAccepted(s)
    BY DEF ExecutorAnswer
  <1>3. Observed(s) \in Release
    BY <1>1, <1>2, PayloadTypes DEF Inv, TargetsInv, TargetsTypeOK, Observed, Request
  <1>4. answer \in Answer
    BY <1>3 DEF Inv, TypeOK, Answer, Compare, Verdict
  <1>5. request \in Request
    BY <1>1, <1>4 DEF Request
  <1>6. /\ ses' \in [Session -> Request \cup {Idle}]
        /\ ses'[s] = request
        /\ \A p \in Session : p # s => ses'[p] = ses[p]
    BY <1>2, <1>5 DEF Inv, TypeOK
  <1>7. /\ request.pc = "answered" /\ request.epoch = e /\ request.op = ses[s].op
        /\ request.key = ses[s].key /\ request.token = ses[s].token
        /\ request.answer = answer
    BY <1>1 DEF Request
  <1>8. DbTypeOK' /\ Grows
    BY <1>2, DbUnchanged DEF Inv, TypeOK
  <1>9. \A f \in Epoch : HoldsLock(s, f)' <=> HoldsLock(s, f)
    BY <1>1, <1>6, <1>7 DEF HoldsLock
  <1>10. Sound(s)'
    <2>1. Sound(s) /\ ses[s] # Idle
      BY <1>1 DEF Inv, RequestInv, Idle
    <2>2. Carried(s)'
      BY <1>1, <1>2, <1>6, <1>7, <2>1 DEF Sound, Carried, db
    <2>3. Exists(e)'
      BY <1>2, <2>1 DEF Sound, db, Exists
    <2>4. Autonomous(s)' \/ Approved(s)'
      BY <1>1, <1>2, <1>6, <1>7, <2>1 DEF Sound, Autonomous, Approved, Policy, db
    <2>5. request.op = "agent" => answer.at < request.token.exp
      <3> SUFFICES ASSUME ses[s].op = "agent" PROVE now < ses[s].token.exp
        BY <1>7
      <3>1. ses[s].token \in Token
        BY <1>1, <2>1 DEF Sound, Carried, Inv, TypeOK, DbTypeOK
      <3> QED BY <1>2, <3>1, ExecutorModes
               DEF ContextAccepted, LocalAccepts, GinAccepts, verify_capability, Live,
                   Token, Inv, TypeOK
    <2> QED BY <1>1, <1>4, <1>6, <1>7, <2>2, <2>3, <2>4, <2>5 DEF Sound
  <1> QED BY <1>2, <1>6, <1>8, <1>9, <1>10, WorkerStepKeepsInv DEF db

LEMMA CrashKeepsInv ==
  ASSUME Inv, Crash
  PROVE  Inv'
  <1>1. /\ ses' = [s \in Session |-> Idle]
        /\ lock' = [e \in Epoch |-> None]
        /\ DropObservations /\ UNCHANGED <<live, store, committed>>
        /\ UNCHANGED db /\ now' = now
    BY DEF Crash
  <1>2. DbTypeOK' /\ Grows
    BY <1>1, DbUnchanged DEF Inv, TypeOK
  <1>3. TargetsInv'
    BY <1>1, DropKeepsInv DEF Inv
  <1>4. TypeOK'
    BY <1>1, <1>2, <1>3 DEF Inv, TypeOK, TargetsInv
  <1>5. LockInv'
    BY <1>1, NoneIsNoSession DEF LockInv, HoldsLock, Idle
  <1>6. RequestInv'
    BY <1>1 DEF RequestInv, Sound, Idle
  <1>7. VerdictHasAuthority' /\ KeyDecidedOnce'
    BY <1>1, <1>2, AuthorityStays DEF Inv, TypeOK, DbTypeOK, db, KeyDecidedOnce
  <1> QED BY <1>3, <1>4, <1>5, <1>6, <1>7 DEF Inv

LEMMA TargetStepKeepsInv ==
  ASSUME Inv, TargetStep
  PROVE  Inv'
  <1>1. TargetsInv' /\ UNCHANGED <<db, lock, ses, now>>
    BY ObserversKeepInv DEF Inv, TargetStep
  <1>2. DbTypeOK' /\ Grows
    BY <1>1, DbUnchanged DEF Inv, TypeOK
  <1>3. TypeOK'
    BY <1>1, <1>2 DEF Inv, TypeOK, TargetsInv
  <1>4. LockInv'
    BY <1>1 DEF Inv, LockInv, HoldsLock
  <1>5. RequestInv'
    BY <1>1, <1>2, UntouchedStaysSound DEF Inv, RequestInv
  <1>6. VerdictHasAuthority' /\ KeyDecidedOnce'
    BY <1>1, <1>2, AuthorityStays DEF Inv, TypeOK, DbTypeOK, db, KeyDecidedOnce
  <1> QED BY <1>1, <1>3, <1>4, <1>5, <1>6 DEF Inv

----------------------------------------------------------------------------
(* The invariant holds.                                                    *)

LEMMA InitInv == Init => Inv
  <1> SUFFICES ASSUME Init PROVE Inv
    OBVIOUS
  <1>1. TargetsInv
    BY TargetsInitInv DEF Init
  <1>2. TypeOK
    BY <1>1 DEF Init, TypeOK, DbTypeOK, TargetsInv
  <1>3. LockInv
    BY NoneIsNoSession DEF Init, LockInv, HoldsLock, Idle
  <1>4. RequestInv
    BY DEF Init, RequestInv, Sound, Idle
  <1>5. VerdictHasAuthority /\ KeyDecidedOnce
    BY DEF Init, VerdictHasAuthority, KeyDecidedOnce
  <1> QED BY <1>1, <1>2, <1>3, <1>4, <1>5 DEF Inv

LEMMA StepInv == Inv /\ [Next]_vars => Inv'
  <1> SUFFICES ASSUME Inv, [Next]_vars PROVE Inv'
    OBVIOUS
  <1>1. ASSUME NEW e \in Epoch, CreateEpoch(e)
        PROVE  Inv'
    BY <1>1, CreateEpochKeepsInv
  <1>2. ASSUME NEW e \in Epoch, NEW status \in {"pending", "success", "sha_mismatch"},
               PipelineHook(e, status)
        PROVE  Inv'
    BY <1>2, PipelineHookKeepsInv
  <1>3. ASSUME NEW s \in Session, NEW e \in Epoch, AgentCreate(s, e)
        PROVE  Inv'
    BY <1>3, AgentCreateKeepsInv
  <1>4. ASSUME NEW s \in Session, NEW e \in Epoch, ApproveLoad(s, e) \/ IssueLoad(s, e)
        PROVE  Inv'
    BY <1>4, StartKeepsInv DEF ApproveLoad, IssueLoad, Executing
  <1>5. ASSUME NEW s \in Session, NEW e \in Epoch, NEW k \in Key, ExecuteLoad(s, e, k)
        PROVE  Inv'
    BY <1>5, StartKeepsInv DEF ExecuteLoad
  <1>6. ASSUME NEW s \in Session, NEW e \in Epoch, NEW k \in Key, NEW token \in grants,
               AgentExecuteLoad(s, e, k, token)
        PROVE  Inv'
    <2>1. token \in Token
      BY DEF Inv, TypeOK, DbTypeOK
    <2> QED BY <1>6, <2>1, StartKeepsInv DEF AgentExecuteLoad, verify_capability
  <1>7. ASSUME NEW s \in Session,
               \/ AgentChange(s)
               \/ ApproveCommit(s) \/ ApproveReturn(s)
               \/ IssueGrant(s) \/ IssuePolicyRefusal(s) \/ IssueRefuse(s)
               \/ ExecuteCall(s) \/ ExecuteReturn(s)
               \/ ExecutorAnswer(s) \/ ExecutorFail(s)
               \/ ExecuteCommit(s) \/ ExecuteConflict(s) \/ RequestFails(s)
        PROVE  Inv'
    BY <1>7, AgentChangeKeepsInv, ApproveCommitKeepsInv, IssueKeepsInv, ReturnKeepsInv,
       ExecuteCallKeepsInv, ExecutorAnswerKeepsInv, ExecuteCommitKeepsInv
  <1>8. CASE Tick
    BY <1>8, TickKeepsInv
  <1>9. CASE Crash
    BY <1>9, CrashKeepsInv
  <1>10. CASE TargetStep
    BY <1>10, TargetStepKeepsInv
  <1>11. CASE UNCHANGED vars
    <2>1. now' \in Nat /\ UNCHANGED <<ses, lock, tvars, receipts>> /\ DbTypeOK' /\ Grows
      BY <1>11, DbUnchanged DEF vars, Inv, TypeOK, db
    <2> QED BY <2>1, DatabaseStepKeepsInv
  <1> QED BY <1>1, <1>2, <1>3, <1>4, <1>5, <1>6, <1>7, <1>8, <1>9, <1>10, <1>11 DEF Next

LEMMA Invariant == Spec => []Inv
  <1> QED BY InitInv, StepInv, PTL DEF Spec

(* Every variable keeps its type, the rows an execution leaves behind      *)
(* included.                                                               *)
THEOREM TypeCorrect == Spec => []TypeOK
  <1>1. Inv => TypeOK
    BY DEF Inv
  <1> QED BY <1>1, Invariant, PTL

(* execute_epoch commits no receipt that neither a human approval of the   *)
(* very fingerprint nor the policy, with a recorded change and a live      *)
(* capability, stands behind: for every executor, with stale snapshots,    *)
(* crashes and failures, with or without row locks.                        *)
THEOREM VerdictsHaveAuthority == Spec => []VerdictHasAuthority
  <1>1. Inv => VerdictHasAuthority
    BY DEF Inv
  <1> QED BY <1>1, Invariant, PTL

(* An idempotency key decides an epoch at most once.                       *)
THEOREM KeysDecideOnce == Spec => []KeyDecidedOnce
  <1>1. Inv => KeyDecidedOnce
    BY DEF Inv
  <1> QED BY <1>1, Invariant, PTL

(* With row locks a row is locked by the execution that waits for the      *)
(* executor or holds its answer, and by nobody else: every way out of a    *)
(* handler, a crash included, releases it.                                 *)
THEOREM LocksAreHeldByExecutions == Spec => []LockInv
  <1>1. Inv => LockInv
    BY DEF Inv
  <1> QED BY <1>1, Invariant, PTL

(* What a request has checked still holds when it uses it.                 *)
THEOREM RequestsAreSound == Spec => []RequestInv
  <1>1. Inv => RequestInv
    BY DEF Inv
  <1> QED BY <1>1, Invariant, PTL

----------------------------------------------------------------------------
(* The targets inside the orchestrator.                                    *)

(* A crash of the orchestrator drops its observations, if it has any.      *)
LEMMA CrashOfTargets ==
  ASSUME Inv, Crash
  PROVE  TargetsCrash \/ UNCHANGED tvars
  <1>1. DropObservations /\ Unreliable /\ UNCHANGED <<live, store, committed>>
    BY DEF Crash
  <1>2. obs \in [Observer -> Observation \cup {IdleObs}]
    BY DEF Inv, TargetsInv, TargetsTypeOK
  <1>3. CASE \E o \in Observer : obs[o].step \in {"read", "sent", "applied"}
    BY <1>1, <1>3 DEF TargetsCrash
  <1>4. CASE \A o \in Observer : obs[o].step \notin {"read", "sent", "applied"}
    <2>1. ASSUME NEW o \in Observer
          PROVE  obs'[o] = obs[o]
      <3>1. CASE obs[o] = IdleObs
        BY <1>1, <3>1 DEF DropObservations, IdleObs
      <3>2. CASE obs[o] \in Observation
        <4>1. obs[o].step = "late"
          BY <1>4, <3>2 DEF Observation, Step
        <4>2. obs'[o] = [obs[o] EXCEPT !.step = "late"]
          BY <1>1, <4>1 DEF DropObservations
        <4> QED BY <3>2, <4>1, <4>2 DEF Observation
      <3> QED BY <1>2, <3>1, <3>2
    <2>2. obs' \in [Observer -> Observation \cup {IdleObs}]
      BY <1>1, <1>2, <2>1 DEF DropObservations
    <2>3. obs' = obs
      BY <1>2, <2>1, <2>2
    <2> QED BY <1>1, <2>3 DEF tvars
  <1> QED BY <1>3, <1>4

(* What Targets promises of upsert_target, demo_drift and the executor's   *)
(* store, its runs and theorems included, holds inside the orchestrator:   *)
(* no handler of the lifecycle, no execution and no crash between them     *)
(* does to the targets what Targets does not allow.                        *)
THEOREM OrchestratorRunsTargets == Spec => TargetsInit /\ [][TargetsNext]_tvars
  <1>1. Init => TargetsInit
    BY DEF Init
  <1>2. Inv /\ [Next]_vars => [TargetsNext]_tvars
    <2> SUFFICES ASSUME Inv, [Next]_vars
                 PROVE  TargetsNext \/ UNCHANGED tvars
      OBVIOUS
    <2>1. CASE Crash
      BY <2>1, CrashOfTargets DEF TargetsNext
    <2>2. CASE TargetStep
      BY <2>2 DEF TargetStep, TargetsNext
    <2>3. UNCHANGED tvars \/ Crash \/ TargetStep
      BY DEF Next, vars, CreateEpoch, PipelineHook, AgentCreate, ApproveLoad, IssueLoad,
             ExecuteLoad, AgentExecuteLoad, Start, AgentChange, ApproveCommit,
             ApproveReturn, IssueGrant, IssuePolicyRefusal, IssueRefuse, ExecuteCall,
             ExecuteReturn, ExecutorAnswer, ExecutorFail, ExecuteCommit,
             ExecuteConflict, RequestFails, Tick, Finish
    <2> QED BY <2>1, <2>2, <2>3
  <1> QED BY <1>1, <1>2, Invariant, PTL DEF Spec
=============================================================================
