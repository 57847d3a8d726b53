---------------------------- MODULE Orchestrator ----------------------------
(***************************************************************************)
(* The epoch lifecycle of the orchestrator: creation, pipeline evidence,   *)
(* human approval, capability issuance and execution against the live      *)
(* target, as worker threads over one database and one executor.           *)
(*                                                                         *)
(* A handler first loads the epoch (_epoch_or_404), then runs SELECT ...   *)
(* FOR UPDATE on its row.  The session keeps the object it loaded: the     *)
(* locking query returns it without refreshing its columns, so state and   *)
(* pipeline_status are those of the load (ses[s].row), while receipts,     *)
(* approvals and targets are queried afresh under the lock.  Everything a  *)
(* handler writes becomes visible in one commit, which releases the lock.  *)
(*                                                                         *)
(* An epoch's identity, action and change request payload never change and *)
(* are constants; a fingerprint stands for the identity it digests.        *)
(***************************************************************************)
EXTENDS Policy, Targets, FiniteSets

CONSTANTS
  Epoch, Session, Key,
  Executor,   \* settings.executor_mode and the Go program behind it
  RowLocks,   \* TRUE: PostgreSQL; FALSE: SQLite, which ignores FOR UPDATE
  TargetOf,   \* the (project, environment) of an epoch
  ReleaseOf,  \* the release an epoch deploys
  ActionOf,   \* the action an agent asks for, None for a human's epoch
  EnvOf,      \* the environment of a target
  TTL,        \* lifetime of a capability, in ticks
  MaxTime     \* bound on the clock

ASSUME PayloadTypes ==
  /\ TargetOf \in [Epoch -> Target]
  /\ ReleaseOf \in [Epoch -> Release]
ASSUME ExecutorModes ==
  /\ Executor \in {"local", "stdlib", "gin"}
  /\ Remote = (Executor # "local")
  /\ RowLocks \in BOOLEAN
ASSUME TimeBounds == TTL \in Nat \ {0} /\ MaxTime \in Nat
ASSUME NoneIsNoSession == None \notin Session
ASSUME FinitelyManyWorkers == IsFiniteSet(Session)

VARIABLES
  epochs,     \* epochs[e]: the row of deployment_epochs, or Absent
  changed,    \* changed[e]: the change request of e is recorded
  approval,   \* approval[e]: the approved fingerprint, or None
  receipts,   \* the execution receipts
  outbox,     \* outbox[e]: number of deployment.execution events queued
  grants,     \* the capabilities issued
  passport,   \* passport[e]: the types of the passport events of e
  lock,       \* lock[e]: the session that holds the row lock of e, or None
  ses,        \* ses[s]: the request that worker s serves
  now         \* the clock of orchestrator and executor

db == <<epochs, changed, approval, receipts, outbox, grants, passport>>
vars == <<db, lock, ses, now, tvars>>

----------------------------------------------------------------------------
Verdict == {"EXECUTED", "DENIED_STALE"}
Row == [state: {"DRAFT", "APPROVED"} \cup Verdict,
        pipeline: {"pending", "success", "sha_mismatch"}]  \* pending: any other status
Absent == [state |-> "ABSENT", pipeline |-> "pending"]
Fingerprint(e) == [target |-> TargetOf[e], release |-> ReleaseOf[e]]
ASSUME NoneIsNoFingerprint == \A e \in Epoch : None # Fingerprint(e)
Event == {"EPOCH_CREATED", "CHANGE_REQUESTED", "PIPELINE_VERIFIED", "PIPELINE_REJECTED",
          "APPROVED", "POLICY_EVALUATED", "CAPABILITY_ISSUED"} \cup Verdict
Token == [epoch: Epoch, exp: Nat]
Answer == [outcome: Verdict, observed: Release, at: Nat]
Receipt == [epoch: Epoch, key: Key, by: {"human", "agent"}, outcome: Verdict,
            observed: Release, at: Nat]

Policy(e) == evaluate_policy("ai_agent", ActionOf[e], EnvOf[TargetOf[e]])
Allowed(e) == Policy(e).decision = "ALLOW"

(* A request: "loaded" has read the epoch, "calling" holds the lock and    *)
(* waits for the executor, "answered" has its verdict; "created" is an     *)
(* agent's change between its two commits.                                 *)
Idle == [pc |-> "idle"]
Request == [pc: {"loaded", "calling", "answered", "created"},
            op: {"approve", "issue", "human", "agent", "change"},
            epoch: Epoch, row: Row, key: Key \cup {None}, token: Token \cup {None},
            seen: Release \cup {None}, answer: Answer \cup {None}]

Serving(s, pc, ops) == ses[s].pc = pc /\ ses[s].op \in ops
Executing == {"human", "agent"}
Exists(e) == epochs[e] # Absent
HasKey(e, k) == \E r \in receipts : r.epoch = e /\ r.key = k
Receipts(e) == {r \in receipts : r.epoch = e}
Live(token) == token.exp > now

Init ==
  /\ epochs = [e \in Epoch |-> Absent]
  /\ changed = [e \in Epoch |-> FALSE]
  /\ approval = [e \in Epoch |-> None]
  /\ receipts = {}
  /\ outbox = [e \in Epoch |-> 0]
  /\ grants = {}
  /\ passport = [e \in Epoch |-> {}]
  /\ lock = [e \in Epoch |-> None]
  /\ ses = [s \in Session |-> Idle]
  /\ now = 0
  /\ TargetsInit

----------------------------------------------------------------------------
(* Steps every handler is made of.                                         *)

Record(e, events) == passport' = [passport EXCEPT ![e] = @ \cup events]

Start(s, op, e, k, token) ==
  /\ ses[s] = Idle
  /\ Exists(e)
  /\ ses' = [ses EXCEPT ![s] =
       [pc |-> "loaded", op |-> op, epoch |-> e, row |-> epochs[e], key |-> k,
        token |-> token, seen |-> None, answer |-> None]]
  /\ UNCHANGED <<db, lock, now, tvars>>

(* Slip: a plain SELECT.                                                   *)
LockFree_PlainSelect(e) == TRUE

(* SELECT ... FOR UPDATE returns: nobody holds the row.                    *)
LockFree(e) == lock[e] = None
Locked(s, ops) == Serving(s, "loaded", ops) /\ LockFree(ses[s].epoch)

(* Slip: the session is never closed.                                      *)
Unlock_Leaks(s) == UNCHANGED lock

Unlock(s) == lock' = [e \in Epoch |-> IF lock[e] = s THEN None ELSE lock[e]]

(* The handler answers or raises; its session closes.                      *)
Finish(s) ==
  /\ ses' = [ses EXCEPT ![s] = Idle]
  /\ Unlock(s)
  /\ UNCHANGED <<now, tvars>>

----------------------------------------------------------------------------
(* POST /api/epochs: create_epoch, one commit.                             *)
CreateEpoch(e) ==
  /\ ActionOf[e] = None
  /\ ~Exists(e)
  /\ epochs' = [epochs EXCEPT ![e] = [state |-> "DRAFT", pipeline |-> "pending"]]
  /\ Record(e, {"EPOCH_CREATED"})
  /\ UNCHANGED <<changed, approval, receipts, outbox, grants, lock, ses, now, tvars>>

(* POST /api/agent/changes: create_epoch commits, then                     *)
(* create_change_request commits; the epoch is visible in between.         *)
AgentCreate(s, e) ==
  /\ ses[s] = Idle
  /\ ActionOf[e] # None
  /\ ~Exists(e)
  /\ LET row == [state |-> "DRAFT", pipeline |-> "pending"]
     IN /\ epochs' = [epochs EXCEPT ![e] = row]
        /\ ses' = [ses EXCEPT ![s] =
             [pc |-> "created", op |-> "change", epoch |-> e, row |-> row,
              key |-> None, token |-> None, seen |-> None, answer |-> None]]
  /\ Record(e, {"EPOCH_CREATED"})
  /\ UNCHANGED <<changed, approval, receipts, outbox, grants, lock, now, tvars>>

(* The foreign key of the new row needs the epoch's row lock shared.       *)
AgentChange(s) ==
  /\ Serving(s, "created", {"change"})
  /\ LockFree(ses[s].epoch)
  /\ changed' = [changed EXCEPT ![ses[s].epoch] = TRUE]
  /\ Record(ses[s].epoch, {"CHANGE_REQUESTED"})
  /\ UNCHANGED <<epochs, approval, receipts, outbox, grants>>
  /\ Finish(s)

(* The GitLab webhook: a new status for the pipeline of e, "sha_mismatch"  *)
(* when the pipeline ran another commit.  Its UPDATE waits for the lock.   *)
PipelineHook(e, status) ==
  /\ Exists(e)
  /\ status # epochs[e].pipeline
  /\ LockFree(e)
  /\ epochs' = [epochs EXCEPT ![e].pipeline = status]
  /\ Record(e, CASE status = "success" -> {"PIPELINE_VERIFIED"}
                 [] status = "sha_mismatch" -> {"PIPELINE_REJECTED"}
                 [] status = "pending" -> {})
  /\ UNCHANGED <<changed, approval, receipts, outbox, grants, lock, ses, now, tvars>>

----------------------------------------------------------------------------
(* POST /api/epochs/{id}/approve: approve_epoch.                           *)
ApproveLoad(s, e) == Start(s, "approve", e, None, None)

(* Slip: an existing approval is not looked up.                            *)
MayApprove_Again(s) == ses[s].row.pipeline = "success"

MayApprove(s) ==
  /\ ses[s].row.pipeline = "success"
  /\ approval[ses[s].epoch] = None

ApproveCommit(s) ==
  /\ Locked(s, {"approve"})
  /\ MayApprove(s)
  /\ LET e == ses[s].epoch
     IN /\ approval' = [approval EXCEPT ![e] = Fingerprint(e)]
        /\ epochs' = [epochs EXCEPT ![e].state = "APPROVED"]
        /\ Record(e, {"APPROVED"})
  /\ UNCHANGED <<changed, receipts, outbox, grants>>
  /\ Finish(s)

(* 409 without a verified pipeline, or the approval that exists already.   *)
ApproveReturn(s) ==
  /\ Locked(s, {"approve"})
  /\ ~MayApprove(s)
  /\ UNCHANGED db
  /\ Finish(s)

----------------------------------------------------------------------------
(* POST /api/epochs/{id}/capabilities: issue_execution_capability.         *)
IssueLoad(s, e) == Start(s, "issue", e, None, None)

Approved(s) == approval[ses[s].epoch] = Fingerprint(ses[s].epoch)

(* Slip: the pipeline is not looked at.                                    *)
MayAsk_AnyPipeline(s) == changed[ses[s].epoch]

(* Slip: the change request is not looked at.                              *)
MayAsk_NoChange(s) == ses[s].row.pipeline = "success"

MayAsk(s) == changed[ses[s].epoch] /\ ses[s].row.pipeline = "success"

(* Slip: ASK is treated like ALLOW.                                        *)
Entitled_NoApproval(s) == Policy(ses[s].epoch).decision # "DENY"

Entitled(s) ==
  LET decision == Policy(ses[s].epoch).decision
  IN /\ decision # "DENY"
     /\ decision = "ASK" => ses[s].row.state = "APPROVED" /\ Approved(s)

IssueGrant(s) ==
  /\ Locked(s, {"issue"})
  /\ MayAsk(s)
  /\ Entitled(s)
  /\ grants' = grants \cup {[epoch |-> ses[s].epoch, exp |-> now + TTL]}
  /\ Record(ses[s].epoch, {"POLICY_EVALUATED", "CAPABILITY_ISSUED"})
  /\ UNCHANGED <<epochs, changed, approval, receipts, outbox>>
  /\ Finish(s)

(* The decision is recorded even when it refuses (403 or 409).             *)
IssuePolicyRefusal(s) ==
  /\ Locked(s, {"issue"})
  /\ MayAsk(s)
  /\ ~Entitled(s)
  /\ Record(ses[s].epoch, {"POLICY_EVALUATED"})
  /\ UNCHANGED <<epochs, changed, approval, receipts, outbox, grants>>
  /\ Finish(s)

IssueRefuse(s) ==
  /\ Locked(s, {"issue"})
  /\ ~MayAsk(s)
  /\ UNCHANGED db
  /\ Finish(s)

----------------------------------------------------------------------------
(* POST /api/epochs/{id}/execute and /api/agent/epochs/{id}/execute:       *)
(* execute_epoch, which execute_agent_epoch calls once the change request, *)
(* the capability and the policy admit the agent; when they do not, the    *)
(* request ends without an effect.                                         *)
ExecuteLoad(s, e, k) == Start(s, "human", e, k, None)

(* Slip: the scope of the capability is not compared with the epoch.       *)
verify_capability_AnyScope(token, e) == Live(token)

verify_capability(token, e) == token.epoch = e /\ Live(token)

AgentExecuteLoad(s, e, k, token) ==
  /\ changed[e]
  /\ verify_capability(token, e)
  /\ Policy(e).decision # "DENY"
  /\ Start(s, "agent", e, k, token)

(* Slip: the policy is asked whoever executes.                             *)
Autonomous_AnyCaller(s) == Allowed(ses[s].epoch)

(* policy_allows_without_approval *)
Autonomous(s) == ses[s].op = "agent" /\ Policy(ses[s].epoch).decision = "ALLOW"

(* Slip: a terminal state does not refuse.                                 *)
MayStart_AnyState(s) ==
  /\ Autonomous(s) \/ Approved(s)
  /\ live[TargetOf[ses[s].epoch]] # None

MayStart(s) ==
  /\ \/ ses[s].row.state = "APPROVED"
     \/ Autonomous(s) /\ ses[s].row.state = "DRAFT"
  /\ Autonomous(s) \/ Approved(s)
  /\ live[TargetOf[ses[s].epoch]] # None

(* Slip: neither the lookup nor the constraint on the key.                 *)
KeyFresh_Unchecked(s) == TRUE

KeyFresh(s) == ~HasKey(ses[s].epoch, ses[s].key)

(* The executor is called with the row locked.                             *)
ExecuteCall(s) ==
  /\ Locked(s, Executing)
  /\ KeyFresh(s)
  /\ MayStart(s)
  /\ ses' = [ses EXCEPT ![s] =
       [@ EXCEPT !.pc = "calling", !.seen = live[TargetOf[ses[s].epoch]]]]
  /\ lock' = IF RowLocks THEN [lock EXCEPT ![ses[s].epoch] = s] ELSE lock
  /\ UNCHANGED <<db, now, tvars>>

(* The receipt of the key is replayed, or the state, the approval or the   *)
(* missing target refuses (409).                                           *)
ExecuteReturn(s) ==
  /\ Locked(s, Executing)
  /\ ~KeyFresh(s) \/ ~MayStart(s)
  /\ UNCHANGED db
  /\ Finish(s)

(* What the executor compares with: its own entry, or for the local client *)
(* the row the orchestrator read.                                          *)
Observed(s) == IF Remote THEN store[TargetOf[ses[s].epoch]] ELSE ses[s].seen

(* An agent's context at the executor: the local client verifies the       *)
(* capability again, the Gin executor, over either transport, also wants   *)
(* the action "deploy", and the stdlib one rejects any context as an       *)
(* unknown field.                                                          *)
LocalAccepts(s) == verify_capability(ses[s].token, ses[s].epoch)

(* Slip: the expiry is not verified again at the executor.                 *)
GinAccepts_Expired(s) == ActionOf[ses[s].epoch] = "deploy"

GinAccepts(s) ==
  /\ ActionOf[ses[s].epoch] = "deploy"
  /\ verify_capability(ses[s].token, ses[s].epoch)

ContextAccepted(s) ==
  ses[s].op = "agent" =>
    CASE Executor = "local" -> LocalAccepts(s)
      [] Executor = "gin" -> GinAccepts(s)
      [] Executor = "stdlib" -> FALSE

(* Slip: only project and environment are compared.                        *)
Compare_TargetOnly(expected, observed) == "EXECUTED"

(* Slip: an outcome the orchestrator does not know.                        *)
Compare_Renamed(expected, observed) == IF observed = expected THEN "EXECUTED" ELSE "DENIED"

Compare(expected, observed) == IF observed = expected THEN "EXECUTED" ELSE "DENIED_STALE"

ExecutorAnswer(s) ==
  /\ Serving(s, "calling", Executing)
  /\ ContextAccepted(s)
  /\ Observed(s) # None
  /\ ses' = [ses EXCEPT ![s] =
       [@ EXCEPT !.pc = "answered",
                 !.answer = [outcome |-> Compare(ReleaseOf[ses[s].epoch], Observed(s)),
                             observed |-> Observed(s), at |-> now]]]
  /\ UNCHANGED <<db, lock, now, tvars>>

(* 502: refused by the executor, no entry there, or the RPC failed.        *)
ExecutorFail(s) ==
  /\ Serving(s, "calling", Executing)
  /\ (Remote /\ Unreliable) \/ ~ContextAccepted(s) \/ Observed(s) = None
  /\ UNCHANGED db
  /\ Finish(s)

NewReceipt(s) ==
  [epoch |-> ses[s].epoch, key |-> ses[s].key, by |-> ses[s].op,
   outcome |-> ses[s].answer.outcome, observed |-> ses[s].answer.observed,
   at |-> ses[s].answer.at]

(* Slip: the outbox event is forgotten.                                    *)
ExecuteCommit_NoOutbox(s) ==
  /\ Serving(s, "answered", Executing)
  /\ KeyFresh(s)
  /\ LET e == ses[s].epoch
     IN /\ receipts' = receipts \cup {NewReceipt(s)}
        /\ epochs' = [epochs EXCEPT ![e].state = ses[s].answer.outcome]
        /\ Record(e, {ses[s].answer.outcome})
  /\ UNCHANGED <<changed, approval, grants, outbox>>
  /\ Finish(s)

ExecuteCommit(s) ==
  /\ Serving(s, "answered", Executing)
  /\ KeyFresh(s)
  /\ LET e == ses[s].epoch
     IN /\ receipts' = receipts \cup {NewReceipt(s)}
        /\ epochs' = [epochs EXCEPT ![e].state = ses[s].answer.outcome]
        /\ outbox' = [outbox EXCEPT ![e] = @ + 1]
        /\ Record(e, {ses[s].answer.outcome})
  /\ UNCHANGED <<changed, approval, grants>>
  /\ Finish(s)

(* The unique (epoch_id, idempotency_key) constraint refuses the receipt.  *)
ExecuteConflict(s) ==
  /\ Serving(s, "answered", Executing)
  /\ ~KeyFresh(s)
  /\ UNCHANGED db
  /\ Finish(s)

----------------------------------------------------------------------------
Tick ==
  /\ now < MaxTime
  /\ now' = now + 1
  /\ UNCHANGED <<db, lock, ses, tvars>>

(* A statement or a commit fails, or the connection breaks: the handler    *)
(* ends with 500 and its transaction is undone.  What it has committed     *)
(* before stays: of an agent's change the epoch, without its request.      *)
RequestFails(s) ==
  /\ Unreliable
  /\ ses[s] # Idle
  /\ UNCHANGED db
  /\ Finish(s)

(* The orchestrator dies: its transactions are undone, their locks freed.  *)
Crash ==
  /\ Unreliable
  /\ (\E s \in Session : ses[s] # Idle) \/ (\E o \in Observer : Handling(o))
  /\ ses' = [s \in Session |-> Idle]
  /\ lock' = [e \in Epoch |-> None]
  /\ DropObservations
  /\ UNCHANGED <<db, now, live, store, committed>>

TargetStep == ObserversNext /\ UNCHANGED <<db, lock, ses, now>>

Next ==
  \/ \E e \in Epoch :
       \/ CreateEpoch(e)
       \/ \E status \in {"pending", "success", "sha_mismatch"} : PipelineHook(e, status)
  \/ \E s \in Session, e \in Epoch :
       \/ AgentCreate(s, e) \/ ApproveLoad(s, e) \/ IssueLoad(s, e)
       \/ \E k \in Key :
            \/ ExecuteLoad(s, e, k)
            \/ \E token \in grants : AgentExecuteLoad(s, e, k, token)
  \/ \E s \in Session :
       \/ AgentChange(s)
       \/ ApproveCommit(s) \/ ApproveReturn(s)
       \/ IssueGrant(s) \/ IssuePolicyRefusal(s) \/ IssueRefuse(s)
       \/ ExecuteCall(s) \/ ExecuteReturn(s)
       \/ ExecutorAnswer(s) \/ ExecutorFail(s)
       \/ ExecuteCommit(s) \/ ExecuteConflict(s)
       \/ RequestFails(s)
  \/ Tick
  \/ Crash
  \/ TargetStep

Spec == Init /\ [][Next]_vars

----------------------------------------------------------------------------
DbTypeOK ==
  /\ epochs \in [Epoch -> Row \cup {Absent}]
  /\ changed \in [Epoch -> BOOLEAN]
  /\ approval \in [Epoch -> {None} \cup {Fingerprint(e) : e \in Epoch}]
  /\ \A e \in Epoch : approval[e] \in {None, Fingerprint(e)}
  /\ receipts \subseteq Receipt
  /\ outbox \in [Epoch -> Nat]
  /\ grants \subseteq Token
  /\ passport \in [Epoch -> SUBSET Event]

TypeOK ==
  /\ DbTypeOK
  /\ lock \in [Epoch -> Session \cup {None}]
  /\ ses \in [Session -> Request \cup {Idle}]
  /\ now \in Nat
  /\ TargetsTypeOK

(* What the requests under way know (the inductive strengthening of the    *)
(* properties below): with row locks an execution holds the lock of its    *)
(* epoch and nobody else does; a request is about an epoch that exists, an *)
(* execution carries a key and, an agent's one, a granted capability of    *)
(* its epoch; past its checks it has authority, and an agent got its       *)
(* answer while the capability was alive.                                  *)
HoldsLock(s, e) == ses[s].pc \in {"calling", "answered"} /\ ses[s].epoch = e
LockInv == RowLocks => \A s \in Session, e \in Epoch : lock[e] = s <=> HoldsLock(s, e)

Carried(s) ==
  /\ ses[s].op \in Executing => ses[s].key \in Key
  /\ ses[s].op = "agent" =>
       ses[s].token \in grants /\ ses[s].token.epoch = ses[s].epoch /\ changed[ses[s].epoch]
Sound(s) ==
  /\ ses[s] # Idle => Exists(ses[s].epoch)
  /\ ses[s].pc \in {"loaded", "calling", "answered"} => Carried(s)
  /\ ses[s].pc \in {"calling", "answered"} =>
       /\ ses[s].op \in Executing
       /\ Autonomous(s) \/ Approved(s)
  /\ ses[s].pc = "answered" =>
       /\ ses[s].answer \in Answer
       /\ ses[s].op = "agent" => ses[s].answer.at < ses[s].token.exp
RequestInv == \A s \in Session : Sound(s)

(* An execution holds the row lock of its epoch and nothing else does      *)
(* (with row locks), so a second receipt for a key that passed the check   *)
(* under the lock never meets the unique constraint: the replay of a       *)
(* retried request is an answer, not an error (test_api.py 84).            *)
KeyStaysFresh ==
  RowLocks => \A s \in Session : ses[s].pc \in {"calling", "answered"} => KeyFresh(s)

(* An idempotency key gets one verdict per epoch, however often and        *)
(* however concurrently it is sent, with or without row locks.             *)
KeyDecidedOnce ==
  \A r, q \in receipts : r.epoch = q.epoch /\ r.key = q.key => r = q

(* No verdict without authority: a human approved the very fingerprint, or *)
(* the policy allows the agent's recorded change and a capability for this *)
(* epoch was alive when the executor answered.                             *)
VerdictHasAuthority ==
  \A r \in receipts :
    \/ approval[r.epoch] = Fingerprint(r.epoch)
    \/ /\ r.by = "agent" /\ changed[r.epoch] /\ Allowed(r.epoch)
       /\ \E g \in grants : g.epoch = r.epoch /\ r.at < g.exp

(* Each control the policy engine lists for an agent's change was in place *)
(* when the agent got a verdict.                                           *)
InPlace(control, r) ==
  CASE control = "verified-pipeline" -> "PIPELINE_VERIFIED" \in passport[r.epoch]
    [] control = "human-approval" -> approval[r.epoch] = Fingerprint(r.epoch)
    [] control = "scoped-capability" -> \E g \in grants : g.epoch = r.epoch /\ r.at < g.exp
    [] control = "manual-operator" -> FALSE
AgentUnderRequiredControls ==
  \A r \in receipts : r.by = "agent" =>
    \A control \in Policy(r.epoch).controls : InPlace(control, r)

(* An agent's change is two commits (main.py 128 and 129).  When a crash   *)
(* or a failure halves it, the epoch that stays serves no agent, although  *)
(* its pipeline may succeed and a human may approve it: it gets no         *)
(* capability, and each of its verdicts answers a human over an approval.  *)
HalfChangeServesNoAgent ==
  \A e \in Epoch : ~changed[e] =>
    /\ \A g \in grants : g.epoch # e
    /\ \A r \in Receipts(e) : r.by = "human" /\ approval[e] = Fingerprint(e)

(* The passport tells a causal story: approval and capability come after   *)
(* a verified pipeline, a capability after the policy evaluation, the      *)
(* change it serves and, where the policy asks, the approval, a verdict    *)
(* after an approval or a capability.  (Each prefix of a passport is the   *)
(* passport of an earlier state.)                                          *)
PassportCausality ==
  \A e \in Epoch : \A event \in passport[e] :
    CASE event = "APPROVED" -> {"EPOCH_CREATED", "PIPELINE_VERIFIED"} \subseteq passport[e]
      [] event = "CAPABILITY_ISSUED" ->
           /\ {"CHANGE_REQUESTED", "PIPELINE_VERIFIED", "POLICY_EVALUATED"} \subseteq passport[e]
           /\ Policy(e).decision = "ASK" => "APPROVED" \in passport[e]
      [] event \in Verdict -> {"APPROVED", "CAPABILITY_ISSUED"} \cap passport[e] # {}
      [] OTHER -> TRUE

(* An EXECUTED verdict is about a release that somebody observed on the    *)
(* target and the database committed.  With the local client, which        *)
(* compares with the row, and two concurrent observers it need not be.     *)
ExecutedWasObserved ==
  \A r \in receipts :
    r.outcome = "EXECUTED" => ReleaseOf[r.epoch] \in committed[TargetOf[r.epoch]]

(* A terminal epoch gives new verdicts only to requests that had loaded it *)
(* before: it gets at most one verdict per worker thread, whatever number  *)
(* of keys is sent, and as many again if the policy let an agent execute   *)
(* it first and a human approves it afterwards.                            *)
VerdictsPerWorker ==
  \A e \in Epoch :
    LET rounds == IF Allowed(e) /\ approval[e] # None THEN 2 ELSE 1
    IN Cardinality(Receipts(e)) <= rounds * Cardinality(Session)

(* Once an approved epoch has its verdict, no step takes it back to a      *)
(* state from which it can be executed.                                    *)
ApprovedTerminalIsFinal ==
  [][\A e \in Epoch :
       approval[e] # None /\ epochs[e].state \in Verdict => epochs'[e].state \in Verdict]_vars

(* The orchestrator implements the ledger: every commit is one step of it, *)
(* every other step of a handler, the executor, the pipeline, a failure or *)
(* a crash leaves it alone.                                                *)
Ledger == INSTANCE EpochLedger WITH
  Unattended <- {e \in Epoch : Allowed(e)},
  state <- [e \in Epoch |-> epochs[e].state],
  approved <- [e \in Epoch |-> approval[e] # None],
  verdicts <- {[epoch |-> r.epoch, key |-> r.key, outcome |-> r.outcome] : r \in receipts},
  events <- outbox
ImplementsLedger == Ledger!LedgerSpec

----------------------------------------------------------------------------
(* What the documentation and the tests say of the program, and the runs   *)
(* of this project refute.                                                 *)

(* services.py 256: the row lock serialises the execution attempts of an   *)
(* epoch; test_api.py 110-118: a terminal epoch rejects a new key.         *)
OneVerdictPerApproval ==
  \A e \in Epoch : Cardinality(Receipts(e)) <= 1

(* services.py 60: an approval needs a pipeline that is verified and       *)
(* successful.                                                             *)
ApprovalNeedsVerifiedPipeline ==
  [][\A e \in Epoch :
       approval'[e] # approval[e] => epochs[e].pipeline = "success"]_vars

(* docs/verification.md 83: the execution result is terminal.              *)
TerminalIsFinal ==
  [][\A e \in Epoch : epochs[e].state \in Verdict => epochs'[e].state \in Verdict]_vars
=============================================================================
