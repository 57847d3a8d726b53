--------------------------- MODULE PassportProofs ---------------------------
(***************************************************************************)
(* Proofs that rest on the invariant of OrchestratorProofs: the passport   *)
(* tells a causal story, an agent's verdict has every control its policy   *)
(* lists behind it, half a change serves no agent, the workers bound the   *)
(* verdicts of an epoch, and stale rows are the one cause of a second      *)
(* verdict and of an unverified approval.                                  *)
(***************************************************************************)
EXTENDS LedgerProofs, FiniteSetTheorems

----------------------------------------------------------------------------
(* The inductive invariant: what each row, request, capability and receipt *)
(* has left in the passport of its epoch.                                  *)

EpochShown(e) ==
  /\ Exists(e) => "EPOCH_CREATED" \in passport[e]
  /\ epochs[e].pipeline = "success" => "PIPELINE_VERIFIED" \in passport[e]
  /\ changed[e] => "CHANGE_REQUESTED" \in passport[e]
  /\ approval[e] # None => "APPROVED" \in passport[e]

RequestShown(s) ==
  ses[s] # Idle /\ ses[s].row.pipeline = "success"
    => "PIPELINE_VERIFIED" \in passport[ses[s].epoch]

GrantShown(g) ==
  /\ "CAPABILITY_ISSUED" \in passport[g.epoch]
  /\ Policy(g.epoch).decision # "DENY"
  /\ Policy(g.epoch).decision = "ASK" => approval[g.epoch] = Fingerprint(g.epoch)

HasGrant(r) == r.by = "agent" => \E g \in grants : g.epoch = r.epoch /\ r.at < g.exp

(* PassportCausality, clause by clause, of one epoch.                      *)
Caused(e) ==
  /\ "APPROVED" \in passport[e] =>
       "EPOCH_CREATED" \in passport[e] /\ "PIPELINE_VERIFIED" \in passport[e]
  /\ "CAPABILITY_ISSUED" \in passport[e] =>
       /\ "CHANGE_REQUESTED" \in passport[e] /\ "PIPELINE_VERIFIED" \in passport[e]
       /\ "POLICY_EVALUATED" \in passport[e]
       /\ Policy(e).decision = "ASK" => "APPROVED" \in passport[e]
  /\ "EXECUTED" \in passport[e] \/ "DENIED_STALE" \in passport[e] =>
       "APPROVED" \in passport[e] \/ "CAPABILITY_ISSUED" \in passport[e]

PassportInv ==
  /\ \A e \in Epoch : EpochShown(e) /\ Caused(e)
  /\ \A s \in Session : RequestShown(s)
  /\ \A g \in grants : GrantShown(g)
  /\ \A r \in receipts : HasGrant(r)

----------------------------------------------------------------------------
(* The shapes of steps.                                                    *)

(* The steps that commit something.                                        *)
LEMMA DatabaseSteps ==
  ASSUME [Next]_vars
  PROVE  \/ UNCHANGED db
         \/ \E e \in Epoch : CreateEpoch(e)
         \/ \E e \in Epoch, status \in {"pending", "success", "sha_mismatch"} :
              PipelineHook(e, status)
         \/ \E s \in Session, e \in Epoch : AgentCreate(s, e)
         \/ \E s \in Session :
              \/ AgentChange(s) \/ ApproveCommit(s)
              \/ IssueGrant(s) \/ IssuePolicyRefusal(s) \/ ExecuteCommit(s)
  BY DEF Next, vars, ApproveLoad, IssueLoad, ExecuteLoad, AgentExecuteLoad, Start,
         ApproveReturn, IssueRefuse, ExecuteCall, ExecuteReturn, ExecutorAnswer,
         ExecutorFail, ExecuteConflict, RequestFails, Tick, Crash, TargetStep

(* The worker of a step that commits, and its epoch.                       *)
LEMMA CommittingRequest ==
  ASSUME Inv, NEW s \in Session,
         \/ AgentChange(s) \/ ApproveCommit(s)
         \/ IssueGrant(s) \/ IssuePolicyRefusal(s) \/ ExecuteCommit(s)
  PROVE  /\ ses[s] \in Request /\ ses[s] # Idle /\ ses[s].epoch \in Epoch
         /\ Exists(ses[s].epoch)
  <1>1. ses[s].pc \in {"loaded", "answered", "created"}
    BY DEF AgentChange, ApproveCommit, IssueGrant, IssuePolicyRefusal, ExecuteCommit,
           Locked, Serving
  <1>2. Sound(s)
    BY DEF Inv, RequestInv
  <1> QED BY <1>1, <1>2, ServedRequest DEF Inv, Sound

(* The row a request holds was committed when the request loaded it, or is *)
(* the one an agent's change has just written.                             *)
LEMMA RowsOfRequests ==
  ASSUME Inv, [Next]_vars, NEW s \in Session, ses'[s] # Idle
  PROVE  \/ /\ ses[s] # Idle
            /\ ses'[s].row = ses[s].row /\ ses'[s].epoch = ses[s].epoch
         \/ \E e \in Epoch : ses'[s].row = epochs[e] /\ ses'[s].epoch = e
         \/ ses'[s].row.pipeline = "pending"
  <1>1. ses \in [Session -> Request \cup {Idle}]
    BY DEF Inv, TypeOK
  <1>2. CASE ses'[s] = ses[s]
    BY <1>2
  <1>3. ASSUME NEW p \in Session, Finish(p)
        PROVE  ses'[s] = ses[s]
    BY <1>1, <1>3 DEF Finish
  <1>4. ASSUME NEW p \in Session, NEW e \in Epoch, NEW op, NEW k, NEW token,
               Start(p, op, e, k, token)
        PROVE  ses'[s] = ses[s] \/ (ses'[s].row = epochs[e] /\ ses'[s].epoch = e)
    BY <1>1, <1>4 DEF Start
  <1>5. ASSUME NEW p \in Session, NEW e \in Epoch, AgentCreate(p, e)
        PROVE  ses'[s] = ses[s] \/ ses'[s].row.pipeline = "pending"
    BY <1>1, <1>5 DEF AgentCreate
  <1>6. ASSUME NEW p \in Session, ExecuteCall(p) \/ ExecutorAnswer(p)
        PROVE  /\ ses[s] # Idle
               /\ ses'[s].row = ses[s].row /\ ses'[s].epoch = ses[s].epoch
    <2>1. CASE p # s
      BY <1>1, <1>6, <2>1 DEF ExecuteCall, ExecutorAnswer
    <2>2. CASE p = s
      <3>1. ses[s] \in Request /\ ses[s] # Idle
        BY <1>6, <2>2, ServedRequest DEF Inv, ExecuteCall, ExecutorAnswer, Locked, Serving
      <3>2. PICK seen, answer :
              \/ ses'[s] = [ses[s] EXCEPT !.pc = "calling", !.seen = seen]
              \/ ses'[s] = [ses[s] EXCEPT !.pc = "answered", !.answer = answer]
        BY <1>1, <1>6, <2>2 DEF ExecuteCall, ExecutorAnswer
      <3> QED BY <3>1, <3>2 DEF Request
    <2> QED BY <2>1, <2>2
  <1>7. CASE Crash
    BY <1>7 DEF Crash
  <1>8. \/ UNCHANGED ses
        \/ Crash
        \/ \E p \in Session : Finish(p) \/ ExecuteCall(p) \/ ExecutorAnswer(p)
        \/ \E p \in Session, e \in Epoch : AgentCreate(p, e)
        \/ \E p \in Session, e \in Epoch, op \in {"approve", "issue", "human", "agent"},
              k \in Key \cup {None}, token \in grants \cup {None} : Start(p, op, e, k, token)
    BY DEF Next, vars, CreateEpoch, PipelineHook, ApproveLoad, IssueLoad,
           ExecuteLoad, AgentExecuteLoad, AgentChange, ApproveCommit, ApproveReturn,
           IssueGrant, IssuePolicyRefusal, IssueRefuse, ExecuteReturn,
           ExecutorFail, ExecuteCommit, ExecuteConflict, RequestFails, Tick, TargetStep
  <1> QED BY <1>2, <1>3, <1>4, <1>5, <1>6, <1>7, <1>8

(* An event, an approval and a capability stay.                            *)
LEMMA FactsStay ==
  ASSUME Inv, [Next]_vars
  PROVE  /\ \A e \in Epoch : passport[e] \subseteq passport'[e]
         /\ \A e \in Epoch : approval[e] = Fingerprint(e) => approval'[e] = Fingerprint(e)
         /\ grants \subseteq grants'
  <1>1. passport \in [Epoch -> SUBSET Event] 
        /\ approval \in [Epoch -> {None} \cup {Fingerprint(e) : e \in Epoch}]
    BY DEF Inv, TypeOK, DbTypeOK
  <1>2. CASE UNCHANGED db
    BY <1>2 DEF db
  <1>3. ASSUME NEW e \in Epoch, NEW status, NEW s,
               CreateEpoch(e) \/ PipelineHook(e, status) \/ AgentCreate(s, e)
        PROVE  /\ \A f \in Epoch : passport[f] \subseteq passport'[f]
               /\ UNCHANGED <<approval, grants>>
    BY <1>1, <1>3 DEF CreateEpoch, PipelineHook, AgentCreate, Record
  <1>4. ASSUME NEW s \in Session,
               \/ AgentChange(s) \/ ApproveCommit(s)
               \/ IssueGrant(s) \/ IssuePolicyRefusal(s) \/ ExecuteCommit(s)
        PROVE  /\ \A f \in Epoch : passport[f] \subseteq passport'[f]
               /\ \/ UNCHANGED approval
                  \/ approval' = [approval EXCEPT ![ses[s].epoch] = Fingerprint(ses[s].epoch)]
               /\ grants \subseteq grants'
    BY <1>1, <1>4 DEF AgentChange, ApproveCommit, IssueGrant, IssuePolicyRefusal,
                       ExecuteCommit, Record
  <1> QED BY <1>1, <1>2, <1>3, <1>4, DatabaseSteps

LEMMA RequestShownStep ==
  ASSUME Inv, PassportInv, [Next]_vars, NEW s \in Session
  PROVE  RequestShown(s)'
  <1> SUFFICES ASSUME ses'[s] # Idle, ses'[s].row.pipeline = "success"
               PROVE  "PIPELINE_VERIFIED" \in passport'[ses'[s].epoch]
    BY DEF RequestShown
  <1>1. CASE ses[s] # Idle /\ ses'[s].row = ses[s].row /\ ses'[s].epoch = ses[s].epoch
    <2>1. ses[s].epoch \in Epoch
      BY <1>1 DEF Inv, TypeOK, Request
    <2> QED BY <1>1, <2>1, FactsStay DEF PassportInv, RequestShown
  <1>2. CASE \E e \in Epoch : ses'[s].row = epochs[e] /\ ses'[s].epoch = e
    BY <1>2, FactsStay DEF PassportInv, EpochShown
  <1> QED BY <1>1, <1>2, RowsOfRequests

----------------------------------------------------------------------------
(* The commits, one by one.                                                *)

(* What a commit about one epoch leaves to show: that epoch.               *)
LEMMA OtherEpochs ==
  ASSUME Inv, PassportInv, NEW e \in Epoch, NEW events, Record(e, events),
         \A f \in Epoch : f # e =>
           epochs'[f] = epochs[f] /\ changed'[f] = changed[f] /\ approval'[f] = approval[f],
         EpochShown(e)', Caused(e)'
  PROVE  \A f \in Epoch : EpochShown(f)' /\ Caused(f)'
  <1> SUFFICES ASSUME NEW f \in Epoch, f # e PROVE EpochShown(f)' /\ Caused(f)'
    OBVIOUS
  <1>1. passport'[f] = passport[f]
    BY DEF Record, Inv, TypeOK, DbTypeOK
  <1>2. EpochShown(f) /\ Caused(f)
    BY DEF PassportInv
  <1>3. EpochShown(f)'
    BY <1>1, <1>2 DEF EpochShown, Exists
  <1>4. Caused(f)'
    BY <1>1, <1>2 DEF Caused, Policy
  <1> QED BY <1>3, <1>4

LEMMA EpochsShownStep ==
  ASSUME Inv, PassportInv, [Next]_vars
  PROVE  \A e \in Epoch : EpochShown(e)' /\ Caused(e)'
  <1>1. passport \in [Epoch -> SUBSET Event] /\ epochs \in [Epoch -> Row \cup {Absent}]
        /\ changed \in [Epoch -> BOOLEAN]
        /\ approval \in [Epoch -> {None} \cup {Fingerprint(e) : e \in Epoch}]
    BY DEF Inv, TypeOK, DbTypeOK
  <1>2. CASE UNCHANGED db
    <2>1. \A e \in Epoch : EpochShown(e)'
      BY <1>2 DEF PassportInv, EpochShown, Exists, db
    <2>2. \A e \in Epoch : Caused(e)'
      BY <1>2 DEF PassportInv, Caused, Policy, db
    <2> QED BY <2>1, <2>2
  <1>3. ASSUME NEW e \in Epoch, NEW s, CreateEpoch(e) \/ AgentCreate(s, e)
        PROVE  \A f \in Epoch : EpochShown(f)' /\ Caused(f)'
    <2>1. /\ epochs' = [epochs EXCEPT ![e] = [state |-> "DRAFT", pipeline |-> "pending"]]
          /\ Record(e, {"EPOCH_CREATED"}) /\ UNCHANGED <<changed, approval>>
      BY <1>3 DEF CreateEpoch, AgentCreate
    <2>2. passport'[e] = passport[e] \cup {"EPOCH_CREATED"} /\ epochs'[e].pipeline = "pending"
      BY <1>1, <2>1 DEF Record
    <2>3. EpochShown(e)'
      BY <2>1, <2>2 DEF PassportInv, EpochShown
    <2>4. Caused(e)'
      BY <2>2 DEF PassportInv, Caused, Policy
    <2> QED BY <1>1, <2>1, <2>3, <2>4, OtherEpochs
  <1>4. ASSUME NEW e \in Epoch, NEW status \in {"pending", "success", "sha_mismatch"},
               PipelineHook(e, status)
        PROVE  \A f \in Epoch : EpochShown(f)' /\ Caused(f)'
    <2>1. PICK events :
            /\ events \in {{}, {"PIPELINE_VERIFIED"}, {"PIPELINE_REJECTED"}}
            /\ status = "success" => "PIPELINE_VERIFIED" \in events
            /\ Record(e, events)
      BY <1>4 DEF PipelineHook
    <2>2. Exists(e) /\ epochs[e] \in Row
      BY <1>1, <1>4 DEF PipelineHook, Exists
    <2>3. epochs'[e].pipeline = status
      BY <1>1, <1>4, <2>2 DEF PipelineHook, Row
    <2>4. passport'[e] = passport[e] \cup events
      BY <1>1, <2>1 DEF Record
    <2>5. EpochShown(e)'
      BY <1>4, <2>1, <2>2, <2>3, <2>4 DEF PassportInv, EpochShown, PipelineHook
    <2>6. Caused(e)'
      BY <2>1, <2>4 DEF PassportInv, Caused, Policy
    <2> QED BY <1>1, <1>4, <2>1, <2>5, <2>6, OtherEpochs DEF PipelineHook
  <1>5. ASSUME NEW s \in Session,
               \/ AgentChange(s) \/ ApproveCommit(s)
               \/ IssueGrant(s) \/ IssuePolicyRefusal(s) \/ ExecuteCommit(s)
        PROVE  \A f \in Epoch : EpochShown(f)' /\ Caused(f)'
    <2>1. PICK e \in Epoch :
            e = ses[s].epoch /\ ses[s] \in Request /\ ses[s] # Idle /\ Exists(e)
      BY <1>5, CommittingRequest
    <2>2. EpochShown(e) /\ Caused(e) /\ RequestShown(s) /\ Sound(s)
      BY <2>1 DEF PassportInv, Inv, RequestInv
    <2>3. \A f \in Epoch : f # e =>
           epochs'[f] = epochs[f] /\ changed'[f] = changed[f] /\ approval'[f] = approval[f]
      BY <1>1, <1>5, <2>1 DEF AgentChange, ApproveCommit, IssueGrant, IssuePolicyRefusal,
             ExecuteCommit
    <2>4. CASE AgentChange(s)
      <3>1. passport'[e] = passport[e] \cup {"CHANGE_REQUESTED"} /\ Record(e, {"CHANGE_REQUESTED"})
        BY <1>1, <2>1, <2>4 DEF AgentChange, Record
      <3>2. EpochShown(e)'
        BY <2>1, <2>2, <2>4, <3>1 DEF EpochShown, AgentChange, Exists
      <3>3. Caused(e)'
        BY <2>1, <2>2, <3>1 DEF Caused, Policy
      <3> QED BY <2>1, <2>3, <3>1, <3>2, <3>3, OtherEpochs
    <2>5. CASE ApproveCommit(s)
      <3>1. passport'[e] = passport[e] \cup {"APPROVED"} /\ Record(e, {"APPROVED"})
        BY <1>1, <2>1, <2>5 DEF ApproveCommit, Record
      <3>2. epochs'[e].pipeline = epochs[e].pipeline /\ UNCHANGED changed
        BY <1>1, <2>1, <2>5 DEF ApproveCommit, Row, Exists
      <3>3. EpochShown(e)'
        BY <2>1, <2>2, <3>1, <3>2 DEF EpochShown
      <3>4. "PIPELINE_VERIFIED" \in passport[e] /\ "EPOCH_CREATED" \in passport[e]
        BY <2>1, <2>2, <2>5 DEF RequestShown, EpochShown, ApproveCommit, MayApprove
      <3>5. Caused(e)'
        BY <2>1, <2>2, <3>1, <3>4 DEF Caused, Policy
      <3> QED BY <2>1, <2>3, <3>1, <3>3, <3>5, OtherEpochs
    <2>6. CASE IssueGrant(s) \/ IssuePolicyRefusal(s)
      <3>1. PICK events :
              /\ events \in {{"POLICY_EVALUATED", "CAPABILITY_ISSUED"}, {"POLICY_EVALUATED"}}
              /\ "CAPABILITY_ISSUED" \in events => Entitled(s)
              /\ Record(e, events)
        BY <2>1, <2>6 DEF IssueGrant, IssuePolicyRefusal
      <3>2. passport'[e] = passport[e] \cup events
        BY <1>1, <2>1, <3>1 DEF Record
      <3>3. EpochShown(e)'
        BY <2>1, <2>2, <2>6, <3>2 DEF EpochShown, IssueGrant, IssuePolicyRefusal, Exists
      <3>4. "PIPELINE_VERIFIED" \in passport[e] /\ "CHANGE_REQUESTED" \in passport[e]
        BY <2>1, <2>2, <2>6 DEF RequestShown, EpochShown, IssueGrant, IssuePolicyRefusal,
                                MayAsk
      <3>5. Entitled(s) /\ Policy(e).decision = "ASK" => "APPROVED" \in passport[e]
        BY <2>1, <2>2, NoneIsNoFingerprint DEF Entitled, Approved, EpochShown
      <3>6. Caused(e)'
        <4> QED BY <2>1, <2>2, <3>1, <3>2, <3>4, <3>5 DEF Caused, Policy
      <3> QED BY <2>1, <2>3, <3>1, <3>3, <3>6, OtherEpochs
    <2>7. CASE ExecuteCommit(s)
      <3> DEFINE outcome == ses[s].answer.outcome
      <3>1. outcome \in Verdict /\ (Autonomous(s) \/ Approved(s)) /\ Carried(s)
        BY <2>1, <2>2, <2>7 DEF Sound, ExecuteCommit, Serving, Answer
      <3>2. passport'[e] = passport[e] \cup {outcome} /\ Record(e, {outcome})
        BY <1>1, <2>1, <2>7 DEF ExecuteCommit, Record
      <3>3. epochs'[e].pipeline = epochs[e].pipeline /\ UNCHANGED <<changed, approval>>
        BY <1>1, <2>1, <2>7 DEF ExecuteCommit, Row, Exists
      <3>4. EpochShown(e)'
        BY <2>1, <2>2, <3>2, <3>3 DEF EpochShown
      <3>5. "APPROVED" \in passport[e] \/ "CAPABILITY_ISSUED" \in passport[e]
        <4>1. CASE Approved(s)
          BY <2>1, <2>2, <4>1, NoneIsNoFingerprint DEF Approved, EpochShown
        <4>2. CASE Autonomous(s)
          BY <2>1, <3>1, <4>2 DEF Autonomous, Carried, PassportInv, GrantShown
        <4> QED BY <3>1, <4>1, <4>2
      <3>6. Caused(e)'
        <4> HIDE DEF outcome
        <4> QED BY <2>1, <2>2, <3>1, <3>2, <3>5 DEF Caused, Policy, Verdict
      <3> QED BY <2>1, <2>3, <3>2, <3>4, <3>6, OtherEpochs
    <2> QED BY <1>5, <2>4, <2>5, <2>6, <2>7
  <1> QED BY <1>2, <1>3, <1>4, <1>5, DatabaseSteps

LEMMA GrantsShownStep ==
  ASSUME Inv, PassportInv, [Next]_vars, NEW g \in grants'
  PROVE  GrantShown(g)'
  <1>1. CASE g \in grants
    <2>1. g.epoch \in Epoch
      BY <1>1 DEF Inv, TypeOK, DbTypeOK, Token
    <2> QED BY <1>1, <2>1, FactsStay DEF PassportInv, GrantShown, Policy
  <1>2. CASE g \notin grants
    <2>1. PICK s \in Session : IssueGrant(s)
      BY <1>2, DatabaseSteps
         DEF db, CreateEpoch, PipelineHook, AgentCreate, AgentChange, ApproveCommit,
             IssuePolicyRefusal, ExecuteCommit
    <2> DEFINE e == ses[s].epoch
    <2>2. e \in Epoch
      BY <2>1, CommittingRequest
    <2>3. g.epoch = e
      BY <1>2, <2>1 DEF IssueGrant
    <2>4. "CAPABILITY_ISSUED" \in passport'[e] /\ UNCHANGED approval
      BY <2>1, <2>2 DEF IssueGrant, Record, Inv, TypeOK, DbTypeOK
    <2>5. Entitled(s)
      BY <2>1 DEF IssueGrant
    <2> QED BY <2>3, <2>4, <2>5 DEF GrantShown, Entitled, Approved, Policy
  <1> QED BY <1>1, <1>2

LEMMA ReceiptsHaveGrantsStep ==
  ASSUME Inv, PassportInv, [Next]_vars, NEW r \in receipts'
  PROVE  HasGrant(r)'
  <1>1. CASE r \in receipts
    BY <1>1, FactsStay DEF PassportInv, HasGrant
  <1>2. CASE r \notin receipts
    <2>1. PICK s \in Session : ExecuteCommit(s)
      BY <1>2, DatabaseSteps
         DEF db, CreateEpoch, PipelineHook, AgentCreate, AgentChange, ApproveCommit,
             IssueGrant, IssuePolicyRefusal
    <2>2. r = NewReceipt(s) /\ ses[s].pc = "answered"
      BY <1>2, <2>1 DEF ExecuteCommit, Serving
    <2>3. r.by = ses[s].op /\ r.epoch = ses[s].epoch /\ r.at = ses[s].answer.at
      BY <2>2 DEF NewReceipt
    <2>4. Sound(s)
      BY DEF Inv, RequestInv
    <2>5. UNCHANGED grants
      BY <2>1 DEF ExecuteCommit
    <2> QED BY <2>2, <2>3, <2>4, <2>5 DEF HasGrant, Sound, Carried
  <1> QED BY <1>1, <1>2

LEMMA PassportInvariant == Spec => []PassportInv
  <1>1. Init => PassportInv
    BY DEF Init, PassportInv, EpochShown, Caused, RequestShown, Exists, Absent
  <1>2. Inv /\ PassportInv /\ [Next]_vars => PassportInv'
    BY EpochsShownStep, RequestShownStep, GrantsShownStep, ReceiptsHaveGrantsStep
       DEF PassportInv
  <1> QED BY <1>1, <1>2, Invariant, PTL DEF Spec

(* Every event of the passport follows its causes, whatever the requests   *)
(* and their stale rows interleave (record_event in services.py and        *)
(* main.py).                                                               *)
THEOREM PassportIsCausal == Spec => []PassportCausality
  <1>1. PassportInv => PassportCausality
    BY DEF PassportInv, Caused, PassportCausality, Verdict
  <1> QED BY <1>1, PassportInvariant, PTL

(* An agent's verdict has every control behind it that the policy engine   *)
(* lists for its change.                                                   *)
THEOREM AgentControlsInPlace == Spec => []AgentUnderRequiredControls
  <1>1. Inv /\ PassportInv => AgentUnderRequiredControls
    <2> SUFFICES ASSUME Inv, PassportInv, NEW r \in receipts, r.by = "agent",
                        NEW control \in Policy(r.epoch).controls
                 PROVE  InPlace(control, r)
      BY DEF AgentUnderRequiredControls
    <2>1. r.epoch \in Epoch
      BY DEF Inv, TypeOK, DbTypeOK, Receipt
    <2>2. PICK g \in grants : g.epoch = r.epoch /\ r.at < g.exp
      BY DEF PassportInv, HasGrant
    <2>3. GrantShown(g) /\ Caused(r.epoch)
      BY <2>1 DEF PassportInv
    <2>4. "PIPELINE_VERIFIED" \in passport[r.epoch]
      BY <2>2, <2>3 DEF GrantShown, Caused
    <2>5. /\ control \in {"verified-pipeline", "human-approval", "scoped-capability", "manual-operator"}
          /\ control = "manual-operator" => Policy(r.epoch).decision = "DENY"
          /\ control = "human-approval" => Policy(r.epoch).decision = "ASK"
      BY DEF Policy, evaluate_policy, Decide
    <2>6. CASE control = "verified-pipeline"
      BY <2>4, <2>6 DEF InPlace
    <2>7. CASE control = "human-approval"
      BY <2>2, <2>3, <2>5, <2>7 DEF InPlace, GrantShown
    <2>8. CASE control = "scoped-capability"
      BY <2>2, <2>8 DEF InPlace
    <2>9. CASE control = "manual-operator"
      BY <2>2, <2>3, <2>5, <2>9 DEF GrantShown
    <2> QED BY <2>5, <2>6, <2>7, <2>8, <2>9
  <1> QED BY <1>1, Invariant, PassportInvariant, PTL

----------------------------------------------------------------------------
(* The two commits of an agent's change.                                   *)

(* A capability is of an epoch whose change request is recorded.           *)
GrantsHaveChange == \A g \in grants : changed[g.epoch]

LEMMA GrantsHaveChangeStep ==
  ASSUME Inv, GrantsHaveChange, [Next]_vars
  PROVE  GrantsHaveChange'
  <1> SUFFICES ASSUME NEW g \in grants'
               PROVE  changed'[g.epoch]
    BY DEF GrantsHaveChange
  <1>1. changed \in [Epoch -> BOOLEAN]
    BY DEF Inv, TypeOK, DbTypeOK
  <1>2. CASE g \in grants
    <2>1. g.epoch \in Epoch /\ changed[g.epoch]
      BY <1>2 DEF GrantsHaveChange, Inv, TypeOK, DbTypeOK, Token
    <2> QED BY <1>1, <2>1, DatabaseSteps
           DEF db, CreateEpoch, PipelineHook, AgentCreate, AgentChange, ApproveCommit,
               IssueGrant, IssuePolicyRefusal, ExecuteCommit
  <1>3. CASE g \notin grants
    <2>1. PICK s \in Session : IssueGrant(s)
      BY <1>3, DatabaseSteps
         DEF db, CreateEpoch, PipelineHook, AgentCreate, AgentChange, ApproveCommit,
             IssuePolicyRefusal, ExecuteCommit
    <2>2. g.epoch = ses[s].epoch /\ changed[ses[s].epoch] /\ changed' = changed
      BY <1>3, <2>1 DEF IssueGrant, MayAsk
    <2> QED BY <2>2
  <1> QED BY <1>2, <1>3

(* Half a change of an agent, left by a crash or by a failure of the       *)
(* second commit of create_agent_change (main.py 129), never becomes a     *)
(* capability or an agent's verdict: what happens to its epoch is a        *)
(* human's, over a human's approval.                                       *)
THEOREM HalfChangesServeNoAgent == Spec => []HalfChangeServesNoAgent
  <1>1. Init => GrantsHaveChange
    BY DEF Init, GrantsHaveChange
  <1>2. Inv /\ PassportInv /\ GrantsHaveChange => HalfChangeServesNoAgent
    <2> SUFFICES ASSUME Inv, PassportInv, GrantsHaveChange, NEW e \in Epoch, ~changed[e]
                 PROVE  /\ \A g \in grants : g.epoch # e
                        /\ \A r \in Receipts(e) :
                             r.by = "human" /\ approval[e] = Fingerprint(e)
      BY DEF HalfChangeServesNoAgent
    <2>1. ASSUME NEW g \in grants
          PROVE  g.epoch # e
      BY DEF GrantsHaveChange
    <2>2. ASSUME NEW r \in Receipts(e)
          PROVE  r.by = "human" /\ approval[e] = Fingerprint(e)
      <3>1. r \in receipts /\ r.epoch = e
        BY DEF Receipts
      <3>2. r.by \in {"human", "agent"}
        BY <3>1 DEF Inv, TypeOK, DbTypeOK, Receipt
      <3>3. r.by # "agent"
        BY <2>1, <3>1 DEF PassportInv, HasGrant
      <3>4. approval[e] = Fingerprint(e)
        BY <3>1, <3>3 DEF Inv, VerdictHasAuthority
      <3> QED BY <3>2, <3>3, <3>4
    <2> QED BY <2>1, <2>2
  <1> QED BY <1>1, <1>2, GrantsHaveChangeStep, Invariant, PassportInvariant, PTL DEF Spec

----------------------------------------------------------------------------
(* The number of verdicts of an epoch.                                     *)

(* The requests that may still give e a verdict once it has one.           *)
Pending(e) ==
  {s \in Session :
     /\ ses[s] # Idle /\ ses[s].epoch = e
     /\ ses[s].pc \in {"calling", "answered"} \/ ses[s].row.state \in {"DRAFT", "APPROVED"}}

(* The strengthening: after a verdict the requests under way are all that  *)
(* can add to it, until an approval reopens the epoch, which happens once  *)
(* and only if no approval was needed before.                              *)
Reopened(e) == approval[e] # None /\ epochs[e].state = "APPROVED"
Reserve(e) == IF Allowed(e) THEN Cardinality(Session) ELSE 0
Quota(e) == Cardinality(Session) + IF approval[e] # None THEN Reserve(e) ELSE 0

Counted(e) ==
  /\ IsFiniteSet(Receipts(e))
  /\ Reopened(e) => Cardinality(Receipts(e)) <= Reserve(e)
  /\ Receipts(e) # {} /\ ~Reopened(e) =>
       /\ epochs[e].state \in Verdict
       /\ Cardinality(Receipts(e)) + Cardinality(Pending(e)) <= Quota(e)
WorkersInv == \A e \in Epoch : Counted(e)

(* A request joins Pending only by loading an executable epoch.            *)
LEMMA PendingBefore ==
  ASSUME Inv, [Next]_vars, NEW e \in Epoch, epochs[e].state \in Verdict
  PROVE  Pending(e)' \subseteq Pending(e)
  <1> SUFFICES ASSUME NEW s \in Pending(e)' PROVE s \in Pending(e)
    OBVIOUS
  <1>1. /\ ses \in [Session -> Request \cup {Idle}] /\ s \in Session
        /\ ses'[s] # Idle /\ ses'[s].epoch = e
        /\ ses'[s].pc \in {"calling", "answered"} \/ ses'[s].row.state \in {"DRAFT", "APPROVED"}
    BY DEF Pending, Inv, TypeOK
  <1>2. CASE ses'[s] = ses[s]
    BY <1>1, <1>2 DEF Pending
  <1>3. ASSUME NEW p \in Session, Finish(p)
        PROVE  ses'[s] = ses[s]
    BY <1>1, <1>3 DEF Finish
  <1>4. ASSUME NEW p \in Session, NEW f \in Epoch, NEW op, NEW k, NEW token,
               Start(p, op, f, k, token)
        PROVE  ses'[s] = ses[s]
    <2> SUFFICES ASSUME p = s PROVE FALSE
      BY <1>1, <1>4 DEF Start
    <2>1. ses'[s] = [pc |-> "loaded", op |-> op, epoch |-> f, row |-> epochs[f], key |-> k,
                     token |-> token, seen |-> None, answer |-> None]
      BY <1>1, <1>4 DEF Start
    <2> QED BY <1>1, <2>1 DEF Verdict
  <1>5. ASSUME NEW p \in Session, NEW f \in Epoch, AgentCreate(p, f)
        PROVE  ses'[s] = ses[s]
    <2> SUFFICES ASSUME p = s PROVE FALSE
      BY <1>1, <1>5 DEF AgentCreate
    <2>1. ses'[s].epoch = f /\ epochs[f] = Absent
      BY <1>1, <1>5 DEF AgentCreate, Exists
    <2> QED BY <1>1, <2>1 DEF Absent, Verdict
  <1>6. ASSUME NEW p \in Session, ExecuteCall(p) \/ ExecutorAnswer(p)
        PROVE  s \in Pending(e)
    <2>1. CASE p # s
      BY <1>1, <1>2, <1>6, <2>1 DEF ExecuteCall, ExecutorAnswer
    <2>2. CASE p = s
      <3>1. ses[s] \in Request /\ ses[s] # Idle
        BY <1>6, <2>2, ServedRequest DEF Inv, ExecuteCall, ExecutorAnswer, Locked, Serving
      <3>2. PICK seen, answer :
              \/ ses'[s] = [ses[s] EXCEPT !.pc = "calling", !.seen = seen]
              \/ ses'[s] = [ses[s] EXCEPT !.pc = "answered", !.answer = answer]
        BY <1>1, <1>6, <2>2 DEF ExecuteCall, ExecutorAnswer
      <3>3. ses[s].epoch = e
        BY <1>1, <3>1, <3>2 DEF Request
      <3>4. ExecuteCall(s) => ses[s].row.state \in {"DRAFT", "APPROVED"}
        BY DEF ExecuteCall, MayStart
      <3> QED BY <1>1, <1>6, <2>2, <3>1, <3>3, <3>4 DEF Pending, ExecutorAnswer, Serving
    <2> QED BY <2>1, <2>2
  <1>7. CASE Crash
    BY <1>1, <1>7 DEF Crash
  <1>8. \/ UNCHANGED ses
        \/ Crash
        \/ \E p \in Session : Finish(p) \/ ExecuteCall(p) \/ ExecutorAnswer(p)
        \/ \E p \in Session, f \in Epoch : AgentCreate(p, f)
        \/ \E p \in Session, f \in Epoch, op \in {"approve", "issue", "human", "agent"},
              k \in Key \cup {None}, token \in grants \cup {None} : Start(p, op, f, k, token)
    BY DEF Next, vars, CreateEpoch, PipelineHook, ApproveLoad, IssueLoad,
           ExecuteLoad, AgentExecuteLoad, AgentChange, ApproveCommit, ApproveReturn,
           IssueGrant, IssuePolicyRefusal, IssueRefuse, ExecuteReturn,
           ExecutorFail, ExecuteCommit, ExecuteConflict, RequestFails, Tick, TargetStep
  <1> QED BY <1>2, <1>3, <1>4, <1>5, <1>6, <1>7, <1>8

(* An epoch with a verdict that needs an approval has it.                  *)
LEMMA DecidedIsApproved ==
  ASSUME Inv, NEW e \in Epoch, ~Allowed(e), Receipts(e) # {}
  PROVE  approval[e] = Fingerprint(e)
  BY DEF Inv, VerdictHasAuthority, Receipts

(* A verdict writes the state and adds a receipt; its worker is free.      *)
LEMMA VerdictWritten ==
  ASSUME Inv, NEW s \in Session, NEW e \in Epoch, ExecuteCommit(s), ses[s].epoch = e
  PROVE  /\ epochs'[e].state \in Verdict /\ approval' = approval
         /\ s \in Pending(e) /\ s \notin Pending(e)'
         /\ Receipts(e)' = Receipts(e) \cup {NewReceipt(s)}
  <1>1. /\ ses[s].pc = "answered" /\ ses[s].answer.outcome \in Verdict /\ ses[s] # Idle
    BY DEF ExecuteCommit, Serving, Inv, RequestInv, Sound, Answer, Idle
  <1>2. epochs'[e].state = ses[s].answer.outcome
    <2>1. epochs \in [Epoch -> Row \cup {Absent}]
      BY DEF Inv, TypeOK, DbTypeOK
    <2> QED BY <2>1 DEF ExecuteCommit, Row, Absent
  <1>3. Receipts(e)' = Receipts(e) \cup {NewReceipt(s)} /\ approval' = approval
    BY DEF ExecuteCommit, Receipts, NewReceipt
  <1>4. s \in Pending(e)
    BY <1>1 DEF Pending
  <1>5. s \notin Pending(e)'
    BY FinishFrees DEF ExecuteCommit, Pending, Inv
  <1> QED BY <1>1, <1>2, <1>3, <1>4, <1>5

(* Every other step keeps the receipts of e, and its state and approval    *)
(* unless it creates or approves e.                                        *)
LEMMA OtherCommits ==
  ASSUME Inv, [Next]_vars, NEW e \in Epoch,
         \A s \in Session : ExecuteCommit(s) => ses[s].epoch # e
  PROVE  /\ Receipts(e)' = Receipts(e)
         /\ \/ epochs'[e].state = epochs[e].state /\ approval'[e] = approval[e]
            \/ epochs[e].state = "ABSENT" /\ epochs'[e].state = "DRAFT" /\ approval'[e] = approval[e]
            \/ approval[e] = None /\ approval'[e] # None /\ epochs'[e].state = "APPROVED"
  <1>1. /\ epochs \in [Epoch -> Row \cup {Absent}]
        /\ approval \in [Epoch -> {None} \cup {Fingerprint(f) : f \in Epoch}]
    BY DEF Inv, TypeOK, DbTypeOK
  <1>2. CASE UNCHANGED db
    BY <1>2 DEF db, Receipts
  <1>3. ASSUME NEW f \in Epoch, NEW s, CreateEpoch(f) \/ AgentCreate(s, f)
        PROVE  /\ receipts' = receipts /\ approval' = approval
               /\ \/ epochs'[e].state = epochs[e].state
                  \/ epochs[e].state = "ABSENT" /\ epochs'[e].state = "DRAFT"
    BY <1>1, <1>3 DEF CreateEpoch, AgentCreate, Exists, Absent
  <1>4. ASSUME NEW f \in Epoch, NEW new, PipelineHook(f, new)
        PROVE  /\ receipts' = receipts /\ approval' = approval
               /\ epochs'[e].state = epochs[e].state
    BY <1>1, <1>4 DEF PipelineHook, Row, Absent
  <1>5. ASSUME NEW s \in Session, ApproveCommit(s)
        PROVE  /\ receipts' = receipts
               /\ \/ epochs'[e].state = epochs[e].state /\ approval'[e] = approval[e]
                  \/ approval[e] = None /\ approval'[e] # None /\ epochs'[e].state = "APPROVED"
    <2>1. receipts' = receipts /\ approval[ses[s].epoch] = None
      BY <1>5 DEF ApproveCommit, MayApprove
    <2>2. CASE ses[s].epoch = e
      <3>1. approval'[e] = Fingerprint(e) /\ epochs'[e].state = "APPROVED"
        BY <1>1, <1>5, <2>2 DEF ApproveCommit, Row, Absent
      <3> QED BY <2>1, <2>2, <3>1, NoneIsNoFingerprint
    <2>3. CASE ses[s].epoch # e
      BY <1>1, <1>5, <2>1, <2>3 DEF ApproveCommit
    <2> QED BY <2>2, <2>3, <2>1
  <1>6. ASSUME NEW s \in Session, AgentChange(s) \/ IssueGrant(s) \/ IssuePolicyRefusal(s)
        PROVE  UNCHANGED <<receipts, approval, epochs>>
    BY <1>6 DEF AgentChange, IssueGrant, IssuePolicyRefusal
  <1>7. ASSUME NEW s \in Session, ExecuteCommit(s)
        PROVE  /\ Receipts(e)' = Receipts(e) /\ approval' = approval
               /\ epochs'[e].state = epochs[e].state
    <2>1. ses[s].epoch # e /\ NewReceipt(s).epoch = ses[s].epoch
      BY <1>7 DEF NewReceipt
    <2> QED BY <1>1, <1>7, <2>1 DEF ExecuteCommit, Receipts
  <1> QED BY <1>2, <1>3, <1>4, <1>5, <1>6, <1>7, DatabaseSteps DEF Receipts

(* The numbers that the steps below add up.                                *)
LEMMA Numbers ==
  ASSUME NEW e \in Epoch
  PROVE  /\ IsFiniteSet(Pending(e)) /\ IsFiniteSet(Pending(e)')
         /\ Cardinality(Pending(e)) \in Nat /\ Cardinality(Pending(e)') \in Nat
         /\ Cardinality(Session) \in Nat
         /\ Reserve(e) \in {0, Cardinality(Session)} /\ Reserve(e)' = Reserve(e)
         /\ Quota(e) = Cardinality(Session) + IF approval[e] # None THEN Reserve(e) ELSE 0
         /\ Quota(e)' = Cardinality(Session) + IF approval'[e] # None THEN Reserve(e) ELSE 0
  <1>1. Pending(e) \subseteq Session /\ Pending(e)' \subseteq Session
    BY DEF Pending
  <1>2. /\ IsFiniteSet(Pending(e)) /\ IsFiniteSet(Pending(e)')
        /\ Cardinality(Pending(e)) \in Nat /\ Cardinality(Pending(e)') \in Nat
        /\ Cardinality(Session) \in Nat
    BY <1>1, FinitelyManyWorkers, FS_Subset, FS_CardinalityType
  <1>3. Reserve(e) \in {0, Cardinality(Session)} /\ Reserve(e)' = Reserve(e)
    BY DEF Reserve, Allowed, Policy
  <1> QED BY <1>2, <1>3 DEF Quota

(* A verdict of e takes its request out of Pending.                        *)
LEMMA VerdictIsCounted ==
  ASSUME Inv, [Next]_vars, NEW e \in Epoch, Counted(e),
         NEW s \in Session, ExecuteCommit(s), ses[s].epoch = e
  PROVE  Counted(e)'
  <1>1. /\ epochs'[e].state \in Verdict /\ approval' = approval
        /\ s \in Pending(e) /\ s \notin Pending(e)'
        /\ Receipts(e)' = Receipts(e) \cup {NewReceipt(s)}
    BY VerdictWritten
  <1>2. /\ IsFiniteSet(Receipts(e)') /\ Cardinality(Receipts(e)) \in Nat
        /\ Cardinality(Receipts(e)') \in Nat
        /\ Cardinality(Receipts(e)') <= Cardinality(Receipts(e)) + 1
        /\ Receipts(e) = {} => Cardinality(Receipts(e)) = 0
    <2> DEFINE R == Receipts(e)
    <2> DEFINE r == NewReceipt(s)
    <2>1. Receipts(e)' = R \cup {r}
      BY <1>1
    <2>2. IsFiniteSet(R)
      BY DEF Counted
    <2> HIDE DEF R, r
    <2>3. /\ IsFiniteSet(R \cup {r}) /\ Cardinality(R) \in Nat
          /\ Cardinality(R \cup {r}) = IF r \in R THEN Cardinality(R) ELSE Cardinality(R) + 1
          /\ R = {} => Cardinality(R) = 0
      BY <2>2, FS_AddElement, FS_CardinalityType, FS_EmptySet
    <2>4. Cardinality(R \cup {r}) \in Nat /\ Cardinality(R \cup {r}) <= Cardinality(R) + 1
      BY <2>3
    <2> QED BY <2>1, <2>3, <2>4 DEF R
  <1>3. ~Reopened(e)'
    BY <1>1 DEF Reopened, Verdict
  <1>4. Cardinality(Pending(e)') <= Cardinality(Session) - 1
    <2>1. Pending(e)' \subseteq Session \ {s}
      BY <1>1 DEF Pending
    <2>2. IsFiniteSet(Session \ {s}) /\ Cardinality(Session \ {s}) = Cardinality(Session) - 1
      BY FinitelyManyWorkers, FS_RemoveElement
    <2> QED BY <2>1, <2>2, FS_Subset
  <1>5. CASE Reopened(e)
    <2>1. Cardinality(Receipts(e)) <= Reserve(e) /\ approval'[e] # None
      BY <1>1, <1>5 DEF Counted, Reopened
    <2>2. Cardinality(Receipts(e)') + Cardinality(Pending(e)') <= Quota(e)'
      BY <1>2, <1>4, <2>1, Numbers
    <2> QED BY <1>1, <1>2, <1>3, <2>2 DEF Counted
  <1>6. CASE ~Reopened(e) /\ Receipts(e) = {}
    <2>1. Cardinality(Receipts(e)') + Cardinality(Pending(e)') <= Quota(e)'
      BY <1>2, <1>4, <1>6, Numbers
    <2> QED BY <1>1, <1>2, <1>3, <2>1 DEF Counted
  <1>7. CASE ~Reopened(e) /\ Receipts(e) # {}
    <2>1. /\ epochs[e].state \in Verdict
          /\ Cardinality(Receipts(e)) + Cardinality(Pending(e)) <= Quota(e)
      BY <1>7 DEF Counted
    <2>2. Pending(e)' \subseteq Pending(e) \ {s}
      BY <1>1, <2>1, PendingBefore
    <2>3. /\ IsFiniteSet(Pending(e) \ {s})
          /\ Cardinality(Pending(e) \ {s}) = Cardinality(Pending(e)) - 1
      BY <1>1, Numbers, FS_RemoveElement
    <2>4. Cardinality(Pending(e)') <= Cardinality(Pending(e)) - 1
      BY <2>2, <2>3, FS_Subset
    <2>5. Quota(e)' = Quota(e)
      BY <1>1, Numbers
    <2>6. Cardinality(Receipts(e)') + Cardinality(Pending(e)') <= Quota(e)'
      BY <1>2, <2>1, <2>4, <2>5, Numbers
    <2> QED BY <1>1, <1>2, <1>3, <2>6 DEF Counted
  <1> QED BY <1>5, <1>6, <1>7

(* An epoch with a verdict is approved only once, and only where the       *)
(* policy asked for no approval; nothing else adds to its count.           *)
LEMMA OthersAreCounted ==
  ASSUME Inv, [Next]_vars, NEW e \in Epoch, Counted(e),
         \A s \in Session : ExecuteCommit(s) => ses[s].epoch # e
  PROVE  Counted(e)'
  <1>1. Receipts(e)' = Receipts(e) /\ IsFiniteSet(Receipts(e)) /\ Cardinality(Receipts(e)) \in Nat
    BY OtherCommits, FS_CardinalityType DEF Counted
  <1>2. CASE Receipts(e) = {}
    <2>1. Cardinality(Receipts(e)') = 0 /\ IsFiniteSet(Receipts(e)')
      BY <1>1, <1>2, FS_EmptySet
    <2> QED BY <1>1, <1>2, <2>1, Numbers DEF Counted
  <1>3. CASE Receipts(e) # {} /\ epochs'[e].state = epochs[e].state /\ approval'[e] = approval[e]
    <2>1. Reopened(e)' = Reopened(e) /\ Quota(e)' = Quota(e)
      BY <1>3, Numbers DEF Reopened
    <2>2. CASE Reopened(e)
      BY <1>1, <2>1, <2>2, Numbers DEF Counted
    <2>3. CASE ~Reopened(e)
      <3>1. /\ epochs[e].state \in Verdict
            /\ Cardinality(Receipts(e)) + Cardinality(Pending(e)) <= Quota(e)
        BY <1>3, <2>3 DEF Counted
      <3>2. Cardinality(Pending(e)') <= Cardinality(Pending(e))
        BY <3>1, PendingBefore, Numbers, FS_Subset
      <3>3. Cardinality(Receipts(e)') + Cardinality(Pending(e)') <= Quota(e)'
        BY <1>1, <2>1, <3>1, <3>2, Numbers
      <3> QED BY <1>1, <1>3, <2>1, <2>3, <3>1, <3>3 DEF Counted
    <2> QED BY <2>2, <2>3
  <1>4. CASE Receipts(e) # {} /\ epochs[e].state = "ABSENT"
    BY <1>4 DEF Counted, Reopened, Verdict
  <1>5. CASE /\ Receipts(e) # {}
             /\ approval[e] = None /\ approval'[e] # None /\ epochs'[e].state = "APPROVED"
    <2>1. Allowed(e)
      BY <1>5, DecidedIsApproved, NoneIsNoFingerprint
    <2>2. Cardinality(Receipts(e)) + Cardinality(Pending(e)) <= Quota(e)
      BY <1>5 DEF Counted, Reopened
    <2>3. Cardinality(Receipts(e)') <= Reserve(e)'
      BY <1>1, <1>5, <2>1, <2>2, Numbers DEF Reserve
    <2> QED BY <1>1, <1>5, <2>3 DEF Counted, Reopened
  <1> QED BY <1>2, <1>3, <1>4, <1>5, OtherCommits

LEMMA WorkersStep == Inv /\ WorkersInv /\ [Next]_vars => WorkersInv'
  <1> SUFFICES ASSUME Inv, WorkersInv, [Next]_vars, NEW e \in Epoch
               PROVE  Counted(e)'
    BY DEF WorkersInv
  <1> QED BY VerdictIsCounted, OthersAreCounted DEF WorkersInv

(* The stale row of execute_epoch costs at most one verdict per worker     *)
(* thread: however many keys are sent, an epoch gets no more verdicts than *)
(* there are workers, and as many again once a human approves what the     *)
(* policy had let an agent execute.                                        *)
THEOREM WorkersBoundVerdicts == Spec => []VerdictsPerWorker
  <1>1. Init => WorkersInv
    <2>1. Cardinality(Session) \in Nat /\ Cardinality({}) = 0 /\ IsFiniteSet({})
      BY FinitelyManyWorkers, FS_CardinalityType, FS_EmptySet
    <2> QED BY <2>1 DEF Init, WorkersInv, Counted, Reopened, Receipts, Absent
  <1>2. WorkersInv => VerdictsPerWorker
    <2> SUFFICES ASSUME WorkersInv, NEW e \in Epoch
                 PROVE  Cardinality(Receipts(e)) <=
                          (IF Allowed(e) /\ approval[e] # None THEN 2 ELSE 1) * Cardinality(Session)
      BY DEF VerdictsPerWorker
    <2>1. Cardinality(Receipts(e)) \in Nat /\ (Receipts(e) = {} => Cardinality(Receipts(e)) = 0)
      BY FS_CardinalityType, FS_EmptySet DEF WorkersInv, Counted
    <2>2. Cardinality(Receipts(e)) <= Quota(e)
      BY <2>1, Numbers DEF WorkersInv, Counted, Reopened
    <2>3. Quota(e) = (IF Allowed(e) /\ approval[e] # None THEN 2 ELSE 1) * Cardinality(Session)
      BY Numbers DEF Quota, Reserve
    <2> QED BY <2>2, <2>3
  <1> QED BY <1>1, <1>2, WorkersStep, Invariant, PTL DEF Spec

----------------------------------------------------------------------------
(* What the stale rows are to blame for.                                   *)

(* A request decides on the row it loaded while the database has another.  *)
ActsOn(s) == ApproveCommit(s) \/ IssueGrant(s) \/ ExecuteCall(s)
ActsOnStaleRow == \E s \in Session : ActsOn(s) /\ ses[s].row # epochs[ses[s].epoch]

(* One verdict, and one more once a human approves what the policy had let *)
(* an agent execute.                                                       *)
Rounds(e) == IF Allowed(e) /\ approval[e] # None THEN 2 ELSE 1
OneVerdictPerRound == \A e \in Epoch : Cardinality(Receipts(e)) <= Rounds(e)

(* The strengthening: under the lock an execution finds an executable      *)
(* epoch, and only an approval makes a decided one executable.             *)
DecidedOnce(e) ==
  /\ IsFiniteSet(Receipts(e))
  /\ \A s \in Session : HoldsLock(s, e) => epochs[e].state \in {"DRAFT", "APPROVED"}
  /\ epochs[e].state \in {"ABSENT", "DRAFT"} => Receipts(e) = {}
  /\ epochs[e].state = "APPROVED" =>
       approval[e] # None /\ Cardinality(Receipts(e)) <= Rounds(e) - 1
  /\ Cardinality(Receipts(e)) <= Rounds(e)

LEMMA EpochState ==
  ASSUME Inv, NEW e \in Epoch
  PROVE  epochs[e].state \in {"ABSENT", "DRAFT", "APPROVED"} \cup Verdict
  BY DEF Inv, TypeOK, DbTypeOK, Row, Absent

(* The commit of a verdict uses up a round, and nobody else holds the row. *)
LEMMA VerdictDecidesOnce ==
  ASSUME Inv, RowLocks, NEW e \in Epoch, DecidedOnce(e),
         NEW s \in Session, ExecuteCommit(s), ses[s].epoch = e
  PROVE  DecidedOnce(e)'
  <1>1. /\ epochs'[e].state \in Verdict /\ approval' = approval
        /\ Receipts(e)' = Receipts(e) \cup {NewReceipt(s)}
    BY VerdictWritten
  <1>2. HoldsLock(s, e)
    BY DEF ExecuteCommit, Serving, HoldsLock
  <1>3. Rounds(e)' = Rounds(e) /\ Rounds(e) \in {1, 2}
    BY <1>1 DEF Rounds, Allowed, Policy
  <1>4. /\ IsFiniteSet(Receipts(e)) /\ Cardinality(Receipts(e)) \in Nat
        /\ Cardinality(Receipts(e)) <= Rounds(e) - 1
    <2>1. IsFiniteSet(Receipts(e)) /\ Cardinality(Receipts(e)) \in Nat
      BY FS_CardinalityType DEF DecidedOnce
    <2>2. Receipts(e) = {} => Cardinality(Receipts(e)) = 0
      BY FS_EmptySet
    <2> QED BY <1>2, <1>3, <2>1, <2>2 DEF DecidedOnce
  <1>5. IsFiniteSet(Receipts(e)') /\ Cardinality(Receipts(e)') <= Rounds(e)'
    <2> DEFINE R == Receipts(e)
    <2> DEFINE r == NewReceipt(s)
    <2>1. Receipts(e)' = R \cup {r}
      BY <1>1
    <2>2. IsFiniteSet(R) /\ Cardinality(R) \in Nat /\ Cardinality(R) <= Rounds(e) - 1
      BY <1>4
    <2> HIDE DEF R, r
    <2>3. /\ IsFiniteSet(R \cup {r})
          /\ Cardinality(R \cup {r}) = IF r \in R THEN Cardinality(R) ELSE Cardinality(R) + 1
      BY <2>2, FS_AddElement
    <2>4. Cardinality(R \cup {r}) <= Rounds(e)'
      BY <1>3, <2>2, <2>3
    <2> QED BY <2>1, <2>3, <2>4
  <1>6. ASSUME NEW p \in Session, HoldsLock(p, e)'
        PROVE  FALSE
    <2>1. p # s /\ ses'[p] = ses[p]
      BY <1>6, FinishFrees DEF Inv, ExecuteCommit, HoldsLock, Idle
    <2>2. HoldsLock(p, e)
      BY <1>6, <2>1 DEF HoldsLock
    <2> QED BY <1>2, <2>1, <2>2 DEF Inv, LockInv
  <1> QED BY <1>1, <1>5, <1>6 DEF DecidedOnce, Verdict

(* Other steps: an execution begins on the row as it is now, and only the  *)
(* first approval of an epoch opens another round.                         *)
LEMMA OthersDecideOnce ==
  ASSUME Inv, [Next]_vars, ~ActsOnStaleRow, NEW e \in Epoch, DecidedOnce(e),
         \A s \in Session : ExecuteCommit(s) => ses[s].epoch # e
  PROVE  DecidedOnce(e)'
  <1>1. Receipts(e)' = Receipts(e) /\ IsFiniteSet(Receipts(e)) /\ Cardinality(Receipts(e)) \in Nat
    BY OtherCommits, FS_CardinalityType DEF DecidedOnce
  <1>2. Receipts(e) = {} => Cardinality(Receipts(e)) = 0
    BY FS_EmptySet
  <1>3. ASSUME NEW s \in Session, HoldsLock(s, e)'
        PROVE  epochs[e].state \in {"DRAFT", "APPROVED"}
    <2>1. ses[s].epoch = e /\ (ExecuteCall(s) \/ ses[s].pc \in {"calling", "answered"})
      BY <1>3, ExecutingBefore DEF HoldsLock
    <2>2. CASE ExecuteCall(s)
      BY <2>1, <2>2 DEF ActsOnStaleRow, ActsOn, ExecuteCall, MayStart
    <2>3. CASE ses[s].pc \in {"calling", "answered"}
      BY <2>1, <2>3 DEF DecidedOnce, HoldsLock
    <2> QED BY <2>1, <2>2, <2>3
  <1>4. CASE epochs'[e].state = epochs[e].state /\ approval'[e] = approval[e]
    <2>1. Rounds(e)' = Rounds(e)
      BY <1>4 DEF Rounds, Allowed, Policy
    <2> QED BY <1>1, <1>3, <1>4, <2>1 DEF DecidedOnce
  <1>5. CASE epochs[e].state = "ABSENT" /\ epochs'[e].state = "DRAFT" /\ approval'[e] = approval[e]
    <2>1. Rounds(e)' \in {1, 2}
      BY DEF Rounds
    <2> QED BY <1>1, <1>2, <1>5, <2>1 DEF DecidedOnce
  <1>6. CASE approval[e] = None /\ approval'[e] # None /\ epochs'[e].state = "APPROVED"
    <2>1. Rounds(e) = 1 /\ Rounds(e)' = IF Allowed(e) THEN 2 ELSE 1
      BY <1>6 DEF Rounds, Allowed, Policy
    <2>2. ~Allowed(e) => Receipts(e) = {}
      BY <1>6, DecidedIsApproved, NoneIsNoFingerprint
    <2>3. Cardinality(Receipts(e)) <= Rounds(e)' - 1
      BY <1>1, <1>2, <2>1, <2>2 DEF DecidedOnce
    <2>4. Cardinality(Receipts(e)) <= Rounds(e)'
      BY <1>1, <2>1, <2>3
    <2> QED BY <1>1, <1>6, <2>3, <2>4 DEF DecidedOnce
  <1> QED BY <1>4, <1>5, <1>6, OtherCommits

(* The row lock would serialise the executions of an epoch, as services.py *)
(* 256 says, if the locking query refreshed the row: as long as no request *)
(* decides on a row that was changed since it loaded it, an epoch gets one *)
(* verdict, or two where the policy let an agent execute it before a human *)
(* approved it, however many workers and keys there are.                   *)
THEOREM CurrentRowsDecideOnce ==
  RowLocks => (Spec /\ [][~ActsOnStaleRow]_vars => []OneVerdictPerRound)
  <1> SUFFICES ASSUME RowLocks
               PROVE  Spec /\ [][~ActsOnStaleRow]_vars => []OneVerdictPerRound
    OBVIOUS
  <1> DEFINE J == \A e \in Epoch : DecidedOnce(e)
  <1> DEFINE Current == ~ActsOnStaleRow
  <1>1. Init => J
    <2>1. Cardinality({}) = 0 /\ IsFiniteSet({})
      BY FS_EmptySet
    <2> QED BY <2>1 DEF Init, DecidedOnce, Rounds, Receipts, Absent, HoldsLock, Idle
  <1>2. Inv /\ J /\ [Next]_vars /\ [Current]_vars => J'
    <2> SUFFICES ASSUME Inv, J, [Next]_vars, [Current]_vars, NEW e \in Epoch
                 PROVE  DecidedOnce(e)'
      OBVIOUS
    <2>1. CASE UNCHANGED vars
      <3>1. UNCHANGED <<epochs, approval, receipts, ses>>
        BY <2>1 DEF vars, db
      <3> QED BY <3>1 DEF DecidedOnce, Rounds, Receipts, HoldsLock, Allowed, Policy
    <2>2. CASE Current
      BY <2>2, VerdictDecidesOnce, OthersDecideOnce
    <2> QED BY <2>1, <2>2
  <1>3. J => OneVerdictPerRound
    BY DEF DecidedOnce, OneVerdictPerRound
  <1> HIDE DEF J, Current
  <1>4. Spec /\ [][Current]_vars => []OneVerdictPerRound
    BY <1>1, <1>2, <1>3, Invariant, PTL DEF Spec
  <1> QED BY <1>4 DEF Current

(* The same stale row is all that lets an approval through without the     *)
(* verified pipeline that approve_epoch asks for (services.py 60).         *)
THEOREM CurrentRowsAreVerified ==
  Spec /\ [][~ActsOnStaleRow]_vars => ApprovalNeedsVerifiedPipeline
  <1> DEFINE Current == ~ActsOnStaleRow
  <1> DEFINE Verified ==
        \A e \in Epoch : approval'[e] # approval[e] => epochs[e].pipeline = "success"
  <1>1. Inv /\ [Next]_vars /\ [Current]_vars => [Verified]_vars
    <2> SUFFICES ASSUME Inv, [Next]_vars, Current, NEW e \in Epoch, approval'[e] # approval[e]
                 PROVE  epochs[e].pipeline = "success"
      OBVIOUS
    <2>1. PICK s \in Session : ApproveCommit(s)
      BY DatabaseSteps
         DEF db, CreateEpoch, AgentCreate, PipelineHook, AgentChange, IssueGrant,
             IssuePolicyRefusal, ExecuteCommit
    <2>2. ses[s].epoch = e
      BY <2>1 DEF ApproveCommit, Inv, TypeOK, DbTypeOK
    <2> QED BY <2>1, <2>2 DEF ApproveCommit, MayApprove, ActsOnStaleRow, ActsOn
  <1> HIDE DEF Current
  <1>2. Spec /\ [][Current]_vars => [][Verified]_vars
    BY <1>1, Invariant, PTL DEF Spec
  <1> QED BY <1>2 DEF Current, ApprovalNeedsVerifiedPipeline

----------------------------------------------------------------------------
(* How a terminal epoch comes back.                                        *)

DecidedHasReceipt == \A e \in Epoch : epochs[e].state \in Verdict => Receipts(e) # {}

(* An epoch leaves its verdict state only by its approval.                 *)
LEMMA ReopenedByApproval ==
  ASSUME Inv, [Next]_vars, NEW e \in Epoch,
         epochs[e].state \in Verdict, epochs'[e].state \notin Verdict
  PROVE  approval[e] = None /\ approval'[e] # None /\ epochs'[e].state = "APPROVED"
  <1>1. \A s \in Session : ExecuteCommit(s) => ses[s].epoch # e
    BY VerdictWritten
  <1> QED BY <1>1, OtherCommits DEF Verdict

LEMMA DecidedHasReceiptStep ==
  ASSUME Inv, DecidedHasReceipt, [Next]_vars
  PROVE  DecidedHasReceipt'
  <1> SUFFICES ASSUME NEW e \in Epoch, epochs'[e].state \in Verdict
               PROVE  Receipts(e)' # {}
    BY DEF DecidedHasReceipt
  <1>1. CASE \E s \in Session : ExecuteCommit(s) /\ ses[s].epoch = e
    BY <1>1, VerdictWritten
  <1>2. CASE \A s \in Session : ExecuteCommit(s) => ses[s].epoch # e
    BY <1>2, OtherCommits DEF DecidedHasReceipt, Verdict
  <1> QED BY <1>1, <1>2

(* "Terminal" (docs/verification.md 83) fails in one way only: a human     *)
(* approves, for the first time, an epoch that the policy had let an agent *)
(* execute.  No other epoch ever leaves its verdict, and as an approval is *)
(* never taken back, no epoch leaves it twice.                             *)
THEOREM OnlyUnattendedReopen ==
  Spec => [][\A e \in Epoch :
               epochs[e].state \in Verdict /\ epochs'[e].state \notin Verdict =>
                 /\ Allowed(e) /\ approval[e] = None
                 /\ approval'[e] # None /\ epochs'[e].state = "APPROVED"]_vars
  <1> DEFINE Reopening ==
        \A e \in Epoch :
          epochs[e].state \in Verdict /\ epochs'[e].state \notin Verdict =>
            /\ Allowed(e) /\ approval[e] = None
            /\ approval'[e] # None /\ epochs'[e].state = "APPROVED"
  <1>1. Init => DecidedHasReceipt
    BY DEF Init, DecidedHasReceipt, Absent, Verdict
  <1>2. Inv /\ DecidedHasReceipt /\ [Next]_vars => DecidedHasReceipt'
    BY DecidedHasReceiptStep
  <1>3. Inv /\ DecidedHasReceipt /\ [Next]_vars => Reopening
    <2> SUFFICES ASSUME Inv, DecidedHasReceipt, [Next]_vars, NEW e \in Epoch,
                        epochs[e].state \in Verdict, epochs'[e].state \notin Verdict
                 PROVE  /\ Allowed(e) /\ approval[e] = None
                        /\ approval'[e] # None /\ epochs'[e].state = "APPROVED"
      OBVIOUS
    <2>1. approval[e] = None /\ approval'[e] # None /\ epochs'[e].state = "APPROVED"
      BY ReopenedByApproval
    <2>2. Allowed(e)
      BY <2>1, DecidedIsApproved, NoneIsNoFingerprint DEF DecidedHasReceipt
    <2> QED BY <2>1, <2>2
  <1> QED BY <1>1, <1>2, <1>3, Invariant, PTL DEF Spec
=============================================================================
