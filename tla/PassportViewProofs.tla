------------------------- MODULE PassportViewProofs -------------------------
(***************************************************************************)
(* Proof that a passport accounts for what it shows, though its sections   *)
(* are read at different moments.  Every row of a section left its event   *)
(* in the timeline when it was committed, no event is ever removed, and    *)
(* the timeline is the section read last.                                  *)
(***************************************************************************)
EXTENDS PassportProofs, LedgerProofs, PassportView

----------------------------------------------------------------------------
(* The rows behind a state: the approval, or the receipt of the verdict,   *)
(* whose event is in the passport.                                         *)

Accounted(e) ==
  /\ epochs[e].state = "APPROVED" => approval[e] # None
  /\ epochs[e].state \in Verdict => \E r \in Receipts(e) : r.outcome = epochs[e].state
  /\ \A r \in Receipts(e) : r.outcome \in passport[e]

AccountsInv == \A e \in Epoch : Accounted(e)

(* Receipts stay.                                                          *)
LEMMA ReceiptsStay ==
  ASSUME [Next]_vars
  PROVE  receipts \subseteq receipts'
  <1>1. \A s \in Session : ExecuteCommit(s) => receipts \subseteq receipts'
    BY DEF ExecuteCommit
  <1> QED BY <1>1, OnlyCommitsWriteReceipts

(* An approval is of the epoch's fingerprint and stays.                    *)
LEMMA ApprovalStays ==
  ASSUME Inv, [Next]_vars, NEW e \in Epoch, approval[e] # None
  PROVE  approval'[e] # None
  <1>1. approval[e] = Fingerprint(e)
    BY DEF Inv, TypeOK, DbTypeOK
  <1> QED BY <1>1, FactsStay, NoneIsNoFingerprint DEF Fingerprint

(* What the commit of a verdict writes.                                    *)
LEMMA VerdictCommit ==
  ASSUME Inv, NEW s \in Session, ExecuteCommit(s)
  PROVE  /\ ses[s].epoch \in Epoch
         /\ receipts' = receipts \cup {NewReceipt(s)}
         /\ NewReceipt(s).epoch = ses[s].epoch
         /\ NewReceipt(s).outcome = ses[s].answer.outcome
         /\ ses[s].answer.outcome \in passport'[ses[s].epoch]
  <1>1. ses[s].epoch \in Epoch
    BY CommittingRequest
  <1>2. passport \in [Epoch -> SUBSET Event]
    BY DEF Inv, TypeOK, DbTypeOK
  <1> QED BY <1>1, <1>2 DEF ExecuteCommit, NewReceipt, Record

LEMMA AccountedStep ==
  ASSUME Inv, AccountsInv, [Next]_vars, NEW e \in Epoch
  PROVE  Accounted(e)'
  <1> USE DEF AccountsInv
  <1>1. \A r \in Receipts(e)' : r.outcome \in passport'[e]
    <2> SUFFICES ASSUME NEW r \in receipts', r.epoch = e
                 PROVE  r.outcome \in passport'[e]
      BY DEF Receipts
    <2>1. CASE r \in receipts
      BY <2>1, FactsStay DEF Accounted, Receipts
    <2>2. CASE r \notin receipts
      <3>1. PICK s \in Session : ExecuteCommit(s)
        BY <2>2, OnlyCommitsWriteReceipts
      <3> QED BY <2>2, <3>1, VerdictCommit
    <2> QED BY <2>1, <2>2
  <1>2. /\ epochs'[e].state = "APPROVED" => approval'[e] # None
        /\ epochs'[e].state \in Verdict =>
             \E r \in Receipts(e)' : r.outcome = epochs'[e].state
    <2>1. CASE epochs'[e].state = epochs[e].state
      BY <2>1, ApprovalStays, ReceiptsStay DEF Accounted, Receipts
    <2>2. CASE epochs'[e].state = "DRAFT"
      BY <2>2 DEF Verdict
    <2>3. ASSUME NEW s \in Session, ApproveCommit(s), ses[s].epoch = e,
                 epochs'[e].state = "APPROVED"
          PROVE  approval'[e] # None
      BY <2>3, NoneIsNoFingerprint DEF ApproveCommit, Inv, TypeOK, DbTypeOK
    <2>4. ASSUME NEW s \in Session, ExecuteCommit(s), ses[s].epoch = e,
                 epochs'[e].state = ses[s].answer.outcome
          PROVE  /\ epochs'[e].state \in Verdict
                 /\ \E r \in Receipts(e)' : r.outcome = epochs'[e].state
      BY <2>4, VerdictCommit, CommittedOutcome DEF Receipts
    <2>5. "APPROVED" \notin Verdict
      BY DEF Verdict
    <2> QED BY <2>1, <2>2, <2>3, <2>4, <2>5, EpochStates
  <1> QED BY <1>1, <1>2 DEF Accounted, Receipts

LEMMA AccountsInvariant == Spec => []AccountsInv
  <1>1. Init => AccountsInv
    BY DEF Init, AccountsInv, Accounted, Receipts, Absent, Verdict
  <1>2. Inv /\ AccountsInv /\ [Next]_vars => AccountsInv'
    BY AccountedStep DEF AccountsInv
  <1> QED BY <1>1, <1>2, Invariant, PTL DEF Spec

----------------------------------------------------------------------------
(* The reader.                                                             *)

(* What the passport read so far has behind it in the tables.              *)
ViewInv ==
  view # NoView =>
    /\ view \in View
    /\ view.row.pipeline = "success" => "PIPELINE_VERIFIED" \in passport[view.epoch]
    /\ view.row.state = "APPROVED" => approval[view.epoch] # None
    /\ view.row.state \in Verdict =>
         \E r \in Receipts(view.epoch) : r.outcome = view.row.state
    /\ \A section \in Section : view.rows[section] \subseteq passport[view.epoch]
    /\ view.step > 2 /\ view.row.state = "APPROVED" => view.rows["approval"] # {}
    /\ view.step > 3 /\ view.row.state \in Verdict => view.row.state \in view.rows["executions"]
    /\ view.step = 6 => PassportAccounts

(* Whatever a query returns, the timeline accounts for it at that moment.  *)
LEMMA RowsHaveEvents ==
  ASSUME Inv, PassportInv, AccountsInv, NEW e \in Epoch, NEW section \in Section
  PROVE  Rows(section, e) \subseteq passport[e] /\ Rows(section, e) \subseteq Event
  <1>1. EpochShown(e) /\ Accounted(e) /\ \A g \in grants : GrantShown(g)
    BY DEF PassportInv, AccountsInv
  <1>2. passport[e] \subseteq Event
    BY DEF Inv, TypeOK, DbTypeOK
  <1>3. CASE section = "change"
    BY <1>1, <1>2, <1>3 DEF Rows, EpochShown
  <1>4. CASE section = "approval"
    BY <1>1, <1>2, <1>4 DEF Rows, EpochShown
  <1>5. CASE section = "executions"
    BY <1>1, <1>2, <1>5 DEF Rows, Accounted
  <1>6. CASE section = "capabilities"
    BY <1>1, <1>2, <1>6 DEF Rows, GrantShown
  <1>7. CASE section = "timeline"
    BY <1>2, <1>7 DEF Rows
  <1> QED BY <1>3, <1>4, <1>5, <1>6, <1>7 DEF Section

(* The orchestrator goes on between two queries.                           *)
LEMMA OthersKeepViewInv ==
  ASSUME Inv, ViewInv, [Next]_vars, UNCHANGED view
  PROVE  ViewInv'
  <1> SUFFICES ASSUME view # NoView PROVE ViewInv'
    BY DEF ViewInv, NoView
  <1>1. view.epoch \in Epoch
    BY DEF ViewInv, View
  <1>2. /\ passport[view.epoch] \subseteq passport'[view.epoch]
        /\ approval[view.epoch] # None => approval'[view.epoch] # None
        /\ receipts \subseteq receipts'
    BY <1>1, FactsStay, ApprovalStays, ReceiptsStay
  <1>3. PassportAccounts => PassportAccounts'
    BY DEF PassportAccounts
  <1> QED BY <1>2, <1>3 DEF ViewInv, Receipts

LEMMA LoadKeepsViewInv ==
  ASSUME Inv, PassportInv, AccountsInv, NEW e \in Epoch, LoadEpoch(e), UNCHANGED vars
  PROVE  ViewInv'
  <1>1. /\ Exists(e) /\ epochs[e] \in Row
        /\ view' = [step |-> 1, epoch |-> e, row |-> epochs[e], rows |-> [s \in Section |-> {}]]
    BY DEF LoadEpoch, Exists, Inv, TypeOK, DbTypeOK
  <1>2. view' \in View
    BY <1>1 DEF View
  <1>3. EpochShown(e) /\ Accounted(e)
    BY DEF PassportInv, AccountsInv
  <1>4. /\ view'.step = 1 /\ view'.epoch = e /\ view'.row = epochs[e]
        /\ \A s \in Section : view'.rows[s] = {}
    BY <1>1
  <1>5. approval' = approval /\ receipts' = receipts /\ passport' = passport
    BY DEF vars, db
  <1> QED BY <1>2, <1>3, <1>4, <1>5 DEF ViewInv, EpochShown, Accounted, Receipts

LEMMA ReadKeepsViewInv ==
  ASSUME Inv, PassportInv, AccountsInv, ViewInv, ReadSection, UNCHANGED vars
  PROVE  ViewInv'
  <1> DEFINE e == view.epoch
  <1> DEFINE n == view.step
  <1> DEFINE rows == Rows(Query[n], e)
  <1>1. n \in 1..5 /\ view # NoView
    BY DEF ReadSection, NoView
  <1>2. view \in View /\ e \in Epoch /\ view.row \in Row
        /\ view.rows \in [Section -> SUBSET Event]
    BY <1>1 DEF ViewInv, View
  <1>3. Query[n] \in Section
        /\ (n = 2 => Query[n] = "approval") /\ (n = 3 => Query[n] = "executions")
        /\ (n = 5 => Query[n] = "timeline")
        /\ (n > 2 => Query[n] # "approval") /\ (n > 3 => Query[n] # "executions")
    BY <1>1 DEF Query, Section
  <1>4. rows \subseteq passport[e] /\ rows \subseteq Event
    BY <1>2, <1>3, RowsHaveEvents
  <1>5. view' = [view EXCEPT !.step = n + 1, !.rows[Query[n]] = rows]
    BY DEF ReadSection
  <1>6. /\ view' \in View /\ view'.step = n + 1 /\ view'.epoch = e /\ view'.row = view.row
        /\ \A s \in Section : view'.rows[s] = IF s = Query[n] THEN rows ELSE view.rows[s]
    <2> DEFINE read == [view.rows EXCEPT ![Query[n]] = rows]
    <2>1. view = [step |-> n, epoch |-> e, row |-> view.row, rows |-> view.rows]
      BY <1>2 DEF View
    <2>2. read \in [Section -> SUBSET Event]
          /\ \A s \in Section : read[s] = IF s = Query[n] THEN rows ELSE view.rows[s]
      BY <1>2, <1>3, <1>4
    <2>3. view' = [step |-> n + 1, epoch |-> e, row |-> view.row, rows |-> read]
      BY <1>5, <2>1
    <2>4. n + 1 \in 1..6
      BY <1>1
    <2> HIDE DEF read
    <2> QED BY <1>2, <2>2, <2>3, <2>4 DEF View
  <1>7. approval' = approval /\ receipts' = receipts /\ passport' = passport
    BY DEF vars, db
  <1>8. \A s \in Section : view'.rows[s] \subseteq passport[e]
    BY <1>1, <1>4, <1>6 DEF ViewInv
  <1>9. view'.step > 2 /\ view.row.state = "APPROVED" => view'.rows["approval"] # {}
    <2> SUFFICES ASSUME n + 1 > 2, view.row.state = "APPROVED"
                 PROVE  view'.rows["approval"] # {}
      BY <1>6
    <2>1. CASE n = 2
      <3>1. approval[e] # None
        BY <1>1 DEF ViewInv
      <3> QED BY <1>3, <1>6, <2>1, <3>1 DEF Rows, Section
    <2>2. CASE n > 2
      BY <1>1, <1>3, <1>6, <2>2 DEF ViewInv, Section
    <2> QED BY <1>1, <2>1, <2>2
  <1>10. view'.step > 3 /\ view.row.state \in Verdict =>
           view.row.state \in view'.rows["executions"]
    <2> SUFFICES ASSUME n + 1 > 3, view.row.state \in Verdict
                 PROVE  view.row.state \in view'.rows["executions"]
      BY <1>6
    <2>1. CASE n = 3
      <3>1. \E r \in Receipts(e) : r.outcome = view.row.state
        BY <1>1 DEF ViewInv
      <3> QED BY <1>3, <1>6, <2>1, <3>1 DEF Rows, Section
    <2>2. CASE n > 3
      BY <1>1, <1>3, <1>6, <2>2 DEF ViewInv, Section
    <2> QED BY <1>1, <2>1, <2>2
  <1>11. view'.step = 6 => PassportAccounts'
    <2> SUFFICES ASSUME n = 5 PROVE PassportAccounts'
      BY <1>1, <1>6
    <2>1. view'.rows["timeline"] = passport[e]
      BY <1>3, <1>6 DEF Rows, Section
    <2>2. view.row.pipeline = "success" => "PIPELINE_VERIFIED" \in passport[e]
      BY <1>1 DEF ViewInv
    <2> QED BY <1>6, <1>8, <1>9, <1>10, <2>1, <2>2 DEF PassportAccounts
  <1> QED BY <1>1, <1>6, <1>7, <1>8, <1>9, <1>10, <1>11 DEF ViewInv, Receipts

(* The reader leaves the orchestrator alone.                               *)
LEMMA ReaderIsInvisible == ViewSpec => Spec
  <1>1. [ViewNext]_viewvars => [Next]_vars
    BY DEF ViewNext, viewvars
  <1> QED BY <1>1, PTL DEF ViewSpec, Spec

(* A change passport accounts for what it shows: its timeline has the      *)
(* event of every change, approval, verdict and capability it lists, and   *)
(* its state the row it came from, although build_passport reads each at   *)
(* another moment while requests commit.                                   *)
THEOREM PassportsAccount == ViewSpec => []PassportAccounts
  <1>1. view = NoView => ViewInv
    BY DEF ViewInv
  <1>2. ASSUME Inv, PassportInv, AccountsInv, ViewInv, [ViewNext]_viewvars
        PROVE  ViewInv'
    <2>1. CASE [Next]_vars /\ UNCHANGED view
      BY <1>2, <2>1, OthersKeepViewInv
    <2>2. ASSUME NEW e \in Epoch, LoadEpoch(e), UNCHANGED vars PROVE ViewInv'
      BY <1>2, <2>2, LoadKeepsViewInv
    <2>3. CASE ReadSection /\ UNCHANGED vars
      BY <1>2, <2>3, ReadKeepsViewInv
    <2> QED BY <1>2, <2>1, <2>2, <2>3 DEF ViewNext, viewvars
  <1>3. ViewInv => PassportAccounts
    BY DEF ViewInv, PassportAccounts, NoView
  <1> QED BY <1>1, <1>2, <1>3, ReaderIsInvisible, Invariant, PassportInvariant,
             AccountsInvariant, PTL DEF ViewSpec
=============================================================================
