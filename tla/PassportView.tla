---------------------------- MODULE PassportView ----------------------------
(***************************************************************************)
(* GET /api/epochs/{id}/passport: the change passport of an epoch, put     *)
(* together by one query after the other while the orchestrator goes on.   *)
(* Under READ COMMITTED, as on SQLite, each query sees the commits up to   *)
(* its own moment; the epoch's row is the object loaded first.             *)
(*                                                                         *)
(* A section is modelled by what its rows say happened, in the words of    *)
(* the passport events.  Evidence is a subject of EvidenceStore.           *)
(***************************************************************************)
EXTENDS Orchestrator, Sequences

VARIABLE view  \* the passport under construction: one, as readers change nothing

viewvars == <<vars, view>>

(* Slip: the timeline is fetched before the rows it accounts for.          *)
Query_TimelineFirst == <<"timeline", "change", "approval", "executions", "capabilities">>

(* build_passport's queries in their order.                                *)
Query == <<"change", "approval", "executions", "capabilities", "timeline">>

Section == {"change", "approval", "executions", "capabilities", "timeline"}

(* What the query of a section returns now.                                *)
Rows(section, e) ==
  CASE section = "change" -> {event \in {"CHANGE_REQUESTED"} : changed[e]}
    [] section = "approval" -> {event \in {"APPROVED"} : approval[e] # None}
    [] section = "executions" -> {r.outcome : r \in Receipts(e)}
    [] section = "capabilities" ->
         {event \in {"CAPABILITY_ISSUED"} : \E g \in grants : g.epoch = e}
    [] section = "timeline" -> passport[e]

NoView == [step |-> 0]

(* _epoch_or_404                                                           *)
LoadEpoch(e) ==
  /\ view = NoView
  /\ Exists(e)
  /\ view' = [step |-> 1, epoch |-> e, row |-> epochs[e], rows |-> [s \in Section |-> {}]]

ReadSection ==
  /\ view.step \in 1..5
  /\ view' = [view EXCEPT !.step = @ + 1,
                          !.rows[Query[view.step]] = Rows(Query[view.step], view.epoch)]

ViewNext ==
  \/ Next /\ UNCHANGED view
  \/ ((\E e \in Epoch : LoadEpoch(e)) \/ ReadSection) /\ UNCHANGED vars

ViewSpec == Init /\ view = NoView /\ [][ViewNext]_viewvars

----------------------------------------------------------------------------
(* A passport under construction; at step 6 it is complete.                *)
View == [step: 1..6, epoch: Epoch, row: Row, rows: [Section -> SUBSET Event]]

(* However the requests of others fall between the queries, a passport     *)
(* accounts for what it shows: every change, approval, verdict and         *)
(* capability of it is in its timeline, a verified pipeline has its event, *)
(* and the state of the release has the approval or the receipt it came    *)
(* from.  (The converse does not hold: what commits during the reading is  *)
(* in the timeline and missing in the sections read before.)               *)
PassportAccounts ==
  view.step = 6 =>
    /\ \A s \in Section : view.rows[s] \subseteq view.rows["timeline"]
    /\ view.row.pipeline = "success" => "PIPELINE_VERIFIED" \in view.rows["timeline"]
    /\ view.row.state = "APPROVED" => view.rows["approval"] # {}
    /\ view.row.state \in Verdict => view.row.state \in view.rows["executions"]
=============================================================================
