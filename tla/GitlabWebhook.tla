--------------------------- MODULE GitlabWebhook ---------------------------
(***************************************************************************)
(* Pipeline hooks and what they do to the epochs pinned to a pipeline.     *)
(* GitLab emits hooks in an order; each may be delivered late, more than   *)
(* once, after a newer one, or never.  A hook is deduplicated by the hash  *)
(* of its bytes, for which its number stands: a redelivery repeats the     *)
(* bytes, another event has other ones.  EventLoop schedules the handler.  *)
(***************************************************************************)
EXTENDS Naturals, Sequences

CONSTANTS
  Epoch,
  Pipeline,
  Sha,
  PipelineOf,  \* the pipeline an epoch is pinned to
  CommitOf,    \* the commit an epoch is pinned to
  Sent         \* the hooks in the order GitLab emits them

Payload == [pipeline: Pipeline, sha: Sha, status: {"pending", "success"}]  \* pending: any other

ASSUME PinTypes ==
  /\ PipelineOf \in [Epoch -> Pipeline]
  /\ CommitOf \in [Epoch -> Sha]
  /\ Sent \in Seq(Payload)

VARIABLES
  status,     \* status[e]: the pipeline_status of e, "none" before e exists
  lastEvent,  \* lastEvent[e]: the last pipeline event in the passport of e
  seen,       \* the hooks in webhook_events
  newest,     \* history: the newest hook whose processing loaded e, or 0
  inOrder     \* history: the hooks were first processed in the order sent

hvars == <<status, lastEvent, seen, newest, inOrder>>

HooksInit ==
  /\ status = [e \in Epoch |-> "none"]
  /\ lastEvent = [e \in Epoch |-> "none"]
  /\ seen = {}
  /\ newest = [e \in Epoch |-> 0] /\ inOrder = TRUE

(* create_epoch, by any other request.                                     *)
EpochCreated(e) ==
  /\ status[e] = "none"
  /\ status' = [status EXCEPT ![e] = "pending"]
  /\ UNCHANGED <<lastEvent, seen, newest, inOrder>>

----------------------------------------------------------------------------
(* Slip: redeliveries are processed again.                                 *)
Duplicate_Never(n) == FALSE

Duplicate(n) == n \in seen

(* The query for the epochs of the pipeline.                               *)
LoadRows(n) == {e \in Epoch : status[e] # "none" /\ PipelineOf[e] = Sent[n].pipeline}

(* Slip: the commit is not compared.                                       *)
NewStatus_AnySha(e, n) == Sent[n].status

NewStatus(e, n) == IF Sent[n].sha = CommitOf[e] THEN Sent[n].status ELSE "sha_mismatch"

(* The rows whose UPDATE the commit emits: those whose value differs.      *)
Updated(n, rows) == {e \in rows : NewStatus(e, n) # status[e]}

(* Slip: a mismatch is not recorded.                                       *)
PipelineEvent_VerifiedOnly(new, last) == IF new = "success" THEN "PIPELINE_VERIFIED" ELSE last

PipelineEvent(new, last) ==
  CASE new = "success" -> "PIPELINE_VERIFIED"
    [] new = "sha_mismatch" -> "PIPELINE_REJECTED"
    [] OTHER -> last

(* Webhook row, statuses and passport events in one commit.                *)
HookEffect(n, rows) ==
  /\ seen' = seen \cup {n}
  /\ status' = [e \in Epoch |-> IF e \in rows THEN NewStatus(e, n) ELSE status[e]]
  /\ lastEvent' = [e \in Epoch |->
       IF e \in Updated(n, rows) THEN PipelineEvent(NewStatus(e, n), lastEvent[e])
       ELSE lastEvent[e]]
  /\ newest' = [e \in Epoch |-> IF e \in rows /\ n > newest[e] THEN n ELSE newest[e]]
  /\ inOrder' = (inOrder /\ (n \in seen \/ \A m \in seen : m < n))

----------------------------------------------------------------------------
(* What the webhook promises, however requests are scheduled: a hook takes *)
(* effect in one step and once, on the epochs of its pipeline; it may only *)
(* miss epochs created meanwhile, which no hook has loaded yet.            *)
HookProcessed(n) ==
  /\ n \notin seen
  /\ \E rows \in SUBSET LoadRows(n) :
       /\ \A e \in LoadRows(n) \ rows : newest[e] = 0
       /\ HookEffect(n, rows)

HooksNext ==
  \/ \E e \in Epoch : EpochCreated(e)
  \/ \E n \in 1..Len(Sent) : HookProcessed(n)

HooksSpec == HooksInit /\ [][HooksNext]_hvars

----------------------------------------------------------------------------
HooksTypeOK ==
  /\ status \in [Epoch -> {"none", "pending", "success", "sha_mismatch"}]
  /\ lastEvent \in [Epoch -> {"none", "PIPELINE_VERIFIED", "PIPELINE_REJECTED"}]
  /\ seen \subseteq 1..Len(Sent)
  /\ newest \in [Epoch -> 0..Len(Sent)]
  /\ inOrder \in BOOLEAN

(* Redeliveries, at any time and however many, undo nothing: as long as    *)
(* new hooks come in order, the status of an epoch is the one of the       *)
(* newest hook whose processing loaded it.  (A hook overtaken by a newer   *)
(* one overwrites its status: main.py 358 compares no order.)              *)
RedeliveryHarmless ==
  inOrder => \A e \in Epoch :
    status[e] = CASE status[e] = "none" -> "none"
                  [] newest[e] = 0 /\ status[e] # "none" -> "pending"
                  [] newest[e] # 0 /\ status[e] # "none" -> NewStatus(e, newest[e])

(* An epoch counts as verified only on a processed hook that reports       *)
(* success of its own pipeline on its own commit, in whatever order hooks  *)
(* come and whenever the epoch was created.                                *)
SuccessWasReported ==
  \A e \in Epoch : status[e] = "success" =>
    \E n \in seen :
      Sent[n] = [pipeline |-> PipelineOf[e], sha |-> CommitOf[e], status |-> "success"]

(* The passport agrees with the row: the last pipeline event of a verified *)
(* epoch is the verification, of a mismatched one the rejection.           *)
LastEventMatches ==
  \A e \in Epoch :
    /\ status[e] = "success" => lastEvent[e] = "PIPELINE_VERIFIED"
    /\ status[e] = "sha_mismatch" => lastEvent[e] = "PIPELINE_REJECTED"
=============================================================================
