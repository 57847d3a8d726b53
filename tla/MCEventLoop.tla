---------------------------- MODULE MCEventLoop ----------------------------
(* Instances of EventLoop for TLC: a pipeline whose hooks report its       *)
(* success on the epoch's commit, its success on another one, and a rerun. *)
EXTENDS EventLoop, TLC

CONSTANTS p1

OnePipeline == [e \in Epoch |-> p1]
Commits == [e \in Epoch |-> "aaa"]
Hook(sha, new) == [pipeline |-> p1, sha |-> sha, status |-> new]
Hooks == <<Hook("aaa", "success"), Hook("bbb", "success"), Hook("aaa", "pending")>>
Paths == Epoch \X Content
=============================================================================
