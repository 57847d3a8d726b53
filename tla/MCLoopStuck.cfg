SPECIFICATION Spec
CONSTANTS
  p1 = p1
  None = None
  Epoch = {e1}
  Pipeline = {p1}
  Sha = {"aaa", "bbb"}
  PipelineOf <- OnePipeline
  CommitOf <- Commits
  Sent <- Hooks
  Content = {c1}
  Path <- Paths
  Request = {r1, r2}
  Threads = 1
  Conns = 2
  Unreliable = FALSE
CHECK_DEADLOCK FALSE
INVARIANT LoopNeverStuck
