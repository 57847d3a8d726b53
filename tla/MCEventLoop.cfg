SPECIFICATION Spec
CONSTANTS
  p1 = p1
  None = None
  Epoch = {e1}
  Pipeline = {p1}
  Sha = {"aaa", "bbb"}
  PipelineOf <- OnePipeline
  CommitOf <- Commits
  Sent <- Hooks
  Content = {c1}
  Path <- Paths
  Request = {r1, r2, r3}
  Threads = 2
  Conns = 2
  Unreliable = TRUE
CHECK_DEADLOCK FALSE
INVARIANTS
  TypeOK
  NothingLeaks
  RedeliveryHarmless
  SuccessWasReported
  LastEventMatches
  RowHasFile
  NoOrphanAtRest
  OneDeadlock
PROPERTIES
  EndsUnlessLoopStuck
  ImplementsHooks
