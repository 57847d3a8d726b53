SPECIFICATION Spec
CONSTANTS
  e1 = e1
  e2 = e2
  t1 = t1
  t2 = t2
  Epoch = {e1}
  Target = {t1}
  Session = {s1}
  Key = {k1}
  Observer = {o1}
  Field = {"commit_sha"}
  Value = {1}
  None = None
  Executor = "gin"
  Remote = TRUE
  Unreliable = FALSE
  RowLocks = TRUE
  TargetOf <- OneTarget
  ReleaseOf <- SameRelease
  ActionOf <- HumanChange
  EnvOf <- InProduction
  TTL = 1
  MaxTime = 0
PROPERTY ApprovalNeedsVerifiedPipeline
