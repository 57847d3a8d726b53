SPECIFICATION Spec
CONSTANTS
  e1 = e1
  e2 = e2
  t1 = t1
  t2 = t2
  Epoch = {e1}
  Target = {t1}
  Session = {s1, s2}
  Key = {k1}
  Observer = {o1}
  Field = {"commit_sha"}
  Value = {1}
  None = None
  Executor = "gin"
  Remote = TRUE
  Unreliable = TRUE
  RowLocks = FALSE
  TargetOf <- OneTarget
  ReleaseOf <- SameRelease
  ActionOf <- AgentDeploy
  EnvOf <- InStaging
  TTL = 1
  MaxTime = 1
SYMMETRY Symmetry
INVARIANTS
  RequestInv
  VerdictHasAuthority
  KeyDecidedOnce
  AgentUnderRequiredControls
  PassportCausality
  HalfChangeServesNoAgent
