SPECIFICATION HistorySpec
CONSTANTS
  Target = {t1}
  Field = {"commit_sha", "config_hash"}
  Value = {1, 2}
  Observer = {o1, o2}
  None = None
  Remote = TRUE
  Unreliable = TRUE
INVARIANTS
  TargetsTypeOK
  ExecutorFollowsDatabase
  UndisturbedStoresAgree
  LiveWasObserved
PROPERTIES ObservationsEnd
