SPECIFICATION HistorySpec
CONSTANTS
  Target = {t1}
  Field = {"commit_sha"}
  Value = {1, 2}
  Observer = {o1, o2}
  None = None
  Remote = TRUE
  Unreliable = FALSE
INVARIANT SettledStoresAgree
