SPECIFICATION BoundarySpec
CONSTANTS
  Name = {"payments-api", "r&d", "trailing-separator"}
  Escaped = {"r&d"}
  Padded = {"trailing-separator"}
  Release = {"v1", "v2"}
  Worker = {w1}
  Action = {"deploy", "promote"}
  TicksPerSecond = 2
  TTL = 2
  MaxClockSkew = 2
  CallTimeout = 1
  Drift = 1
  MaxTime = 9
INVARIANTS
  BoundaryTypeOK
  DecidedWhileGranted
  LateCallsExpire
  RefusedForCause
  ReceiptFingerprints
