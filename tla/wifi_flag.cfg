CONSTANTS
  Clients = {c1}
  Requests = {"anker", "default"}
  IsCAnker = FALSE
  MaxAttempts = 1
  MaxEvents = 4
SPECIFICATION Spec
INVARIANTS
  StationFlagIsTrue
\* The handling task may have found its flag unset and be gone.
CHECK_DEADLOCK FALSE
