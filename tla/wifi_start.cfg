CONSTANTS
  Clients = {c1}
  Requests = {"anker"}
  IsCAnker = FALSE
  MaxAttempts = 2
  MaxEvents = 4
SPECIFICATION Spec
INVARIANTS
  HandlerFlagIsTrue
\* The handling task may have found its flag unset and be gone.
CHECK_DEADLOCK FALSE
