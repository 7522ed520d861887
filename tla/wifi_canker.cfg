CONSTANTS
  Clients = {c1}
  Requests = {"own", "default"}
  IsCAnker = TRUE
  MaxAttempts = 2
  MaxEvents = 4
SPECIFICATION Spec
INVARIANTS
  UpdaterFollowsTheLink
  IInv
\* The handling task may have found its flag unset and be gone.
CHECK_DEADLOCK FALSE
