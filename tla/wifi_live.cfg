CONSTANTS
  Clients = {c1}
  Requests = {"anker", "default"}
  IsCAnker = FALSE
  MaxAttempts = 2
  MaxEvents = 4
  MaxFaults = 3
SPECIFICATION LiveSpec
PROPERTIES
  ComesOnline
\* The handling task may have found its flag unset and be gone.
CHECK_DEADLOCK FALSE
