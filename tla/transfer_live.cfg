CONSTANTS
  NumListed = 2
  NumAnkers = 2
  PartitionSize = 3
  DataMaxLen = 2
  MaxReadFails = 0
  MaxSendFails = 0
  MaxAllAcksFails = 1
  MaxFailsToKick = 2
  AckMailbox = 3
  DataMailbox = 1
  MaxFaults = 2
SPECIFICATION LiveSpec
PROPERTIES
  EndsUnlessStranded
\* The transfer is over, every Anker offline, nothing in flight: nothing is left to do.
CHECK_DEADLOCK FALSE
