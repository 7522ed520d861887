CONSTANTS
  NumListed = 2
  NumAnkers = 2
  PartitionSize = 3
  DataMaxLen = 2
  MaxReadFails = 0
  MaxSendFails = 0
  MaxAllAcksFails = 0
  MaxFailsToKick = 2
  AckMailbox = 1
  DataMailbox = 1
SPECIFICATION Spec
INVARIANTS
  IInv
  WrittenImageMatchesSeq
  BootsOnlyCompleteImage
  StatusFileTellsTruth
  LastAckMeansInstalled
  DoneMeansInstalled
PROPERTIES
  AdvanceOnlyWhenAllAcked
  RolloutSpec
  StrandedNeverAdvances
\* The transfer is over, every Anker offline, nothing in flight: nothing is left to do.
CHECK_DEADLOCK FALSE
