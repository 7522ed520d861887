CONSTANTS
  Deployments = {1, 2}
  Kind <- TwoKinds
  Version <- VersionsOfTwo
  Factory = 1
  DownloadRetries = 1
  Tasks = {t1, t2}
  MaxFaults = 3
SPECIFICATION LiveSpec
INVARIANTS
  IInv
  StopWaitsForATask
  InstallIsPrepared
PROPERTIES
  NothingForgotten
  WaitedStopIsTrue
  LoopReleased
  AssignmentClosed
