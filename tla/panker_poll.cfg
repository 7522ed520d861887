\* Two UDP tasks can meet, one of them on its way home, with a TCP task.
CONSTANTS
  UdpTasks = {u1, u2}
  TcpTasks = {t1}
  Connectors = {c1}
  Loop = loop
SPECIFICATION Spec
INVARIANTS
  IInv
  OneOfAKind
  FlagIsTrue
PROPERTIES
  StopIsTrue
  GivesUpOnlyOnTheBusy
  ListensInTheEnd
\* An Anker that is offline and has no task left waits for the network.
CHECK_DEADLOCK FALSE
