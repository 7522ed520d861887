------------------------- MODULE HawkbitClientProofs -------------------------
(* Proofs about HawkbitClient, for every set of deployments and of tasks,    *)
(* every assignment of kinds and versions, and every number of retries.      *)
EXTENDS HawkbitClient, TLAPS

(* A step of a task keeps every variable in its type                         *)
(* (hawkbit_client.cpp:1186-1336).                                           *)
LEMMA TaskStepType ==
    ASSUME TypeOK, PlaceInv,
           NEW t \in Tasks, TaskStep(t), ~RestartToInstall(t)
    PROVE  TypeOK'
  <1>1. CASE EnterBody(t)
    <2>1. FlagType'
      BY <1>1, Zenon DEF EnterBody, MoveTo, loopVars, sharedVars, imageVars,
        serverVars, TypeOK, FlagType
    <2>2. DataType'
      BY <1>1 DEF EnterBody, MoveTo, loopVars, sharedVars, imageVars,
        serverVars, TypeOK, DataType, Places, States
    <2> QED
      BY <2>1, <2>2 DEF TypeOK
  <1>2. CASE EndTask(t)
    <2>1. FlagType'
      BY <1>2, Zenon DEF EndTask, loopVars, imageVars, serverVars, TypeOK,
        FlagType
    <2>2. DataType'
      BY <1>2, HawkbitAssumption DEF EndTask, loopVars, imageVars,
        serverVars, TypeOK, DataType, Places, States, Info, Statuses,
        NoInfo
    <2> QED
      BY <2>1, <2>2 DEF TypeOK
  <1>3. CASE LeaveIdle(t)
    <2>1. FlagType'
      BY <1>3, Zenon DEF LeaveIdle, InBody, GoTo, AfterIdle, loopVars,
        imageVars, serverVars, TypeOK, FlagType
    <2>2. DataType'
      BY <1>3 DEF LeaveIdle, InBody, GoTo, AfterIdle, loopVars, imageVars,
        serverVars, TypeOK, DataType, Places, States
    <2> QED
      BY <2>1, <2>2 DEF TypeOK
  <1>4. CASE NothingToDo(t)
    <2>1. FlagType'
      BY <1>4, Zenon DEF NothingToDo, InBody, GoTo, loopVars, sharedVars,
        imageVars, serverVars, TypeOK, FlagType
    <2>2. DataType'
      BY <1>4 DEF NothingToDo, InBody, GoTo, loopVars, sharedVars,
        imageVars, serverVars, TypeOK, DataType, Places, States
    <2> QED
      BY <2>1, <2>2 DEF TypeOK
  <1>5. CASE FindDeployment(t)
    <2>1. FlagType'
      BY <1>5, Zenon DEF FindDeployment, InBody, GoTo, loopVars, sharedVars,
        imageVars, serverVars, TypeOK, FlagType
    <2>2. DataType'
      BY <1>5 DEF FindDeployment, InBody, GoTo, loopVars, sharedVars,
        imageVars, serverVars, TypeOK, DataType, Places, States, Info,
        Statuses, NoInfo
    <2> QED
      BY <2>1, <2>2 DEF TypeOK
  <1>6. CASE \E sent \in BOOLEAN : Inform(t, sent)
    <2>1. FlagType'
      BY <1>6, Zenon DEF Inform, InBody, GoTo, loopVars, imageVars,
        serverVars, TypeOK, FlagType
    <2>2. DataType'
      BY <1>6 DEF Inform, InBody, GoTo, loopVars, imageVars, serverVars,
        TypeOK, DataType, Places, States
    <2> QED
      BY <2>1, <2>2 DEF TypeOK
  <1>7. CASE StopTask(t)
    <2>1. FlagType'
      BY <1>7, Zenon DEF StopTask, InBody, GoTo, loopVars, imageVars,
        serverVars, TypeOK, FlagType
    <2>2. DataType'
      BY <1>7 DEF StopTask, InBody, GoTo, loopVars, imageVars, serverVars,
        TypeOK, DataType, Places, States
    <2> QED
      BY <2>1, <2>2 DEF TypeOK
  <1>8. CASE IgnoreDeployment(t)
    <2>1. FlagType'
      BY <1>8, Zenon DEF IgnoreDeployment, InBody, GoTo, loopVars,
        sharedVars, imageVars, serverVars, TypeOK, FlagType
    <2>2. DataType'
      BY <1>8 DEF IgnoreDeployment, InBody, GoTo, loopVars, sharedVars,
        imageVars, serverVars, TypeOK, DataType, Places, States
    <2> QED
      BY <2>1, <2>2 DEF TypeOK
  <1>9. CASE SkipDownload(t)
    <2>1. FlagType'
      BY <1>9, Zenon DEF SkipDownload, NoDownloadStatus, InBody, MoveTo,
        loopVars, sharedVars, imageVars, serverVars, TypeOK, FlagType
    <2>2. DataType'
      BY <1>9 DEF SkipDownload, NoDownloadStatus, InBody, MoveTo, loopVars,
        sharedVars, imageVars, serverVars, TypeOK, DataType, Places,
        States, Info, Statuses
    <2> QED
      BY <2>1, <2>2 DEF TypeOK
  <1>10. CASE StartDownload(t)
    <2>1. FlagType'
      BY <1>10, Zenon DEF StartDownload, InBody, MoveTo, loopVars,
        sharedVars, imageVars, serverVars, TypeOK, FlagType
    <2>2. DataType'
      BY <1>10, HawkbitAssumption DEF StartDownload, InBody, MoveTo,
        loopVars, sharedVars, imageVars, serverVars, TypeOK, DataType,
        Places, States
    <2> QED
      BY <2>1, <2>2 DEF TypeOK
  <1>11. CASE Downloaded(t)
    <2>1. FlagType'
      BY <1>11, Zenon DEF Downloaded, BootImage, WriteImage, MoveTo,
        loopVars, sharedVars, serverVars, TypeOK, FlagType
    <2>2. DataType'
      BY <1>11 DEF Downloaded, BootImage, WriteImage, MoveTo, loopVars,
        sharedVars, serverVars, TypeOK, DataType, Places, States, Info,
        Statuses, PlaceInv, Versions
    <2> QED
      BY <2>1, <2>2 DEF TypeOK
  <1>12. CASE RetryDownload(t)
    <2>1. FlagType'
      BY <1>12, Zenon DEF RetryDownload, FailedAttempt, WriteImage,
        SpoilImage, loopVars, sharedVars, imageVars, serverVars, TypeOK,
        FlagType
    <2>2. tries' \in [Tasks -> 0..DownloadRetries]
      <3>1. tries[t] \in 0..DownloadRetries /\ tries[t] > 0
        BY <1>12 DEF RetryDownload, TypeOK, DataType
      <3>2. tries[t] - 1 \in 0..DownloadRetries
        BY <3>1, HawkbitAssumption
      <3> QED
        BY <1>12, <3>2 DEF RetryDownload, TypeOK, DataType
    <2>3. next' \in Versions \cup {None} /\ boot' \in {"running", "next"}
      BY <1>12 DEF RetryDownload, FailedAttempt, WriteImage, SpoilImage,
        imageVars, Versions, PlaceInv, TypeOK, DataType
    <2>4. DataType'
      BY <1>12, <2>2, <2>3 DEF RetryDownload, FailedAttempt, WriteImage,
        SpoilImage, loopVars, sharedVars, imageVars, serverVars, TypeOK,
        DataType
    <2> QED
      BY <2>1, <2>4 DEF TypeOK
  <1>13. CASE GiveUpDownload(t)
    <2>1. FlagType'
      BY <1>13, Zenon DEF GiveUpDownload, FailedAttempt, WriteImage,
        SpoilImage, MoveTo, loopVars, sharedVars, imageVars, serverVars,
        TypeOK, FlagType
    <2>2. DataType'
      BY <1>13 DEF GiveUpDownload, FailedAttempt, WriteImage, SpoilImage,
        MoveTo, loopVars, sharedVars, imageVars, serverVars, TypeOK,
        DataType, Places, States, Info, Statuses, PlaceInv, Versions
    <2> QED
      BY <2>1, <2>2 DEF TypeOK
  <1>14. CASE SaveStatus(t)
    <2>1. FlagType'
      BY <1>14, Zenon DEF SaveStatus, AfterSave, GoTo, loopVars, sharedVars,
        imageVars, serverVars, TypeOK, FlagType
    <2>2. DataType'
      BY <1>14 DEF SaveStatus, AfterSave, GoTo, loopVars, sharedVars,
        imageVars, serverVars, TypeOK, DataType, Places, States, Info,
        Statuses
    <2> QED
      BY <2>1, <2>2 DEF TypeOK
  <1>15. CASE SaveFails(t)
    <2>1. FlagType'
      BY <1>15, Zenon DEF SaveFails, GoTo, loopVars, sharedVars, imageVars,
        serverVars, TypeOK, FlagType
    <2>2. DataType'
      BY <1>15 DEF SaveFails, GoTo, loopVars, sharedVars, imageVars,
        serverVars, TypeOK, DataType, Places, States
    <2> QED
      BY <2>1, <2>2 DEF TypeOK
  <1>16. CASE NothingToInstall(t)
    <2>1. FlagType'
      BY <1>16, Zenon DEF NothingToInstall, InBody, GoTo, loopVars,
        sharedVars, imageVars, serverVars, TypeOK, FlagType
    <2>2. DataType'
      BY <1>16 DEF NothingToInstall, InBody, GoTo, loopVars, sharedVars,
        imageVars, serverVars, TypeOK, DataType, Places, States
    <2> QED
      BY <2>1, <2>2 DEF TypeOK
  <1>17. CASE NothingToReport(t)
    <2>1. FlagType'
      BY <1>17, Zenon DEF NothingToReport, MayConfirm, InBody, GoTo,
        loopVars, sharedVars, serverVars, TypeOK, FlagType
    <2>2. DataType'
      BY <1>17 DEF NothingToReport, MayConfirm, InBody, GoTo, loopVars,
        sharedVars, serverVars, TypeOK, DataType, Places, States
    <2> QED
      BY <2>1, <2>2 DEF TypeOK
  <1>18. CASE BeginReport(t)
    <2>1. FlagType'
      BY <1>18, Zenon DEF BeginReport, MayConfirm, MayWrite, InBody, MoveTo,
        loopVars, sharedVars, serverVars, TypeOK, FlagType
    <2>2. DataType'
      BY <1>18 DEF BeginReport, MayConfirm, MayWrite, InBody, MoveTo,
        loopVars, sharedVars, serverVars, TypeOK, DataType, Places, States,
        Info, Statuses
    <2> QED
      BY <2>1, <2>2 DEF TypeOK
  <1>19. CASE BeginSession(t)
    <2>1. FlagType'
      BY <1>19, Zenon DEF BeginSession, MoveTo, loopVars, imageVars,
        serverVars, TypeOK, FlagType
    <2>2. DataType'
      BY <1>19 DEF BeginSession, MoveTo, loopVars, imageVars, serverVars,
        TypeOK, DataType, Places, States
    <2> QED
      BY <2>1, <2>2 DEF TypeOK
  <1>20. CASE \E result \in {"HANDLED_P_ANKER_UPDATE", "INSTALL_FAILED"} :
              EndSession(t, result)
    <2>1. FlagType'
      BY <1>20, Zenon DEF EndSession, MayWrite, MoveTo, loopVars, imageVars,
        serverVars, TypeOK, FlagType
    <2>2. DataType'
      BY <1>20 DEF EndSession, MayWrite, MoveTo, loopVars, imageVars,
        serverVars, TypeOK, DataType, Places, States, Info, Statuses
    <2> QED
      BY <2>1, <2>2 DEF TypeOK
  <1>21. CASE ReportAccepted(t)
    <2>1. FlagType'
      BY <1>21, Zenon DEF ReportAccepted, ServerCloses, Outcome, MoveTo,
        loopVars, sharedVars, imageVars, serverVars, TypeOK, FlagType
    <2>2. DataType'
      BY <1>21 DEF ReportAccepted, ServerCloses, Outcome, MoveTo, loopVars,
        sharedVars, imageVars, serverVars, TypeOK, DataType, Places,
        States, PlaceInv
    <2> QED
      BY <2>1, <2>2 DEF TypeOK
  <1>22. CASE ReportFails(t)
    <2>1. FlagType'
      BY <1>22, Zenon DEF ReportFails, ServerCloses, Outcome, GoTo, loopVars,
        sharedVars, imageVars, serverVars, TypeOK, FlagType
    <2>2. DataType'
      BY <1>22 DEF ReportFails, ServerCloses, Outcome, GoTo, loopVars,
        sharedVars, imageVars, serverVars, TypeOK, DataType, Places,
        States, PlaceInv
    <2> QED
      BY <2>1, <2>2 DEF TypeOK
  <1>23. CASE EraseFile(t)
    <2>1. FlagType'
      BY <1>23, Zenon DEF EraseFile, GoTo, loopVars, sharedVars, imageVars,
        serverVars, TypeOK, FlagType
    <2>2. DataType'
      BY <1>23 DEF EraseFile, GoTo, loopVars, sharedVars, imageVars,
        serverVars, TypeOK, DataType, Places, States, Info, Statuses,
        NoInfo, NoFile
    <2> QED
      BY <2>1, <2>2 DEF TypeOK
  <1> QED
    BY <1>1, <1>2, <1>3, <1>4, <1>5, <1>6, <1>7, <1>8, <1>9, <1>10,
      <1>11, <1>12, <1>13, <1>14, <1>15, <1>16, <1>17, <1>18, <1>19, <1>20,
      <1>21, <1>22, <1>23 DEF TaskStep

(* So does a handler of the event loop (hawkbit_client.cpp:1354-1400).       *)
LEMMA EventLoopType ==
    ASSUME TypeOK, EventLoop
    PROVE  TypeOK'
  <1>1. CASE Repoll
    <2>1. FlagType'
      BY <1>1, Zenon DEF Repoll, taskVars, imageVars, serverVars, TypeOK,
        FlagType
    <2>2. DataType'
      BY <1>1 DEF Repoll, taskVars, imageVars, serverVars, TypeOK, DataType
    <2> QED
      BY <2>1, <2>2 DEF TypeOK
  <1>2. ASSUME NEW t \in Tasks, CreateTask(t)
       PROVE  TypeOK'
    <2>1. FlagType'
      BY <1>2, Zenon DEF CreateTask, GoTo, imageVars, serverVars, TypeOK,
        FlagType
    <2>2. DataType'
      BY <1>2 DEF CreateTask, GoTo, imageVars, serverVars, TypeOK, DataType,
        Places, States
    <2> QED
      BY <2>1, <2>2 DEF TypeOK
  <1>3. CASE NoTaskCreated
    <2>1. FlagType'
      BY <1>3, Zenon DEF NoTaskCreated, sharedVars, taskVars, imageVars,
        serverVars, TypeOK, FlagType
    <2>2. DataType'
      BY <1>3 DEF NoTaskCreated, sharedVars, taskVars, imageVars,
        serverVars, TypeOK, DataType
    <2> QED
      BY <2>1, <2>2 DEF TypeOK
  <1>4. CASE StopIgnored
    <2>1. FlagType'
      BY <1>4, Zenon DEF StopIgnored, sharedVars, taskVars, imageVars,
        serverVars, TypeOK, FlagType
    <2>2. DataType'
      BY <1>4 DEF StopIgnored, sharedVars, taskVars, imageVars, serverVars,
        TypeOK, DataType
    <2> QED
      BY <2>1, <2>2 DEF TypeOK
  <1>5. CASE StopRequested
    <2>1. FlagType'
      BY <1>5, Zenon DEF StopRequested, taskVars, imageVars, serverVars,
        TypeOK, FlagType
    <2>2. DataType'
      BY <1>5 DEF StopRequested, taskVars, imageVars, serverVars, TypeOK,
        DataType
    <2> QED
      BY <2>1, <2>2 DEF TypeOK
  <1>6. CASE StopReturns
    <2>1. FlagType'
      BY <1>6, Zenon DEF StopReturns, sharedVars, taskVars, imageVars,
        serverVars, TypeOK, FlagType
    <2>2. DataType'
      BY <1>6 DEF StopReturns, sharedVars, taskVars, imageVars, serverVars,
        TypeOK, DataType
    <2> QED
      BY <2>1, <2>2 DEF TypeOK
  <1> QED
    BY <1>1, <1>2, <1>3, <1>4, <1>5, <1>6 DEF EventLoop

(* A task ends, and comes to its end, only as the handshake with the event   *)
(* loop allows (hawkbit_client.cpp:1186-1336).                               *)
LEMMA TaskStepStartStop ==
    ASSUME TypeOK, PlaceInv, StartStopInv,
           NEW t \in Tasks, TaskStep(t), ~RestartToInstall(t)
    PROVE  StartStopInv'
  <1>1. CASE EnterBody(t)
    BY <1>1 DEF EnterBody, MoveTo, loopVars, sharedVars, imageVars,
      serverVars, PlaceInv, Reporting, StartStopInv, FirstCycle,
      LaterCycles, Alive, Ending, TypeOK, DataType, Places, States
  <1>2. CASE EndTask(t)
    BY <1>2 DEF EndTask, loopVars, imageVars, serverVars, PlaceInv,
      Reporting, StartStopInv, FirstCycle, LaterCycles, Alive, Ending,
      TypeOK, DataType, Places, States
  <1>3. CASE LeaveIdle(t)
    BY <1>3 DEF LeaveIdle, InBody, GoTo, AfterIdle, loopVars, imageVars,
      serverVars, PlaceInv, Reporting, StartStopInv, FirstCycle,
      LaterCycles, Alive, Ending, TypeOK, DataType, Places, States
  <1>4. CASE NothingToDo(t)
    BY <1>4 DEF NothingToDo, InBody, GoTo, loopVars, sharedVars,
      imageVars, serverVars, PlaceInv, Reporting, StartStopInv, FirstCycle,
      LaterCycles, Alive, Ending, TypeOK, DataType, Places, States
  <1>5. CASE FindDeployment(t)
    BY <1>5 DEF FindDeployment, InBody, GoTo, loopVars, sharedVars,
      imageVars, serverVars, PlaceInv, Reporting, StartStopInv, FirstCycle,
      LaterCycles, Alive, Ending, TypeOK, DataType, Places, States
  <1>6. CASE \E sent \in BOOLEAN : Inform(t, sent)
    BY <1>6 DEF Inform, InBody, GoTo, loopVars, imageVars, serverVars,
      PlaceInv, Reporting, StartStopInv, FirstCycle, LaterCycles, Alive,
      Ending, TypeOK, DataType, Places, States
  <1>7. CASE StopTask(t)
    BY <1>7 DEF StopTask, InBody, GoTo, loopVars, imageVars, serverVars,
      PlaceInv, Reporting, StartStopInv, FirstCycle, LaterCycles, Alive,
      Ending, TypeOK, DataType, Places, States
  <1>8. CASE IgnoreDeployment(t)
    BY <1>8 DEF IgnoreDeployment, InBody, GoTo, loopVars, sharedVars,
      imageVars, serverVars, PlaceInv, Reporting, StartStopInv, FirstCycle,
      LaterCycles, Alive, Ending, TypeOK, DataType, Places, States
  <1>9. CASE SkipDownload(t)
    BY <1>9 DEF SkipDownload, NoDownloadStatus, InBody, MoveTo, loopVars,
      sharedVars, imageVars, serverVars, PlaceInv, Reporting, StartStopInv,
      FirstCycle, LaterCycles, Alive, Ending, TypeOK, DataType, Places,
      States
  <1>10. CASE StartDownload(t)
    BY <1>10 DEF StartDownload, InBody, MoveTo, loopVars, sharedVars,
      imageVars, serverVars, PlaceInv, Reporting, StartStopInv, FirstCycle,
      LaterCycles, Alive, Ending, TypeOK, DataType, Places, States
  <1>11. CASE Downloaded(t)
    BY <1>11 DEF Downloaded, BootImage, WriteImage, MoveTo, loopVars,
      sharedVars, serverVars, PlaceInv, Reporting, StartStopInv,
      FirstCycle, LaterCycles, Alive, Ending, TypeOK, DataType, Places,
      States
  <1>12. CASE RetryDownload(t)
    BY <1>12 DEF RetryDownload, FailedAttempt, WriteImage, SpoilImage,
      loopVars, sharedVars, imageVars, serverVars, PlaceInv, Reporting,
      StartStopInv, FirstCycle, LaterCycles, Alive, Ending, TypeOK,
      DataType, Places, States
  <1>13. CASE GiveUpDownload(t)
    BY <1>13 DEF GiveUpDownload, FailedAttempt, WriteImage, SpoilImage,
      MoveTo, loopVars, sharedVars, imageVars, serverVars, PlaceInv,
      Reporting, StartStopInv, FirstCycle, LaterCycles, Alive, Ending,
      TypeOK, DataType, Places, States
  <1>14. CASE SaveStatus(t)
    BY <1>14 DEF SaveStatus, AfterSave, GoTo, loopVars, sharedVars,
      imageVars, serverVars, PlaceInv, Reporting, StartStopInv, FirstCycle,
      LaterCycles, Alive, Ending, TypeOK, DataType, Places, States
  <1>15. CASE SaveFails(t)
    BY <1>15 DEF SaveFails, GoTo, loopVars, sharedVars, imageVars,
      serverVars, PlaceInv, Reporting, StartStopInv, FirstCycle,
      LaterCycles, Alive, Ending, TypeOK, DataType, Places, States
  <1>16. CASE NothingToInstall(t)
    BY <1>16 DEF NothingToInstall, InBody, GoTo, loopVars, sharedVars,
      imageVars, serverVars, PlaceInv, Reporting, StartStopInv, FirstCycle,
      LaterCycles, Alive, Ending, TypeOK, DataType, Places, States
  <1>17. CASE NothingToReport(t)
    BY <1>17 DEF NothingToReport, MayConfirm, InBody, GoTo, loopVars,
      sharedVars, serverVars, PlaceInv, Reporting, StartStopInv,
      FirstCycle, LaterCycles, Alive, Ending, TypeOK, DataType, Places,
      States
  <1>18. CASE BeginReport(t)
    BY <1>18 DEF BeginReport, MayConfirm, MayWrite, InBody, MoveTo,
      loopVars, sharedVars, serverVars, PlaceInv, Reporting, StartStopInv,
      FirstCycle, LaterCycles, Alive, Ending, TypeOK, DataType, Places,
      States
  <1>19. CASE BeginSession(t)
    BY <1>19 DEF BeginSession, MoveTo, loopVars, imageVars, serverVars,
      PlaceInv, Reporting, StartStopInv, FirstCycle, LaterCycles, Alive,
      Ending, TypeOK, DataType, Places, States
  <1>20. CASE \E result \in {"HANDLED_P_ANKER_UPDATE", "INSTALL_FAILED"} :
              EndSession(t, result)
    BY <1>20 DEF EndSession, MayWrite, MoveTo, loopVars, imageVars,
      serverVars, PlaceInv, Reporting, StartStopInv, FirstCycle,
      LaterCycles, Alive, Ending, TypeOK, DataType, Places, States
  <1>21. CASE ReportAccepted(t)
    BY <1>21 DEF ReportAccepted, ServerCloses, Outcome, MoveTo, loopVars,
      sharedVars, imageVars, serverVars, PlaceInv, Reporting, StartStopInv,
      FirstCycle, LaterCycles, Alive, Ending, TypeOK, DataType, Places,
      States
  <1>22. CASE ReportFails(t)
    BY <1>22 DEF ReportFails, ServerCloses, Outcome, GoTo, loopVars,
      sharedVars, imageVars, serverVars, PlaceInv, Reporting, StartStopInv,
      FirstCycle, LaterCycles, Alive, Ending, TypeOK, DataType, Places,
      States
  <1>23. CASE EraseFile(t)
    BY <1>23 DEF EraseFile, GoTo, loopVars, sharedVars, imageVars,
      serverVars, PlaceInv, Reporting, StartStopInv, FirstCycle,
      LaterCycles, Alive, Ending, TypeOK, DataType, Places, States
  <1> QED
    BY <1>1, <1>2, <1>3, <1>4, <1>5, <1>6, <1>7, <1>8, <1>9, <1>10,
      <1>11, <1>12, <1>13, <1>14, <1>15, <1>16, <1>17, <1>18, <1>19, <1>20,
      <1>21, <1>22, <1>23 DEF TaskStep

(* The event loop starts a task beside another, and waits for one, only as   *)
(* it allows (hawkbit_client.cpp:1354-1400).                                 *)
LEMMA EventLoopStartStop ==
    ASSUME TypeOK, StartStopInv, EventLoop
    PROVE  StartStopInv'
  <1>1. CASE Repoll
    BY <1>1 DEF Repoll, taskVars, imageVars, serverVars, StartStopInv,
      FirstCycle, LaterCycles, Alive, Ending, TypeOK, DataType, Places,
      States
  <1>2. ASSUME NEW t \in Tasks, CreateTask(t)
       PROVE  StartStopInv'
    <2>1. /\ at' = [at EXCEPT ![t] = "top"]
          /\ client' = [client EXCEPT ![t] = "CHECK"]
          /\ runState' = "ACTIVE"
          /\ bits' = bits
          /\ loop = "free" /\ loop' = "free"
          /\ overlap' = (overlap \/ Alive # {})
      BY <1>2 DEF CreateTask, GoTo
    <2>2. "STOPPED" \notin bits => Alive = {}
      BY <1>2 DEF CreateTask, StartStopInv, FirstCycle
    <2>3. Alive' = Alive \cup {t}
      BY <2>1 DEF Alive, TypeOK, DataType
    <2>4. FirstCycle'
      <3>1. "STOPPED" \notin bits =>
              Alive' = {t} /\ client'[t] = "CHECK" /\ ~overlap'
        BY <2>1, <2>2, <2>3 DEF StartStopInv, FirstCycle, TypeOK, DataType
      <3> QED
        BY <2>1, <3>1 DEF FirstCycle, StartStopInv, Ending
    <2>5. LaterCycles'
      BY <2>1, <2>3 DEF LaterCycles
    <2> QED
      BY <2>4, <2>5 DEF StartStopInv
  <1>3. CASE NoTaskCreated
    BY <1>3 DEF NoTaskCreated, sharedVars, taskVars, imageVars,
      serverVars, StartStopInv, FirstCycle, LaterCycles, Alive, Ending,
      TypeOK, DataType, Places, States
  <1>4. CASE StopIgnored
    BY <1>4 DEF StopIgnored, sharedVars, taskVars, imageVars, serverVars,
      StartStopInv, FirstCycle, LaterCycles, Alive, Ending, TypeOK,
      DataType, Places, States
  <1>5. CASE StopRequested
    BY <1>5 DEF StopRequested, taskVars, imageVars, serverVars,
      StartStopInv, FirstCycle, LaterCycles, Alive, Ending, TypeOK,
      DataType, Places, States
  <1>6. CASE StopReturns
    BY <1>6 DEF StopReturns, sharedVars, taskVars, imageVars, serverVars,
      StartStopInv, FirstCycle, LaterCycles, Alive, Ending, TypeOK,
      DataType, Places, States
  <1> QED
    BY <1>1, <1>2, <1>3, <1>4, <1>5, <1>6 DEF EventLoop

(* The places of a task stay in their states, and its work and the file      *)
(* stay about a deployment (hawkbit_client.cpp:1186-1336).                   *)
LEMMA TaskStepPlace ==
    ASSUME TypeOK, PlaceInv,
           NEW t \in Tasks, TaskStep(t), ~RestartToInstall(t)
    PROVE  PlaceInv'
  <1>1. CASE EnterBody(t)
    BY <1>1, HawkbitAssumption DEF EnterBody, MoveTo, loopVars,
      sharedVars, imageVars, serverVars, PlaceInv, Reporting, TypeOK,
      DataType, Info, Places, States, NoInfo, NoFile
  <1>2. CASE EndTask(t)
    BY <1>2, HawkbitAssumption DEF EndTask, loopVars, imageVars,
      serverVars, PlaceInv, Reporting, TypeOK, DataType, Info, Places,
      States, NoInfo, NoFile
  <1>3. CASE LeaveIdle(t)
    BY <1>3, HawkbitAssumption DEF LeaveIdle, InBody, GoTo, AfterIdle,
      loopVars, imageVars, serverVars, PlaceInv, Reporting, TypeOK,
      DataType, Info, Places, States, NoInfo, NoFile
  <1>4. CASE NothingToDo(t)
    BY <1>4, HawkbitAssumption DEF NothingToDo, InBody, GoTo, loopVars,
      sharedVars, imageVars, serverVars, PlaceInv, Reporting, TypeOK,
      DataType, Info, Places, States, NoInfo, NoFile
  <1>5. CASE FindDeployment(t)
    BY <1>5, HawkbitAssumption DEF FindDeployment, InBody, GoTo,
      loopVars, sharedVars, imageVars, serverVars, PlaceInv, Reporting,
      TypeOK, DataType, Info, Places, States, NoInfo, NoFile
  <1>6. CASE \E sent \in BOOLEAN : Inform(t, sent)
    BY <1>6, HawkbitAssumption DEF Inform, InBody, GoTo, loopVars,
      imageVars, serverVars, PlaceInv, Reporting, TypeOK, DataType, Info,
      Places, States, NoInfo, NoFile
  <1>7. CASE StopTask(t)
    BY <1>7, HawkbitAssumption DEF StopTask, InBody, GoTo, loopVars,
      imageVars, serverVars, PlaceInv, Reporting, TypeOK, DataType, Info,
      Places, States, NoInfo, NoFile
  <1>8. CASE IgnoreDeployment(t)
    BY <1>8, HawkbitAssumption DEF IgnoreDeployment, InBody, GoTo,
      loopVars, sharedVars, imageVars, serverVars, PlaceInv, Reporting,
      TypeOK, DataType, Info, Places, States, NoInfo, NoFile
  <1>9. CASE SkipDownload(t)
    BY <1>9, HawkbitAssumption DEF SkipDownload, NoDownloadStatus,
      InBody, MoveTo, loopVars, sharedVars, imageVars, serverVars,
      PlaceInv, Reporting, TypeOK, DataType, Info, Places, States, NoInfo,
      NoFile
  <1>10. CASE StartDownload(t)
    BY <1>10, HawkbitAssumption DEF StartDownload, InBody, MoveTo,
      loopVars, sharedVars, imageVars, serverVars, PlaceInv, Reporting,
      TypeOK, DataType, Info, Places, States, NoInfo, NoFile
  <1>11. CASE Downloaded(t)
    BY <1>11, HawkbitAssumption DEF Downloaded, BootImage, WriteImage,
      MoveTo, loopVars, sharedVars, serverVars, PlaceInv, Reporting,
      TypeOK, DataType, Info, Places, States, NoInfo, NoFile
  <1>12. CASE RetryDownload(t)
    BY <1>12, HawkbitAssumption DEF RetryDownload, FailedAttempt,
      WriteImage, SpoilImage, loopVars, sharedVars, imageVars, serverVars,
      PlaceInv, Reporting, TypeOK, DataType, Info, Places, States, NoInfo,
      NoFile
  <1>13. CASE GiveUpDownload(t)
    BY <1>13, HawkbitAssumption DEF GiveUpDownload, FailedAttempt,
      WriteImage, SpoilImage, MoveTo, loopVars, sharedVars, imageVars,
      serverVars, PlaceInv, Reporting, TypeOK, DataType, Info, Places,
      States, NoInfo, NoFile
  <1>14. CASE SaveStatus(t)
    BY <1>14, HawkbitAssumption DEF SaveStatus, AfterSave, GoTo,
      loopVars, sharedVars, imageVars, serverVars, PlaceInv, Reporting,
      TypeOK, DataType, Info, Places, States, NoInfo, NoFile
  <1>15. CASE SaveFails(t)
    BY <1>15, HawkbitAssumption DEF SaveFails, GoTo, loopVars,
      sharedVars, imageVars, serverVars, PlaceInv, Reporting, TypeOK,
      DataType, Info, Places, States, NoInfo, NoFile
  <1>16. CASE NothingToInstall(t)
    BY <1>16, HawkbitAssumption DEF NothingToInstall, InBody, GoTo,
      loopVars, sharedVars, imageVars, serverVars, PlaceInv, Reporting,
      TypeOK, DataType, Info, Places, States, NoInfo, NoFile
  <1>17. CASE NothingToReport(t)
    BY <1>17, HawkbitAssumption DEF NothingToReport, MayConfirm, InBody,
      GoTo, loopVars, sharedVars, serverVars, PlaceInv, Reporting, TypeOK,
      DataType, Info, Places, States, NoInfo, NoFile
  <1>18. CASE BeginReport(t)
    BY <1>18, HawkbitAssumption DEF BeginReport, MayConfirm, MayWrite,
      InBody, MoveTo, loopVars, sharedVars, serverVars, PlaceInv,
      Reporting, TypeOK, DataType, Info, Places, States, NoInfo, NoFile
  <1>19. CASE BeginSession(t)
    BY <1>19, HawkbitAssumption DEF BeginSession, MoveTo, loopVars,
      imageVars, serverVars, PlaceInv, Reporting, TypeOK, DataType, Info,
      Places, States, NoInfo, NoFile
  <1>20. CASE \E result \in {"HANDLED_P_ANKER_UPDATE", "INSTALL_FAILED"} :
              EndSession(t, result)
    BY <1>20, HawkbitAssumption DEF EndSession, MayWrite, MoveTo,
      loopVars, imageVars, serverVars, PlaceInv, Reporting, TypeOK,
      DataType, Info, Places, States, NoInfo, NoFile
  <1>21. CASE ReportAccepted(t)
    BY <1>21, HawkbitAssumption DEF ReportAccepted, ServerCloses,
      Outcome, MoveTo, loopVars, sharedVars, imageVars, serverVars,
      PlaceInv, Reporting, TypeOK, DataType, Info, Places, States, NoInfo,
      NoFile
  <1>22. CASE ReportFails(t)
    BY <1>22, HawkbitAssumption DEF ReportFails, ServerCloses, Outcome,
      GoTo, loopVars, sharedVars, imageVars, serverVars, PlaceInv,
      Reporting, TypeOK, DataType, Info, Places, States, NoInfo, NoFile
  <1>23. CASE EraseFile(t)
    BY <1>23, HawkbitAssumption DEF EraseFile, GoTo, loopVars,
      sharedVars, imageVars, serverVars, PlaceInv, Reporting, TypeOK,
      DataType, Info, Places, States, NoInfo, NoFile
  <1> QED
    BY <1>1, <1>2, <1>3, <1>4, <1>5, <1>6, <1>7, <1>8, <1>9, <1>10,
      <1>11, <1>12, <1>13, <1>14, <1>15, <1>16, <1>17, <1>18, <1>19, <1>20,
      <1>21, <1>22, <1>23 DEF TaskStep

(* A new task keeps that (hawkbit_client.cpp:1360-1371).                     *)
LEMMA EventLoopPlace ==
    ASSUME TypeOK, PlaceInv, EventLoop
    PROVE  PlaceInv'
  <1>1. CASE Repoll
    BY <1>1 DEF Repoll, taskVars, imageVars, serverVars, PlaceInv,
      Reporting, TypeOK, DataType, Info, Places, States, NoInfo, NoFile
  <1>2. ASSUME NEW t \in Tasks, CreateTask(t)
       PROVE  PlaceInv'
    BY <1>2 DEF CreateTask, GoTo, imageVars, serverVars, PlaceInv,
      Reporting, TypeOK, DataType, Info, Places, States, NoInfo, NoFile
  <1>3. CASE NoTaskCreated
    BY <1>3 DEF NoTaskCreated, sharedVars, taskVars, imageVars,
      serverVars, PlaceInv, Reporting, TypeOK, DataType, Info, Places,
      States, NoInfo, NoFile
  <1>4. CASE StopIgnored
    BY <1>4 DEF StopIgnored, sharedVars, taskVars, imageVars, serverVars,
      PlaceInv, Reporting, TypeOK, DataType, Info, Places, States, NoInfo,
      NoFile
  <1>5. CASE StopRequested
    BY <1>5 DEF StopRequested, taskVars, imageVars, serverVars, PlaceInv,
      Reporting, TypeOK, DataType, Info, Places, States, NoInfo, NoFile
  <1>6. CASE StopReturns
    BY <1>6 DEF StopReturns, sharedVars, taskVars, imageVars, serverVars,
      PlaceInv, Reporting, TypeOK, DataType, Info, Places, States, NoInfo,
      NoFile
  <1> QED
    BY <1>1, <1>2, <1>3, <1>4, <1>5, <1>6 DEF EventLoop

(* Only a download that succeeded has that status, and leaves the image      *)
(* to boot (hawkbit_client.cpp:648-674, 817-835).                            *)
LEMMA TaskStepDownload ==
    ASSUME TypeOK, StartStopInv, PlaceInv, DownloadInv,
           NEW t \in Tasks, TaskStep(t), ~RestartToInstall(t)
    PROVE  DownloadInv'
  <1>1. CASE EnterBody(t)
    BY <1>1 DEF EnterBody, MoveTo, loopVars, sharedVars, imageVars,
      serverVars, DownloadInv, StartStopInv, LaterCycles, Alive, PlaceInv,
      TypeOK, DataType, Info, Places, States
  <1>2. CASE EndTask(t)
    BY <1>2 DEF EndTask, loopVars, imageVars, serverVars, DownloadInv,
      StartStopInv, LaterCycles, Alive, PlaceInv, TypeOK, DataType, Info,
      Places, States
  <1>3. CASE LeaveIdle(t)
    BY <1>3 DEF LeaveIdle, InBody, GoTo, AfterIdle, loopVars, imageVars,
      serverVars, DownloadInv, StartStopInv, LaterCycles, Alive, PlaceInv,
      TypeOK, DataType, Info, Places, States
  <1>4. CASE NothingToDo(t)
    BY <1>4 DEF NothingToDo, InBody, GoTo, loopVars, sharedVars,
      imageVars, serverVars, DownloadInv, StartStopInv, LaterCycles, Alive,
      PlaceInv, TypeOK, DataType, Info, Places, States
  <1>5. CASE FindDeployment(t)
    BY <1>5 DEF FindDeployment, InBody, GoTo, loopVars, sharedVars,
      imageVars, serverVars, DownloadInv, StartStopInv, LaterCycles, Alive,
      PlaceInv, TypeOK, DataType, Info, Places, States
  <1>6. CASE \E sent \in BOOLEAN : Inform(t, sent)
    BY <1>6 DEF Inform, InBody, GoTo, loopVars, imageVars, serverVars,
      DownloadInv, StartStopInv, LaterCycles, Alive, PlaceInv, TypeOK,
      DataType, Info, Places, States
  <1>7. CASE StopTask(t)
    BY <1>7 DEF StopTask, InBody, GoTo, loopVars, imageVars, serverVars,
      DownloadInv, StartStopInv, LaterCycles, Alive, PlaceInv, TypeOK,
      DataType, Info, Places, States
  <1>8. CASE IgnoreDeployment(t)
    BY <1>8 DEF IgnoreDeployment, InBody, GoTo, loopVars, sharedVars,
      imageVars, serverVars, DownloadInv, StartStopInv, LaterCycles, Alive,
      PlaceInv, TypeOK, DataType, Info, Places, States
  <1>9. CASE SkipDownload(t)
    BY <1>9 DEF SkipDownload, NoDownloadStatus, InBody, MoveTo, loopVars,
      sharedVars, imageVars, serverVars, DownloadInv, StartStopInv,
      LaterCycles, Alive, PlaceInv, TypeOK, DataType, Info, Places, States
  <1>10. CASE StartDownload(t)
    BY <1>10 DEF StartDownload, InBody, MoveTo, loopVars, sharedVars,
      imageVars, serverVars, DownloadInv, StartStopInv, LaterCycles, Alive,
      PlaceInv, TypeOK, DataType, Info, Places, States
  <1>11. CASE Downloaded(t)
    BY <1>11 DEF Downloaded, BootImage, WriteImage, MoveTo, loopVars,
      sharedVars, serverVars, DownloadInv, StartStopInv, LaterCycles,
      Alive, PlaceInv, TypeOK, DataType, Info, Places, States
  <1>12. CASE RetryDownload(t)
    BY <1>12 DEF RetryDownload, FailedAttempt, WriteImage, SpoilImage,
      loopVars, sharedVars, imageVars, serverVars, DownloadInv,
      StartStopInv, LaterCycles, Alive, PlaceInv, TypeOK, DataType, Info,
      Places, States
  <1>13. CASE GiveUpDownload(t)
    BY <1>13 DEF GiveUpDownload, FailedAttempt, WriteImage, SpoilImage,
      MoveTo, loopVars, sharedVars, imageVars, serverVars, DownloadInv,
      StartStopInv, LaterCycles, Alive, PlaceInv, TypeOK, DataType, Info,
      Places, States
  <1>14. CASE SaveStatus(t)
    BY <1>14 DEF SaveStatus, AfterSave, GoTo, loopVars, sharedVars,
      imageVars, serverVars, DownloadInv, StartStopInv, LaterCycles, Alive,
      PlaceInv, TypeOK, DataType, Info, Places, States
  <1>15. CASE SaveFails(t)
    BY <1>15 DEF SaveFails, GoTo, loopVars, sharedVars, imageVars,
      serverVars, DownloadInv, StartStopInv, LaterCycles, Alive, PlaceInv,
      TypeOK, DataType, Info, Places, States
  <1>16. CASE NothingToInstall(t)
    BY <1>16 DEF NothingToInstall, InBody, GoTo, loopVars, sharedVars,
      imageVars, serverVars, DownloadInv, StartStopInv, LaterCycles, Alive,
      PlaceInv, TypeOK, DataType, Info, Places, States
  <1>17. CASE NothingToReport(t)
    BY <1>17 DEF NothingToReport, MayConfirm, InBody, GoTo, loopVars,
      sharedVars, serverVars, DownloadInv, StartStopInv, LaterCycles,
      Alive, PlaceInv, TypeOK, DataType, Info, Places, States
  <1>18. CASE BeginReport(t)
    BY <1>18 DEF BeginReport, MayConfirm, MayWrite, InBody, MoveTo,
      loopVars, sharedVars, serverVars, DownloadInv, StartStopInv,
      LaterCycles, Alive, PlaceInv, TypeOK, DataType, Info, Places, States
  <1>19. CASE BeginSession(t)
    BY <1>19 DEF BeginSession, MoveTo, loopVars, imageVars, serverVars,
      DownloadInv, StartStopInv, LaterCycles, Alive, PlaceInv, TypeOK,
      DataType, Info, Places, States
  <1>20. CASE \E result \in {"HANDLED_P_ANKER_UPDATE", "INSTALL_FAILED"} :
              EndSession(t, result)
    BY <1>20 DEF EndSession, MayWrite, MoveTo, loopVars, imageVars,
      serverVars, DownloadInv, StartStopInv, LaterCycles, Alive, PlaceInv,
      TypeOK, DataType, Info, Places, States
  <1>21. CASE ReportAccepted(t)
    BY <1>21 DEF ReportAccepted, ServerCloses, Outcome, MoveTo, loopVars,
      sharedVars, imageVars, serverVars, DownloadInv, StartStopInv,
      LaterCycles, Alive, PlaceInv, TypeOK, DataType, Info, Places, States
  <1>22. CASE ReportFails(t)
    BY <1>22 DEF ReportFails, ServerCloses, Outcome, GoTo, loopVars,
      sharedVars, imageVars, serverVars, DownloadInv, StartStopInv,
      LaterCycles, Alive, PlaceInv, TypeOK, DataType, Info, Places, States
  <1>23. CASE EraseFile(t)
    BY <1>23 DEF EraseFile, GoTo, loopVars, sharedVars, imageVars,
      serverVars, DownloadInv, StartStopInv, LaterCycles, Alive, PlaceInv,
      TypeOK, DataType, Info, Places, States
  <1> QED
    BY <1>1, <1>2, <1>3, <1>4, <1>5, <1>6, <1>7, <1>8, <1>9, <1>10,
      <1>11, <1>12, <1>13, <1>14, <1>15, <1>16, <1>17, <1>18, <1>19, <1>20,
      <1>21, <1>22, <1>23 DEF TaskStep

(* The event loop does not touch it (hawkbit_client.cpp:1354-1400).          *)
LEMMA EventLoopDownload ==
    ASSUME TypeOK, DownloadInv, EventLoop
    PROVE  DownloadInv'
  <1>1. CASE Repoll
    BY <1>1 DEF Repoll, taskVars, imageVars, serverVars, DownloadInv,
      FlagType, DataType, TypeOK
  <1>2. ASSUME NEW t \in Tasks, CreateTask(t)
       PROVE  DownloadInv'
    BY <1>2 DEF CreateTask, GoTo, imageVars, serverVars, DownloadInv,
      FlagType, DataType, TypeOK
  <1>3. CASE NoTaskCreated
    BY <1>3 DEF NoTaskCreated, sharedVars, taskVars, imageVars,
      serverVars, DownloadInv, FlagType, DataType, TypeOK
  <1>4. CASE StopIgnored
    BY <1>4 DEF StopIgnored, sharedVars, taskVars, imageVars, serverVars,
      DownloadInv, FlagType, DataType, TypeOK
  <1>5. CASE StopRequested
    BY <1>5 DEF StopRequested, taskVars, imageVars, serverVars,
      DownloadInv, FlagType, DataType, TypeOK
  <1>6. CASE StopReturns
    BY <1>6 DEF StopReturns, sharedVars, taskVars, imageVars, serverVars,
      DownloadInv, FlagType, DataType, TypeOK
  <1> QED
    BY <1>1, <1>2, <1>3, <1>4, <1>5, <1>6 DEF EventLoop

(* A task comes to the installation by saving the status                     *)
(* (hawkbit_client.cpp:892-909, 1263-1279).                                  *)
LEMMA TaskStepInstall ==
    ASSUME TypeOK, StartStopInv, PlaceInv, DownloadInv, InstallIsPrepared,
           NEW t \in Tasks, TaskStep(t), ~RestartToInstall(t)
    PROVE  InstallIsPrepared'
  <1>1. CASE EnterBody(t)
    BY <1>1 DEF EnterBody, MoveTo, loopVars, sharedVars, imageVars,
      serverVars, InstallIsPrepared, DownloadInv, StartStopInv,
      LaterCycles, Alive, PlaceInv, Reporting, TypeOK, DataType, Info,
      Places, States
  <1>2. CASE EndTask(t)
    BY <1>2 DEF EndTask, loopVars, imageVars, serverVars,
      InstallIsPrepared, DownloadInv, StartStopInv, LaterCycles, Alive,
      PlaceInv, Reporting, TypeOK, DataType, Info, Places, States
  <1>3. CASE LeaveIdle(t)
    BY <1>3 DEF LeaveIdle, InBody, GoTo, AfterIdle, loopVars, imageVars,
      serverVars, InstallIsPrepared, DownloadInv, StartStopInv,
      LaterCycles, Alive, PlaceInv, Reporting, TypeOK, DataType, Info,
      Places, States
  <1>4. CASE NothingToDo(t)
    BY <1>4 DEF NothingToDo, InBody, GoTo, loopVars, sharedVars,
      imageVars, serverVars, InstallIsPrepared, DownloadInv, StartStopInv,
      LaterCycles, Alive, PlaceInv, Reporting, TypeOK, DataType, Info,
      Places, States
  <1>5. CASE FindDeployment(t)
    BY <1>5 DEF FindDeployment, InBody, GoTo, loopVars, sharedVars,
      imageVars, serverVars, InstallIsPrepared, DownloadInv, StartStopInv,
      LaterCycles, Alive, PlaceInv, Reporting, TypeOK, DataType, Info,
      Places, States
  <1>6. CASE \E sent \in BOOLEAN : Inform(t, sent)
    BY <1>6 DEF Inform, InBody, GoTo, loopVars, imageVars, serverVars,
      InstallIsPrepared, DownloadInv, StartStopInv, LaterCycles, Alive,
      PlaceInv, Reporting, TypeOK, DataType, Info, Places, States
  <1>7. CASE StopTask(t)
    BY <1>7 DEF StopTask, InBody, GoTo, loopVars, imageVars, serverVars,
      InstallIsPrepared, DownloadInv, StartStopInv, LaterCycles, Alive,
      PlaceInv, Reporting, TypeOK, DataType, Info, Places, States
  <1>8. CASE IgnoreDeployment(t)
    BY <1>8 DEF IgnoreDeployment, InBody, GoTo, loopVars, sharedVars,
      imageVars, serverVars, InstallIsPrepared, DownloadInv, StartStopInv,
      LaterCycles, Alive, PlaceInv, Reporting, TypeOK, DataType, Info,
      Places, States
  <1>9. CASE SkipDownload(t)
    BY <1>9 DEF SkipDownload, NoDownloadStatus, InBody, MoveTo, loopVars,
      sharedVars, imageVars, serverVars, InstallIsPrepared, DownloadInv,
      StartStopInv, LaterCycles, Alive, PlaceInv, Reporting, TypeOK,
      DataType, Info, Places, States
  <1>10. CASE StartDownload(t)
    BY <1>10 DEF StartDownload, InBody, MoveTo, loopVars, sharedVars,
      imageVars, serverVars, InstallIsPrepared, DownloadInv, StartStopInv,
      LaterCycles, Alive, PlaceInv, Reporting, TypeOK, DataType, Info,
      Places, States
  <1>11. CASE Downloaded(t)
    BY <1>11 DEF Downloaded, BootImage, WriteImage, MoveTo, loopVars,
      sharedVars, serverVars, InstallIsPrepared, DownloadInv, StartStopInv,
      LaterCycles, Alive, PlaceInv, Reporting, TypeOK, DataType, Info,
      Places, States
  <1>12. CASE RetryDownload(t)
    BY <1>12 DEF RetryDownload, FailedAttempt, WriteImage, SpoilImage,
      loopVars, sharedVars, imageVars, serverVars, InstallIsPrepared,
      DownloadInv, StartStopInv, LaterCycles, Alive, PlaceInv, Reporting,
      TypeOK, DataType, Info, Places, States
  <1>13. CASE GiveUpDownload(t)
    BY <1>13 DEF GiveUpDownload, FailedAttempt, WriteImage, SpoilImage,
      MoveTo, loopVars, sharedVars, imageVars, serverVars,
      InstallIsPrepared, DownloadInv, StartStopInv, LaterCycles, Alive,
      PlaceInv, Reporting, TypeOK, DataType, Info, Places, States
  <1>14. CASE SaveStatus(t)
    BY <1>14 DEF SaveStatus, AfterSave, GoTo, loopVars, sharedVars,
      imageVars, serverVars, InstallIsPrepared, DownloadInv, StartStopInv,
      LaterCycles, Alive, PlaceInv, Reporting, TypeOK, DataType, Info,
      Places, States
  <1>15. CASE SaveFails(t)
    BY <1>15 DEF SaveFails, GoTo, loopVars, sharedVars, imageVars,
      serverVars, InstallIsPrepared, DownloadInv, StartStopInv,
      LaterCycles, Alive, PlaceInv, Reporting, TypeOK, DataType, Info,
      Places, States
  <1>16. CASE NothingToInstall(t)
    BY <1>16 DEF NothingToInstall, InBody, GoTo, loopVars, sharedVars,
      imageVars, serverVars, InstallIsPrepared, DownloadInv, StartStopInv,
      LaterCycles, Alive, PlaceInv, Reporting, TypeOK, DataType, Info,
      Places, States
  <1>17. CASE NothingToReport(t)
    BY <1>17 DEF NothingToReport, MayConfirm, InBody, GoTo, loopVars,
      sharedVars, serverVars, InstallIsPrepared, DownloadInv, StartStopInv,
      LaterCycles, Alive, PlaceInv, Reporting, TypeOK, DataType, Info,
      Places, States
  <1>18. CASE BeginReport(t)
    BY <1>18 DEF BeginReport, MayConfirm, MayWrite, InBody, MoveTo,
      loopVars, sharedVars, serverVars, InstallIsPrepared, DownloadInv,
      StartStopInv, LaterCycles, Alive, PlaceInv, Reporting, TypeOK,
      DataType, Info, Places, States
  <1>19. CASE BeginSession(t)
    BY <1>19 DEF BeginSession, MoveTo, loopVars, imageVars, serverVars,
      InstallIsPrepared, DownloadInv, StartStopInv, LaterCycles, Alive,
      PlaceInv, Reporting, TypeOK, DataType, Info, Places, States
  <1>20. CASE \E result \in {"HANDLED_P_ANKER_UPDATE", "INSTALL_FAILED"} :
              EndSession(t, result)
    BY <1>20 DEF EndSession, MayWrite, MoveTo, loopVars, imageVars,
      serverVars, InstallIsPrepared, DownloadInv, StartStopInv,
      LaterCycles, Alive, PlaceInv, Reporting, TypeOK, DataType, Info,
      Places, States
  <1>21. CASE ReportAccepted(t)
    BY <1>21 DEF ReportAccepted, ServerCloses, Outcome, MoveTo, loopVars,
      sharedVars, imageVars, serverVars, InstallIsPrepared, DownloadInv,
      StartStopInv, LaterCycles, Alive, PlaceInv, Reporting, TypeOK,
      DataType, Info, Places, States
  <1>22. CASE ReportFails(t)
    BY <1>22 DEF ReportFails, ServerCloses, Outcome, GoTo, loopVars,
      sharedVars, imageVars, serverVars, InstallIsPrepared, DownloadInv,
      StartStopInv, LaterCycles, Alive, PlaceInv, Reporting, TypeOK,
      DataType, Info, Places, States
  <1>23. CASE EraseFile(t)
    BY <1>23 DEF EraseFile, GoTo, loopVars, sharedVars, imageVars,
      serverVars, InstallIsPrepared, DownloadInv, StartStopInv,
      LaterCycles, Alive, PlaceInv, Reporting, TypeOK, DataType, Info,
      Places, States
  <1> QED
    BY <1>1, <1>2, <1>3, <1>4, <1>5, <1>6, <1>7, <1>8, <1>9, <1>10,
      <1>11, <1>12, <1>13, <1>14, <1>15, <1>16, <1>17, <1>18, <1>19, <1>20,
      <1>21, <1>22, <1>23 DEF TaskStep

(* The event loop does not touch it (hawkbit_client.cpp:1354-1400).          *)
LEMMA EventLoopInstall ==
    ASSUME TypeOK, InstallIsPrepared, EventLoop
    PROVE  InstallIsPrepared'
  <1>1. CASE Repoll
    BY <1>1 DEF Repoll, taskVars, imageVars, serverVars,
      InstallIsPrepared, FlagType, DataType, TypeOK
  <1>2. ASSUME NEW t \in Tasks, CreateTask(t)
       PROVE  InstallIsPrepared'
    BY <1>2 DEF CreateTask, GoTo, imageVars, serverVars,
      InstallIsPrepared, FlagType, DataType, TypeOK
  <1>3. CASE NoTaskCreated
    BY <1>3 DEF NoTaskCreated, sharedVars, taskVars, imageVars,
      serverVars, InstallIsPrepared, FlagType, DataType, TypeOK
  <1>4. CASE StopIgnored
    BY <1>4 DEF StopIgnored, sharedVars, taskVars, imageVars, serverVars,
      InstallIsPrepared, FlagType, DataType, TypeOK
  <1>5. CASE StopRequested
    BY <1>5 DEF StopRequested, taskVars, imageVars, serverVars,
      InstallIsPrepared, FlagType, DataType, TypeOK
  <1>6. CASE StopReturns
    BY <1>6 DEF StopReturns, sharedVars, taskVars, imageVars, serverVars,
      InstallIsPrepared, FlagType, DataType, TypeOK
  <1> QED
    BY <1>1, <1>2, <1>3, <1>4, <1>5, <1>6 DEF EventLoop

(* A task replaces or erases the file only as ReportInv allows               *)
(* (hawkbit_client.cpp:890-909, 955-1116).                                   *)
LEMMA TaskStepReport ==
    ASSUME TypeOK, StartStopInv, PlaceInv, ReportInv,
           NEW t \in Tasks, TaskStep(t), ~RestartToInstall(t)
    PROVE  ReportInv'
  <1>1. CASE EnterBody(t)
    BY <1>1, HawkbitAssumption DEF EnterBody, MoveTo, loopVars,
      sharedVars, imageVars, serverVars, ReportInv, Known, Over,
      StartStopInv, LaterCycles, Alive, PlaceInv, Reporting, TypeOK,
      DataType, Info, Places, States, NoInfo, NoFile, None
  <1>2. CASE EndTask(t)
    BY <1>2, HawkbitAssumption DEF EndTask, loopVars, imageVars,
      serverVars, ReportInv, Known, Over, StartStopInv, LaterCycles, Alive,
      PlaceInv, Reporting, TypeOK, DataType, Info, Places, States, NoInfo,
      NoFile, None
  <1>3. CASE LeaveIdle(t)
    BY <1>3, HawkbitAssumption DEF LeaveIdle, InBody, GoTo, AfterIdle,
      loopVars, imageVars, serverVars, ReportInv, Known, Over,
      StartStopInv, LaterCycles, Alive, PlaceInv, Reporting, TypeOK,
      DataType, Info, Places, States, NoInfo, NoFile, None
  <1>4. CASE NothingToDo(t)
    BY <1>4, HawkbitAssumption DEF NothingToDo, InBody, GoTo, loopVars,
      sharedVars, imageVars, serverVars, ReportInv, Known, Over,
      StartStopInv, LaterCycles, Alive, PlaceInv, Reporting, TypeOK,
      DataType, Info, Places, States, NoInfo, NoFile, None
  <1>5. CASE FindDeployment(t)
    BY <1>5, HawkbitAssumption DEF FindDeployment, InBody, GoTo,
      loopVars, sharedVars, imageVars, serverVars, ReportInv, Known, Over,
      StartStopInv, LaterCycles, Alive, PlaceInv, Reporting, TypeOK,
      DataType, Info, Places, States, NoInfo, NoFile, None
  <1>6. CASE \E sent \in BOOLEAN : Inform(t, sent)
    BY <1>6, HawkbitAssumption DEF Inform, InBody, GoTo, loopVars,
      imageVars, serverVars, ReportInv, Known, Over, StartStopInv,
      LaterCycles, Alive, PlaceInv, Reporting, TypeOK, DataType, Info,
      Places, States, NoInfo, NoFile, None
  <1>7. CASE StopTask(t)
    BY <1>7, HawkbitAssumption DEF StopTask, InBody, GoTo, loopVars,
      imageVars, serverVars, ReportInv, Known, Over, StartStopInv,
      LaterCycles, Alive, PlaceInv, Reporting, TypeOK, DataType, Info,
      Places, States, NoInfo, NoFile, None
  <1>8. CASE IgnoreDeployment(t)
    BY <1>8, HawkbitAssumption DEF IgnoreDeployment, InBody, GoTo,
      loopVars, sharedVars, imageVars, serverVars, ReportInv, Known, Over,
      StartStopInv, LaterCycles, Alive, PlaceInv, Reporting, TypeOK,
      DataType, Info, Places, States, NoInfo, NoFile, None
  <1>9. CASE SkipDownload(t)
    BY <1>9, HawkbitAssumption DEF SkipDownload, NoDownloadStatus,
      InBody, MoveTo, loopVars, sharedVars, imageVars, serverVars,
      ReportInv, Known, Over, StartStopInv, LaterCycles, Alive, PlaceInv,
      Reporting, TypeOK, DataType, Info, Places, States, NoInfo, NoFile,
      None
  <1>10. CASE StartDownload(t)
    BY <1>10, HawkbitAssumption DEF StartDownload, InBody, MoveTo,
      loopVars, sharedVars, imageVars, serverVars, ReportInv, Known, Over,
      StartStopInv, LaterCycles, Alive, PlaceInv, Reporting, TypeOK,
      DataType, Info, Places, States, NoInfo, NoFile, None
  <1>11. CASE Downloaded(t)
    BY <1>11, HawkbitAssumption DEF Downloaded, BootImage, WriteImage,
      MoveTo, loopVars, sharedVars, serverVars, ReportInv, Known, Over,
      StartStopInv, LaterCycles, Alive, PlaceInv, Reporting, TypeOK,
      DataType, Info, Places, States, NoInfo, NoFile, None
  <1>12. CASE RetryDownload(t)
    BY <1>12, HawkbitAssumption DEF RetryDownload, FailedAttempt,
      WriteImage, SpoilImage, loopVars, sharedVars, imageVars, serverVars,
      ReportInv, Known, Over, StartStopInv, LaterCycles, Alive, PlaceInv,
      Reporting, TypeOK, DataType, Info, Places, States, NoInfo, NoFile,
      None
  <1>13. CASE GiveUpDownload(t)
    BY <1>13, HawkbitAssumption DEF GiveUpDownload, FailedAttempt,
      WriteImage, SpoilImage, MoveTo, loopVars, sharedVars, imageVars,
      serverVars, ReportInv, Known, Over, StartStopInv, LaterCycles, Alive,
      PlaceInv, Reporting, TypeOK, DataType, Info, Places, States, NoInfo,
      NoFile, None
  <1>14. CASE SaveStatus(t)
    BY <1>14, HawkbitAssumption DEF SaveStatus, AfterSave, GoTo,
      loopVars, sharedVars, imageVars, serverVars, ReportInv, Known, Over,
      StartStopInv, LaterCycles, Alive, PlaceInv, Reporting, TypeOK,
      DataType, Info, Places, States, NoInfo, NoFile, None
  <1>15. CASE SaveFails(t)
    BY <1>15, HawkbitAssumption DEF SaveFails, GoTo, loopVars,
      sharedVars, imageVars, serverVars, ReportInv, Known, Over,
      StartStopInv, LaterCycles, Alive, PlaceInv, Reporting, TypeOK,
      DataType, Info, Places, States, NoInfo, NoFile, None
  <1>16. CASE NothingToInstall(t)
    BY <1>16, HawkbitAssumption DEF NothingToInstall, InBody, GoTo,
      loopVars, sharedVars, imageVars, serverVars, ReportInv, Known, Over,
      StartStopInv, LaterCycles, Alive, PlaceInv, Reporting, TypeOK,
      DataType, Info, Places, States, NoInfo, NoFile, None
  <1>17. CASE NothingToReport(t)
    BY <1>17, HawkbitAssumption DEF NothingToReport, MayConfirm, InBody,
      GoTo, loopVars, sharedVars, serverVars, ReportInv, Known, Over,
      StartStopInv, LaterCycles, Alive, PlaceInv, Reporting, TypeOK,
      DataType, Info, Places, States, NoInfo, NoFile, None
  <1>18. CASE BeginReport(t)
    BY <1>18, HawkbitAssumption DEF BeginReport, MayConfirm, MayWrite,
      InBody, MoveTo, loopVars, sharedVars, serverVars, ReportInv, Known,
      Over, StartStopInv, LaterCycles, Alive, PlaceInv, Reporting, TypeOK,
      DataType, Info, Places, States, NoInfo, NoFile, None
  <1>19. CASE BeginSession(t)
    BY <1>19, HawkbitAssumption DEF BeginSession, MoveTo, loopVars,
      imageVars, serverVars, ReportInv, Known, Over, StartStopInv,
      LaterCycles, Alive, PlaceInv, Reporting, TypeOK, DataType, Info,
      Places, States, NoInfo, NoFile, None
  <1>20. CASE \E result \in {"HANDLED_P_ANKER_UPDATE", "INSTALL_FAILED"} :
              EndSession(t, result)
    BY <1>20, HawkbitAssumption DEF EndSession, MayWrite, MoveTo,
      loopVars, imageVars, serverVars, ReportInv, Known, Over,
      StartStopInv, LaterCycles, Alive, PlaceInv, Reporting, TypeOK,
      DataType, Info, Places, States, NoInfo, NoFile, None
  <1>21. CASE ReportAccepted(t)
    <2>1. ServerCloses(work[t]) \/ UNCHANGED serverVars
      BY <1>21 DEF ReportAccepted
    <2>2. /\ work[t].id \in Deployments
          /\ Known(work[t].id)
          /\ at[t] \in Reporting
      BY <1>21 DEF ReportAccepted, PlaceInv, ReportInv, Reporting
    <2>3. ASSUME NEW d \in Deployments
          PROVE  (Known(d) => Known(d)') /\ (Over(d) => Over(d)')
      BY <2>1, <2>2, HawkbitAssumption DEF ServerCloses, Outcome, serverVars,
        Known, Over, TypeOK, DataType, None
    <2>4. at'[t] = "erase" => Over(work[t].id)'
      BY <1>21, <2>2, HawkbitAssumption DEF ReportAccepted, ServerCloses,
        Outcome, MoveTo, GoTo, Known, Over, TypeOK, DataType, None, serverVars
    <2>5. /\ \A u \in Tasks \ {t} : /\ at'[u] = at[u]
                                     /\ client'[u] = client[u]
          /\ at'[t] \in {"top", "erase"}
          /\ client'[t] # "DOWNLOAD"
      BY <1>21 DEF ReportAccepted, MoveTo, GoTo, PlaceInv, Reporting, TypeOK,
        DataType
    <2>6. UNCHANGED <<file, work, overlap>>
      BY <1>21 DEF ReportAccepted, sharedVars
    <2> QED
      BY <2>2, <2>3, <2>4, <2>5, <2>6 DEF ReportInv, Reporting, PlaceInv
  <1>22. CASE ReportFails(t)
    <2>1. ServerCloses(work[t]) \/ UNCHANGED serverVars
      BY <1>22 DEF ReportFails
    <2>2. /\ work[t].id \in Deployments
          /\ Known(work[t].id)
          /\ at[t] \in Reporting
      BY <1>22 DEF ReportFails, PlaceInv, ReportInv, Reporting
    <2>3. ASSUME NEW d \in Deployments
          PROVE  (Known(d) => Known(d)') /\ (Over(d) => Over(d)')
      BY <2>1, <2>2, HawkbitAssumption DEF ServerCloses, Outcome, serverVars,
        Known, Over, TypeOK, DataType, None
    <2>4. at'[t] = "erase" => Over(work[t].id)'
      BY <1>22, <2>2, HawkbitAssumption DEF ReportFails, ServerCloses,
        Outcome, MoveTo, GoTo, Known, Over, TypeOK, DataType, None, serverVars
    <2>5. /\ \A u \in Tasks \ {t} : /\ at'[u] = at[u]
                                     /\ client'[u] = client[u]
          /\ at'[t] \in {"top", "erase"}
          /\ client'[t] # "DOWNLOAD"
      BY <1>22 DEF ReportFails, MoveTo, GoTo, PlaceInv, Reporting, TypeOK,
        DataType
    <2>6. UNCHANGED <<file, work, overlap>>
      BY <1>22 DEF ReportFails, sharedVars
    <2> QED
      BY <2>2, <2>3, <2>4, <2>5, <2>6 DEF ReportInv, Reporting, PlaceInv
  <1>23. CASE EraseFile(t)
    BY <1>23, HawkbitAssumption DEF EraseFile, GoTo, loopVars,
      sharedVars, imageVars, serverVars, ReportInv, Known, Over,
      StartStopInv, LaterCycles, Alive, PlaceInv, Reporting, TypeOK,
      DataType, Info, Places, States, NoInfo, NoFile, None
  <1> QED
    BY <1>1, <1>2, <1>3, <1>4, <1>5, <1>6, <1>7, <1>8, <1>9, <1>10,
      <1>11, <1>12, <1>13, <1>14, <1>15, <1>16, <1>17, <1>18, <1>19, <1>20,
      <1>21, <1>22, <1>23 DEF TaskStep

(* A new task works on no deployment yet (hawkbit_client.cpp:1360-1371).     *)
LEMMA EventLoopReport ==
    ASSUME TypeOK, PlaceInv, ReportInv, EventLoop
    PROVE  ReportInv'
  <1>1. CASE Repoll
    BY <1>1 DEF Repoll, taskVars, imageVars, serverVars, ReportInv,
      Known, Over, PlaceInv, Reporting, FlagType, DataType, TypeOK
  <1>2. ASSUME NEW t \in Tasks, CreateTask(t)
       PROVE  ReportInv'
    BY <1>2 DEF CreateTask, GoTo, imageVars, serverVars, ReportInv,
      Known, Over, PlaceInv, Reporting, FlagType, DataType, TypeOK
  <1>3. CASE NoTaskCreated
    BY <1>3 DEF NoTaskCreated, sharedVars, taskVars, imageVars,
      serverVars, ReportInv, Known, Over, PlaceInv, Reporting, FlagType,
      DataType, TypeOK
  <1>4. CASE StopIgnored
    BY <1>4 DEF StopIgnored, sharedVars, taskVars, imageVars, serverVars,
      ReportInv, Known, Over, PlaceInv, Reporting, FlagType, DataType,
      TypeOK
  <1>5. CASE StopRequested
    BY <1>5 DEF StopRequested, taskVars, imageVars, serverVars,
      ReportInv, Known, Over, PlaceInv, Reporting, FlagType, DataType,
      TypeOK
  <1>6. CASE StopReturns
    BY <1>6 DEF StopReturns, sharedVars, taskVars, imageVars, serverVars,
      ReportInv, Known, Over, PlaceInv, Reporting, FlagType, DataType,
      TypeOK
  <1> QED
    BY <1>1, <1>2, <1>3, <1>4, <1>5, <1>6 DEF EventLoop

------------------------------------------------------------------------------
(* The other steps, and the inductive invariant.                             *)

(* The client starts as the invariant says: no task, no file                 *)
(* (hawkbit_client.cpp:122-135, 1403-1407).                                  *)
LEMMA InitInvariant == Init => IInv
  <1> SUFFICES ASSUME Init
               PROVE  IInv
    OBVIOUS
  <1>1. Alive = {}
    BY DEF Init, Alive
  <1>2. TypeOK
    <2>1. FlagType
      BY Zenon DEF Init, FlagType
    <2>2. DataType
      BY HawkbitAssumption DEF Init, DataType, Places, States, Info, Statuses,
        Versions, NoFile, NoInfo
    <2> QED
      BY <2>1, <2>2 DEF TypeOK
  <1>3. StartStopInv
    BY <1>1 DEF Init, StartStopInv, FirstCycle, LaterCycles
  <1> QED
    BY <1>2, <1>3, HawkbitAssumption DEF Init, IInv, PlaceInv, Reporting,
      DownloadInv, InstallIsPrepared, ReportInv, NoFile

(* A restart keeps the invariant: nothing of RAM is left that could speak of *)
(* the image or the file (ESP-IDF's bootloader, api.cpp:106-109).            *)
LEMMA RestartInvariant ==
    ASSUME IInv, Restart
    PROVE  IInv'
  <1>1. Alive' = {}
    BY DEF Restart, Alive
  <1>2. /\ running' \in Versions
        /\ next' \in Versions \cup {None}
        /\ boot' \in {"running", "next"}
    BY DEF Restart, Bootloader, SwapImages, imageVars, IInv, TypeOK, DataType
  <1>3. FlagType'
    <2>1. pending' \in BOOLEAN
      BY Zenon DEF Restart, Bootloader, SwapImages, imageVars, IInv, TypeOK,
        FlagType
    <2> QED
      BY <2>1, Zenon DEF Restart, FlagType
  <1>4. DataType'
    BY <1>2, HawkbitAssumption DEF Restart, serverVars, IInv, TypeOK, DataType,
      Places, States, Info, Statuses, NoInfo
  <1>5. StartStopInv'
    BY <1>1 DEF Restart, StartStopInv, FirstCycle, LaterCycles
  <1>6. PlaceInv'
    BY DEF Restart, IInv, PlaceInv, Reporting
  <1>7. DownloadInv' /\ InstallIsPrepared'
    BY DEF Restart, DownloadInv, InstallIsPrepared
  <1>8. ReportInv'
    BY DEF Restart, serverVars, IInv, ReportInv, Known, Over, Reporting
  <1> QED
    BY <1>3, <1>4, <1>5, <1>6, <1>7, <1>8 DEF IInv, TypeOK

(* An assignment keeps it: a deployment that is replaced is over.            *)
LEMMA AssignInvariant ==
    ASSUME IInv, NEW d \in Deployments, Assign(d)
    PROVE  IInv'
  <1>1. UNCHANGED <<loopVars, taskVars, sharedVars, imageVars, file>>
    BY DEF Assign
  <1>2. FlagType'
    BY <1>1, Zenon DEF loopVars, sharedVars, imageVars, IInv, TypeOK, FlagType
  <1>3. DataType'
    BY DEF Assign, loopVars, taskVars, sharedVars, imageVars, IInv, TypeOK,
      DataType
  <1>4. StartStopInv'
    BY <1>1 DEF loopVars, taskVars, sharedVars, IInv, StartStopInv, FirstCycle,
      LaterCycles, Alive, Ending
  <1>5. PlaceInv'
    BY <1>1 DEF taskVars, IInv, PlaceInv
  <1>6. DownloadInv' /\ InstallIsPrepared'
    BY <1>1 DEF taskVars, sharedVars, imageVars, IInv, DownloadInv,
      InstallIsPrepared
  <1>7. ASSUME NEW e \in Deployments
        PROVE  (Known(e) => Known(e)') /\ (Over(e) => Over(e)')
    BY DEF Assign, Known, Over, IInv, TypeOK, DataType
  <1>8. ReportInv'
    BY <1>1, <1>7 DEF taskVars, sharedVars, IInv, ReportInv, PlaceInv,
      Reporting
  <1> QED
    BY <1>2, <1>3, <1>4, <1>5, <1>6, <1>8 DEF IInv, TypeOK

(* IInv holds in every state of the client (hawkbit_client.cpp:1178-1401).   *)
THEOREM Invariance == Spec => []IInv
  <1>1. ASSUME IInv, NEW t \in Tasks, TaskStep(t)
        PROVE  IInv'
    <2>1. CASE RestartToInstall(t)
      BY <1>1, <2>1, RestartInvariant DEF RestartToInstall
    <2>2. CASE ~RestartToInstall(t)
      BY <1>1, <2>2, TaskStepType, TaskStepStartStop, TaskStepPlace,
        TaskStepDownload, TaskStepInstall, TaskStepReport DEF IInv
    <2> QED
      BY <2>1, <2>2
  <1>2. ASSUME IInv, EventLoop
        PROVE  IInv'
    BY <1>2, EventLoopType, EventLoopStartStop, EventLoopPlace,
      EventLoopDownload, EventLoopInstall, EventLoopReport DEF IInv
  <1>3. ASSUME IInv, UNCHANGED vars
        PROVE  IInv'
    <2>1. FlagType'
      BY <1>3, Zenon DEF vars, loopVars, sharedVars, imageVars, IInv, TypeOK,
        FlagType
    <2>2. DataType'
      BY <1>3 DEF vars, loopVars, taskVars, sharedVars, imageVars, serverVars,
        IInv, TypeOK, DataType
    <2> QED
      BY <1>3, <2>1, <2>2 DEF vars, loopVars, taskVars, sharedVars, imageVars,
        serverVars, IInv, TypeOK, StartStopInv, FirstCycle, LaterCycles, Alive,
        Ending, PlaceInv, DownloadInv, InstallIsPrepared, ReportInv, Known,
        Over
  <1>4. IInv /\ [Next]_vars => IInv'
    BY <1>1, <1>2, <1>3, RestartInvariant, AssignInvariant DEF Next
  <1> QED
    BY InitInvariant, <1>4, PTL DEF Spec

------------------------------------------------------------------------------
(* What follows from it.                                                     *)

(* Every variable of the client keeps its type (hawkbit_client.cpp:49-71,    *)
(* 122-135).                                                                 *)
THEOREM TypeCorrect == Spec => []TypeOK
  <1>1. IInv => TypeOK
    BY DEF IInv
  <1> QED
    BY Invariance, <1>1, PTL

(* The event loop never waits for the end of a task that does not exist      *)
(* (hawkbit_client.cpp:1394-1396).                                           *)
THEOREM StopHasATask == Spec => []StopWaitsForATask
  <1>1. IInv => StopWaitsForATask
    BY DEF IInv, StartStopInv, FirstCycle, StopWaitsForATask
  <1> QED
    BY Invariance, <1>1, PTL

(* A restart to install finds the whole image set to boot, and the file says *)
(* so (hawkbit_client.cpp:648-674, 892-909, 1287-1290).                      *)
THEOREM InstallPrepared == Spec => []InstallIsPrepared
  <1>1. IInv => InstallIsPrepared
    BY DEF IInv
  <1> QED
    BY Invariance, <1>1, PTL

(* A stop that waited returns only when no task is left                      *)
(* (hawkbit_client.cpp:1325, 1335, 1396).                                    *)
THEOREM StopIsTrue == Spec => WaitedStopIsTrue
  <1>1. IInv /\ [Next]_vars =>
          [StopReturns => Alive = {} /\ runState = "INACTIVE"]_vars
    BY DEF StopReturns, IInv, StartStopInv, LaterCycles
  <1> QED
    BY Invariance, <1>1, PTL DEF Spec, WaitedStopIsTrue

(* A step of a task makes update.stat give a deployment up only when that    *)
(* deployment is over (hawkbit_client.cpp:892, 1036, 1073, 1108-1112).       *)
LEMMA TaskStepForgetsNothing ==
    ASSUME IInv, NEW t \in Tasks, TaskStep(t), ~overlap, file # NoFile,
           file'.id # file.id
    PROVE  open' # file.id
  <1>1. CASE SaveStatus(t)
    <2>1. client[t] = "DOWNLOAD" /\ file' = work[t] /\ UNCHANGED open
      BY <1>1 DEF SaveStatus, serverVars, IInv, PlaceInv
    <2> QED
      BY <2>1 DEF IInv, ReportInv, Over
  <1>2. CASE EraseFile(t)
    <2>1. at[t] = "erase" /\ UNCHANGED open
      BY <1>2 DEF EraseFile, serverVars
    <2> QED
      BY <2>1 DEF IInv, ReportInv, Reporting, Over
  <1>3. CASE BeginReport(t)
    BY <1>3 DEF BeginReport, MayWrite, IInv, TypeOK, DataType, Info
  <1>4. CASE \E result \in {"HANDLED_P_ANKER_UPDATE", "INSTALL_FAILED"} :
              EndSession(t, result)
    <2>1. file'.id = work[t].id \/ UNCHANGED file
      BY <1>4 DEF EndSession, MayWrite, IInv, TypeOK, DataType, Info
    <2>2. file.id = work[t].id
      BY <1>4 DEF EndSession, IInv, ReportInv, Reporting
    <2> QED
      BY <2>1, <2>2
  <1>5. CASE ~ \/ SaveStatus(t)
               \/ EraseFile(t)
               \/ BeginReport(t)
               \/ \E result \in {"HANDLED_P_ANKER_UPDATE", "INSTALL_FAILED"} :
                     EndSession(t, result)
    <2>1. UNCHANGED file
      BY <1>5 DEF TaskStep, EnterBody, EndTask, LeaveIdle, NothingToDo,
        FindDeployment, Inform, StopTask, IgnoreDeployment, SkipDownload,
        StartDownload, Downloaded, RetryDownload, GiveUpDownload, SaveFails,
        RestartToInstall, Restart, NothingToInstall, NothingToReport,
        BeginSession, ReportAccepted, ReportFails
    <2> QED
      BY <2>1
  <1> QED
    BY <1>1, <1>2, <1>3, <1>4, <1>5

(* So does every step of the client, restarts included.                      *)
THEOREM ForgetsNothing == Spec => NothingForgotten
  <1> DEFINE Kept == ~overlap /\ file # NoFile /\ file'.id # file.id
                     => open' # file.id
  <1>1. ASSUME EventLoop \/ Restart \/ (\E d \in Deployments : Assign(d))
        PROVE  UNCHANGED file
    BY <1>1 DEF EventLoop, Repoll, CreateTask, NoTaskCreated, StopIgnored,
      StopRequested, StopReturns, Restart, Assign
  <1>2. IInv /\ [Next]_vars => [Kept]_vars
    BY <1>1, TaskStepForgetsNothing DEF Next
  <1> QED
    BY Invariance, <1>2, PTL DEF Spec, NothingForgotten
==============================================================================
