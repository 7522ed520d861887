-------------------------- MODULE HawkbitClientLive --------------------------
(* The hawkBit client when only finitely many things go wrong. What a step   *)
(* of the task can meet (a lost connection, a request, a write or a download *)
(* that fails, a restart) is taken from a budget; what goes well keeps       *)
(* happening: the task blocks only in calls with a timeout, the station      *)
(* reconnects, and the handlers return.                                      *)
(* A connection is lost only until the first task of a power cycle has       *)
(* ended: a later stop does not wait (see StoppedMeansStopped), a start can  *)
(* find the task before it obeys the stop, leave it, and leave the device    *)
(* without one; then nothing is promised. Memory for a new task is taken to  *)
(* be there, and the P-Ankers' update to return, which takes that it strands *)
(* nobody (EndsUnlessStranded of FirmwareTransferLive). While the event loop *)
(* is blocked it returns without the station reconnected.                    *)
EXTENDS MCHawkbit

CONSTANT MaxFaults  \* how many things may go wrong

VARIABLE faults     \* how many did

liveVars == <<vars, faults>>

TaskGoes(t) ==
    \/ EnterBody(t)
    \/ EndTask(t)
    \/ LeaveIdle(t)
    \/ NothingToDo(t) /\ (~link \/ open = None)
    \/ FindDeployment(t)
    \/ Inform(t, link)
    \/ StopTask(t)
    \/ IgnoreDeployment(t) /\ (~link \/ Kind[work[t].id] = "skip")
    \/ SkipDownload(t)
    \/ StartDownload(t)
    \/ Downloaded(t)
    \/ (RetryDownload(t) \/ GiveUpDownload(t)) /\ (~link \/ pending)
    \/ SaveStatus(t)
    \/ RestartToInstall(t)
    \/ NothingToInstall(t)
    \/ NothingToReport(t) /\ file = NoFile /\ ~pending'
    \/ BeginReport(t) /\ file' = work'[t] /\ ~pending'
    \/ BeginSession(t)
    \/ /\ link \/ loop = "stopping"
       /\ \E result \in {"HANDLED_P_ANKER_UPDATE", "INSTALL_FAILED"} :
            EndSession(t, result) /\ file' = work'[t]
    \/ ReportAccepted(t)
    \/ ReportFails(t) /\ (~link \/ work[t].id # open)
    \/ EraseFile(t) /\ file' = NoFile

Connects == Repoll \/ \E t \in Tasks : CreateTask(t)

Reconnects == ~link /\ Connects

Fault ==
    \/ \E t \in Tasks : TaskStep(t)
    \/ Restart
    \/ StopIgnored
    \/ "STOPPED" \notin bits /\ StopRequested

GoesWell(step) == step /\ UNCHANGED faults

LiveInit == Init /\ faults = 0

LiveNext ==
    \/ \E t \in Tasks : GoesWell(TaskGoes(t))
    \/ GoesWell(Connects)
    \/ GoesWell(StopReturns)
    \/ \E d \in Deployments : GoesWell(Assign(d))
    \/ Fault /\ faults < MaxFaults /\ faults' = faults + 1

LiveSpec ==
    /\ LiveInit
    /\ [][LiveNext]_liveVars
    /\ \A t \in Tasks : WF_liveVars(GoesWell(TaskGoes(t)))
    /\ WF_liveVars(GoesWell(Reconnects))
    /\ WF_liveVars(GoesWell(StopReturns))

------------------------------------------------------------------------------
(* The event loop, whose handlers also bring the network up again, does not  *)
(* wait for ever for the task to stop: with the network down each way        *)
(* through the task's states comes to IDLE, where it looks at the stop bit   *)
(* (hawkbit_client.cpp:1196-1202, 1226-1249, 1396).                          *)
LoopReleased == loop = "stopping" ~> loop = "free"

(* A deployment the server waits for is closed or replaced, also when power  *)
(* is lost between setting the boot partition, saving the status, reporting  *)
(* and erasing: the next poll finds it again, and its version installed      *)
(* (hawkbit_client.cpp:845-909, 1101-1112, 1226-1300).                       *)
AssignmentClosed ==
    \A d \in Deployments : Kind[d] # "skip" => (open = d ~> open # d)
==============================================================================
