----------------------------- MODULE HawkbitClient ---------------------------
(* The hawkBit client of a C-Anker, hawkbit_client.cpp: the task that polls  *)
(* the server, downloads, restarts into and reports an update, the event     *)
(* loop that starts and stops it, and what survives a restart.               *)
(* The event loop's priority is above the task's on the same core: a handler *)
(* is atomic unless it blocks. The task can be preempted anywhere.           *)
(* HAWKBIT_TASK_RUN_STATE_BLOCKED, BIT_CP_STANDBY and taskHandleRunning are  *)
(* left out: nothing sets the first two, nothing calls the last one's getter.*)
EXTENDS Naturals, FiniteSets

CONSTANTS
    Deployments,      \* the ids of the server's actions
    Kind,             \* what each assigns: "image", "none", "invalid", "skip"
    Version,          \* the version of the image it assigns
    Factory,          \* the version flashed first
    DownloadRetries,  \* DOWNLOAD_RETRIES_ANKER
    Tasks             \* hawkbit tasks alive at a time (a bound, not the code's)

None == 0

ASSUME HawkbitAssumption ==
    /\ Deployments \subseteq Nat \ {None}
    /\ Kind \in [Deployments -> {"image", "none", "invalid", "skip"}]
    /\ Version \in [Deployments -> Nat \ {None}]
    /\ Factory \in Nat \ {None}
    /\ DownloadRetries \in Nat

VARIABLES
    \* the event loop
    loop,        \* "free", or "stopping": blocked in hawkbit_client_stop
    link,        \* what its last network event said
    \* shared between the event loop and the tasks
    runState,    \* taskRunState
    bits,        \* taskStatusBits
    statusSent,  \* statusMessageSend
    \* each hawkbit task
    at,          \* "none", "top" (the while's test), or where in the case body
    client,      \* clientState
    work,        \* id and status of deployment and update_info, its locals
    tries,       \* the download's retries left
    overlap,     \* history: since the restart a task was started beside another
    \* flash
    running,     \* version of the running partition
    pending,     \* the running image is ESP_OTA_IMG_PENDING_VERIFY
    next,        \* version of the next update partition, None if not whole
    boot,        \* which of the two is the boot partition
    file,        \* update.stat
    \* the server
    open,        \* the action it waits for, or None
    verdict      \* how each action ended

loopVars == <<loop, link>>
taskVars == <<at, client, work, tries>>
sharedVars == <<runState, bits, statusSent, overlap>>
imageVars == <<running, pending, next, boot>>
serverVars == <<open, verdict>>
vars == <<loopVars, taskVars, sharedVars, imageVars, file, serverVars>>

States == {"IDLE", "POLL", "DOWNLOAD", "INSTALL", "CHECK", "INFORM", "STOP"}
Places == {"none", "top", "body", "download", "save", "announce", "session",
           "report", "erase"}

(* CONTROLLER_UPDATE_STATUS_..., those that reach the file.                  *)
Statuses == {"UNKNOWN", "ALREADY_INSTALLED", "DOWNLOAD_SUCCESSFUL",
             "DOWNLOAD_FAILED", "DOWNLOAD_INVALID", "HANDLE_P_ANKER_UPDATE",
             "HANDLED_P_ANKER_UPDATE", "INSTALL_FAILED"}

Versions == {Version[d] : d \in Deployments} \cup {Factory}
Info == [id : Deployments \cup {None}, status : Statuses]
NoInfo == [id |-> None, status |-> "UNKNOWN"]
NoFile == NoInfo

Alive == {t \in Tasks : at[t] # "none"}
InBody(t, state) == at[t] = "body" /\ client[t] = state

(* The task leaves the switch for the next turn of its loop.                 *)
GoTo(t, state) ==
    /\ at' = [at EXCEPT ![t] = "top"]
    /\ client' = [client EXCEPT ![t] = state]

MoveTo(t, place) ==
    /\ at' = [at EXCEPT ![t] = place]
    /\ UNCHANGED client

(* A write of update.stat replaces the file or, failing, leaves it.          *)
MayWrite(info) == file' = info \/ UNCHANGED file

------------------------------------------------------------------------------
(* Start, stop and restart.                                                  *)

Init ==
    /\ loop = "free"
    /\ link = FALSE
    /\ runState = "INACTIVE"
    /\ bits = {}
    /\ statusSent = FALSE
    /\ at = [t \in Tasks |-> "none"]
    /\ client = [t \in Tasks |-> "CHECK"]
    /\ work = [t \in Tasks |-> NoInfo]
    /\ tries = [t \in Tasks |-> 0]
    /\ overlap = FALSE
    /\ running = Factory
    /\ pending = FALSE
    /\ next = None
    /\ boot = "running"
    /\ file = NoFile
    /\ open = None
    /\ verdict = [d \in Deployments |-> "none"]

(* What the bootloader does: an image still pending is rolled back, a whole  *)
(* boot image is booted, anything else is passed over.                       *)
SwapImages(confirm) ==
    /\ running' = next
    /\ next' = running
    /\ boot' = "running"
    /\ pending' = confirm

Bootloader ==
    \/ pending /\ next # None /\ SwapImages(FALSE)
    \/ ~pending /\ boot = "next" /\ next # None
       /\ \E confirm \in BOOLEAN : SwapImages(confirm)
    \/ ~pending /\ (boot = "running" \/ next = None) /\ UNCHANGED imageVars

(* A restart, wanted or not: RAM is lost.                                    *)
Restart ==
    /\ loop' = "free"
    /\ link' = FALSE
    /\ runState' = "INACTIVE"
    /\ bits' = {}
    /\ statusSent' = FALSE
    /\ at' = [t \in Tasks |-> "none"]
    /\ client' = [t \in Tasks |-> "CHECK"]
    /\ work' = [t \in Tasks |-> NoInfo]
    /\ tries' = [t \in Tasks |-> 0]
    /\ overlap' = FALSE
    /\ Bootloader
    /\ UNCHANGED <<file, serverVars>>

(* hawkbit_client_start, for the event that the Anker got an IP address.     *)
Repoll ==
    /\ loop = "free"
    /\ runState # "INACTIVE"
    /\ link' = TRUE
    /\ statusSent' = FALSE
    /\ bits' = bits \cup {"REPOLL"}
    /\ UNCHANGED <<loop, runState, overlap, taskVars, imageVars, file, serverVars>>

(* Mutant: the run state is not looked at.                                   *)
CreateTaskAlways(t) ==
    /\ loop = "free"
    /\ at[t] = "none"
    /\ link' = TRUE
    /\ runState' = "ACTIVE"
    /\ GoTo(t, "CHECK")
    /\ overlap' = (overlap \/ Alive # {})
    /\ UNCHANGED <<loop, bits, statusSent, work, tries, imageVars, file,
                   serverVars>>

CreateTask(t) ==
    /\ loop = "free"
    /\ runState = "INACTIVE"
    /\ at[t] = "none"
    /\ link' = TRUE
    /\ runState' = "ACTIVE"
    /\ GoTo(t, "CHECK")
    /\ overlap' = (overlap \/ Alive # {})
    /\ UNCHANGED <<loop, bits, statusSent, work, tries, imageVars, file,
                   serverVars>>

NoTaskCreated ==
    /\ loop = "free"
    /\ runState = "INACTIVE"
    /\ link' = TRUE
    /\ UNCHANGED <<loop, sharedVars, taskVars, imageVars, file, serverVars>>

(* hawkbit_client_stop, for the event that the connection was lost.          *)
StopIgnored ==
    /\ loop = "free"
    /\ runState \in {"INACTIVE", "WAIT"}
    /\ link' = FALSE
    /\ UNCHANGED <<loop, sharedVars, taskVars, imageVars, file, serverVars>>

(* Mutant: a stop waits whether or not there is a task.                      *)
StopRequestedAlways ==
    /\ loop = "free"
    /\ runState # "WAIT"
    /\ link' = FALSE
    /\ bits' = bits \cup {"STOP"}
    /\ loop' = IF "STOPPED" \in bits THEN "free" ELSE "stopping"
    /\ UNCHANGED <<runState, statusSent, overlap, taskVars, imageVars, file,
                   serverVars>>

StopRequested ==
    /\ loop = "free"
    /\ runState = "ACTIVE"
    /\ link' = FALSE
    /\ bits' = bits \cup {"STOP"}
    /\ loop' = IF "STOPPED" \in bits THEN "free" ELSE "stopping"
    /\ UNCHANGED <<runState, statusSent, overlap, taskVars, imageVars, file,
                   serverVars>>

StopReturns ==
    /\ loop = "stopping"
    /\ "STOPPED" \in bits
    /\ loop' = "free"
    /\ UNCHANGED <<link, sharedVars, taskVars, imageVars, file, serverVars>>

EventLoop ==
    \/ Repoll
    \/ \E t \in Tasks : CreateTask(t)
    \/ NoTaskCreated
    \/ StopIgnored
    \/ StopRequested
    \/ StopReturns

------------------------------------------------------------------------------
(* The task's loop, and the states IDLE, POLL, INFORM and STOP.              *)

EnterBody(t) ==
    /\ at[t] = "top"
    /\ runState # "INACTIVE"
    /\ MoveTo(t, "body")
    /\ UNCHANGED <<loopVars, work, tries, sharedVars, imageVars, file, serverVars>>

EndTask(t) ==
    /\ at[t] = "top"
    /\ runState = "INACTIVE"
    /\ at' = [at EXCEPT ![t] = "none"]
    /\ client' = [client EXCEPT ![t] = "CHECK"]
    /\ work' = [work EXCEPT ![t] = NoInfo]
    /\ tries' = [tries EXCEPT ![t] = 0]
    /\ bits' = bits \cup {"STOPPED"}
    /\ UNCHANGED <<loopVars, runState, statusSent, overlap, imageVars, file,
                   serverVars>>

(* Mutant: a repoll is looked at before a stop.                              *)
AfterIdleRepollFirst ==
    IF "STOP" \in bits /\ "REPOLL" \notin bits THEN "STOP"
    ELSE IF runState = "WAIT" THEN "IDLE"
    ELSE IF statusSent THEN "POLL" ELSE "INFORM"

(* The timeout is not modelled: the wait may end at any time.                *)
AfterIdle ==
    IF "STOP" \in bits THEN "STOP"
    ELSE IF runState = "WAIT" THEN "IDLE"
    ELSE IF statusSent THEN "POLL" ELSE "INFORM"

LeaveIdle(t) ==
    /\ InBody(t, "IDLE")
    /\ GoTo(t, AfterIdle)
    /\ bits' = bits \ {"STOP", "REPOLL"}
    /\ UNCHANGED <<loopVars, runState, statusSent, overlap, work, tries,
                   imageVars, file, serverVars>>

NothingToDo(t) ==
    /\ InBody(t, "POLL")
    /\ GoTo(t, "IDLE")
    /\ UNCHANGED <<loopVars, work, tries, sharedVars, imageVars, file, serverVars>>

FindDeployment(t) ==
    /\ InBody(t, "POLL")
    /\ link
    /\ open # None
    /\ GoTo(t, "DOWNLOAD")
    /\ work' = [work EXCEPT ![t] = [id |-> open, status |-> "UNKNOWN"]]
    /\ UNCHANGED <<loopVars, tries, sharedVars, imageVars, file, serverVars>>

Inform(t, sent) ==
    /\ InBody(t, "INFORM")
    /\ sent => link
    /\ GoTo(t, "POLL")
    /\ statusSent' = sent
    /\ UNCHANGED <<loopVars, runState, bits, overlap, work, tries, imageVars,
                   file, serverVars>>

(* Mutant: the bit is set before the task has left its loop.                 *)
StopTaskEarly(t) ==
    /\ InBody(t, "STOP")
    /\ GoTo(t, "STOP")
    /\ runState' = "INACTIVE"
    /\ bits' = bits \cup {"STOPPED"}
    /\ UNCHANGED <<loopVars, statusSent, overlap, work, tries, imageVars,
                   file, serverVars>>

StopTask(t) ==
    /\ InBody(t, "STOP")
    /\ GoTo(t, "STOP")
    /\ runState' = "INACTIVE"
    /\ UNCHANGED <<loopVars, bits, statusSent, overlap, work, tries, imageVars,
                   file, serverVars>>

------------------------------------------------------------------------------
(* DOWNLOAD and INSTALL.                                                     *)

(* The deployment cannot be retrieved, or it is not to be installed.         *)
IgnoreDeployment(t) ==
    /\ InBody(t, "DOWNLOAD")
    /\ GoTo(t, "IDLE")
    /\ UNCHANGED <<loopVars, work, tries, sharedVars, imageVars, file, serverVars>>

IsRunning(d) == Version[d] = running

NoDownloadStatus(d) ==
    IF Kind[d] = "none" THEN "UNKNOWN"
    ELSE IF Kind[d] = "invalid" THEN "DOWNLOAD_INVALID"
    ELSE "ALREADY_INSTALLED"

SkipDownload(t) ==
    LET d == work[t].id
    IN  /\ InBody(t, "DOWNLOAD")
        /\ link
        /\ \/ Kind[d] \in {"none", "invalid"}
           \/ Kind[d] = "image" /\ IsRunning(d)
        /\ work' = [work EXCEPT ![t].status = NoDownloadStatus(d)]
        /\ MoveTo(t, "save")
        /\ UNCHANGED <<loopVars, tries, sharedVars, imageVars, file, serverVars>>

StartDownload(t) ==
    LET d == work[t].id
    IN  /\ InBody(t, "DOWNLOAD")
        /\ link
        /\ Kind[d] = "image" /\ ~IsRunning(d)
        /\ tries' = [tries EXCEPT ![t] = DownloadRetries]
        /\ MoveTo(t, "download")
        /\ UNCHANGED <<loopVars, work, sharedVars, imageVars, file, serverVars>>

(* The image is written whole and ended. esp_ota_begin refuses while the     *)
(* running image is pending.                                                 *)
WriteImage(d) ==
    /\ link
    /\ ~pending
    /\ next' = Version[d]
    /\ UNCHANGED <<running, pending>>

BootImage(d) == WriteImage(d) /\ boot' = "next"

(* Part of the image is written over what the partition held.                *)
SpoilImage ==
    /\ link
    /\ ~pending
    /\ next' = None
    /\ UNCHANGED <<running, pending, boot>>

(* An attempt fails before it writes, while it writes, or although the image *)
(* is whole: it could not be set to boot, or the connection not be closed.   *)
FailedAttempt(d) ==
    \/ UNCHANGED imageVars
    \/ SpoilImage
    \/ WriteImage(d) /\ boot' \in {boot, "next"}

(* Mutant: an image that could not be ended counts as downloaded.            *)
DownloadedUnchecked(t) ==
    /\ at[t] = "download"
    /\ BootImage(work[t].id) \/ SpoilImage
    /\ work' = [work EXCEPT ![t].status = "DOWNLOAD_SUCCESSFUL"]
    /\ MoveTo(t, "save")
    /\ UNCHANGED <<loopVars, tries, sharedVars, file, serverVars>>

Downloaded(t) ==
    /\ at[t] = "download"
    /\ BootImage(work[t].id)
    /\ work' = [work EXCEPT ![t].status = "DOWNLOAD_SUCCESSFUL"]
    /\ MoveTo(t, "save")
    /\ UNCHANGED <<loopVars, tries, sharedVars, file, serverVars>>

RetryDownload(t) ==
    /\ at[t] = "download"
    /\ tries[t] > 0
    /\ FailedAttempt(work[t].id)
    /\ tries' = [tries EXCEPT ![t] = @ - 1]
    /\ UNCHANGED <<loopVars, at, client, work, sharedVars, file, serverVars>>

GiveUpDownload(t) ==
    /\ at[t] = "download"
    /\ tries[t] = 0
    /\ FailedAttempt(work[t].id)
    /\ work' = [work EXCEPT ![t].status = "DOWNLOAD_FAILED"]
    /\ MoveTo(t, "save")
    /\ UNCHANGED <<loopVars, tries, sharedVars, file, serverVars>>

(* Mutant: a download that failed is not reported.                           *)
AfterSaveUnreported(status) ==
    IF status \in {"DOWNLOAD_FAILED", "DOWNLOAD_INVALID"} THEN "IDLE"
    ELSE "INSTALL"

(* HAWKBITCLIENT_ERR_DOWNLOADING skips the installation.                     *)
AfterSave(status) ==
    IF status \in {"DOWNLOAD_FAILED", "DOWNLOAD_INVALID"} THEN "CHECK"
    ELSE "INSTALL"

SaveStatus(t) ==
    /\ at[t] = "save"
    /\ file' = work[t]
    /\ GoTo(t, AfterSave(work[t].status))
    /\ UNCHANGED <<loopVars, work, tries, sharedVars, imageVars, serverVars>>

(* Mutant: an error of the write is ignored.                                 *)
SaveFailsUnnoticed(t) ==
    /\ at[t] = "save"
    /\ GoTo(t, AfterSave(work[t].status))
    /\ UNCHANGED <<loopVars, work, tries, sharedVars, imageVars, file, serverVars>>

SaveFails(t) ==
    /\ at[t] = "save"
    /\ GoTo(t, "IDLE")
    /\ UNCHANGED <<loopVars, work, tries, sharedVars, imageVars, file, serverVars>>

(* The url is still there only after a successful download.                  *)
RestartToInstall(t) ==
    /\ InBody(t, "INSTALL")
    /\ work[t].status = "DOWNLOAD_SUCCESSFUL"
    /\ Restart

NothingToInstall(t) ==
    /\ InBody(t, "INSTALL")
    /\ work[t].status # "DOWNLOAD_SUCCESSFUL"
    /\ GoTo(t, "CHECK")
    /\ UNCHANGED <<loopVars, work, tries, sharedVars, imageVars, file, serverVars>>

------------------------------------------------------------------------------
(* CHECK, check_installed_updates.                                           *)

(* A pending image is confirmed, unless that fails.                          *)
MayConfirm ==
    /\ pending' \in {pending, FALSE}
    /\ UNCHANGED <<running, next, boot>>

(* There is no file, or it or the image's state cannot be read.              *)
NothingToReport(t) ==
    /\ InBody(t, "CHECK")
    /\ MayConfirm
    /\ GoTo(t, "INFORM")
    /\ UNCHANGED <<loopVars, work, tries, sharedVars, file, serverVars>>

(* Whatever the file says, the condition of line 1034 is true: its status    *)
(* becomes HANDLE_P_ANKER_UPDATE. A failure to write that is not noticed.    *)
BeginReport(t) ==
    LET info == [file EXCEPT !.status = "HANDLE_P_ANKER_UPDATE"]
    IN  /\ InBody(t, "CHECK")
        /\ file # NoFile
        /\ MayConfirm
        /\ work' = [work EXCEPT ![t] = info]
        /\ MayWrite(info)
        /\ MoveTo(t, "announce")
        /\ UNCHANGED <<loopVars, tries, sharedVars, serverVars>>

(* The intermediate feedback is sent or not, and the P-Ankers' update begins.*)
BeginSession(t) ==
    /\ at[t] = "announce"
    /\ runState' = "WAIT"
    /\ MoveTo(t, "session")
    /\ UNCHANGED <<loopVars, bits, statusSent, overlap, work, tries, imageVars,
                   file, serverVars>>

(* handle_p_anker_updates returns; INSTALL_FAILED if it had P-Ankers to      *)
(* update and updated none.                                                  *)
EndSession(t, result) ==
    LET info == [work[t] EXCEPT !.status = result]
    IN  /\ at[t] = "session"
        /\ work' = [work EXCEPT ![t] = info]
        /\ MayWrite(info)
        /\ runState' = "ACTIVE"
        /\ MoveTo(t, "report")
        /\ UNCHANGED <<loopVars, bits, statusSent, overlap, tries, imageVars,
                       serverVars>>

Outcome(status) ==
    IF status = "HANDLED_P_ANKER_UPDATE" THEN "success" ELSE "failure"

(* The server closes the action it waits for, and no other.                  *)
ServerCloses(info) ==
    IF info.id = open
    THEN /\ open' = None
         /\ verdict' = [verdict EXCEPT ![info.id] = Outcome(info.status)]
    ELSE UNCHANGED serverVars

ReportAccepted(t) ==
    /\ at[t] = "report"
    /\ link
    /\ ServerCloses(work[t])
    /\ MoveTo(t, "erase")
    /\ UNCHANGED <<loopVars, work, tries, sharedVars, imageVars, file>>

(* Mutant: the file is erased whether or not the server has the feedback.    *)
ReportFailsUnnoticed(t) ==
    /\ at[t] = "report"
    /\ (link /\ ServerCloses(work[t])) \/ UNCHANGED serverVars
    /\ MoveTo(t, "erase")
    /\ UNCHANGED <<loopVars, work, tries, sharedVars, imageVars, file>>

(* The feedback, or the answer to it, is lost, or the server refuses it.     *)
ReportFails(t) ==
    /\ at[t] = "report"
    /\ (link /\ ServerCloses(work[t])) \/ UNCHANGED serverVars
    /\ GoTo(t, "INFORM")
    /\ UNCHANGED <<loopVars, work, tries, sharedVars, imageVars, file>>

EraseFile(t) ==
    /\ at[t] = "erase"
    /\ file' = NoFile \/ UNCHANGED file
    /\ GoTo(t, "INFORM")
    /\ UNCHANGED <<loopVars, work, tries, sharedVars, imageVars, serverVars>>

------------------------------------------------------------------------------
(* The server assigns deployments in any order, each once, also while it     *)
(* still waits for another.                                                  *)
Assign(d) ==
    /\ verdict[d] = "none"
    /\ d # open
    /\ open' = d
    /\ verdict' = [e \in Deployments |->
                     IF e = open THEN "replaced" ELSE verdict[e]]
    /\ UNCHANGED <<loopVars, taskVars, sharedVars, imageVars, file>>

TaskStep(t) ==
    \/ EnterBody(t)
    \/ EndTask(t)
    \/ LeaveIdle(t)
    \/ NothingToDo(t)
    \/ FindDeployment(t)
    \/ \E sent \in BOOLEAN : Inform(t, sent)
    \/ StopTask(t)
    \/ IgnoreDeployment(t)
    \/ SkipDownload(t)
    \/ StartDownload(t)
    \/ Downloaded(t)
    \/ RetryDownload(t)
    \/ GiveUpDownload(t)
    \/ SaveStatus(t)
    \/ SaveFails(t)
    \/ RestartToInstall(t)
    \/ NothingToInstall(t)
    \/ NothingToReport(t)
    \/ BeginReport(t)
    \/ BeginSession(t)
    \/ \E result \in {"HANDLED_P_ANKER_UPDATE", "INSTALL_FAILED"} :
         EndSession(t, result)
    \/ ReportAccepted(t)
    \/ ReportFails(t)
    \/ EraseFile(t)

Next ==
    \/ EventLoop
    \/ \E t \in Tasks : TaskStep(t)
    \/ Restart
    \/ \E d \in Deployments : Assign(d)

Spec == Init /\ [][Next]_vars

------------------------------------------------------------------------------
FlagType ==
    /\ link \in BOOLEAN
    /\ statusSent \in BOOLEAN
    /\ overlap \in BOOLEAN
    /\ pending \in BOOLEAN

DataType ==
    /\ loop \in {"free", "stopping"}
    /\ runState \in {"INACTIVE", "ACTIVE", "WAIT"}
    /\ bits \subseteq {"STOP", "STOPPED", "REPOLL"}
    /\ at \in [Tasks -> Places]
    /\ client \in [Tasks -> States]
    /\ work \in [Tasks -> Info]
    /\ tries \in [Tasks -> 0..DownloadRetries]
    /\ running \in Versions
    /\ next \in Versions \cup {None}
    /\ boot \in {"running", "next"}
    /\ file \in Info
    /\ open \in Deployments \cup {None}
    /\ verdict \in [Deployments -> {"none", "success", "failure", "replaced"}]

(* Every variable keeps its type (hawkbit_client.cpp:49-71, 122-135).        *)
TypeOK == FlagType /\ DataType

(* Until a task has ended since the restart there is one at most, it runs    *)
(* whenever the run state says so, and it comes to its stop only for a stop  *)
(* that waits for it (hawkbit_client.cpp:1186-1336, 1360-1400).              *)
Ending(t) == client[t] = "STOP"

FirstCycle ==
    "STOPPED" \notin bits =>
        /\ ~overlap
        /\ runState = "INACTIVE" => \A t \in Alive : at[t] = "top" /\ Ending(t)
        /\ \A t \in Alive : Ending(t) => loop = "stopping"
        /\ runState # "INACTIVE" => Alive # {}
        /\ "STOP" \in bits => loop = "stopping"
        /\ loop = "stopping" =>
             /\ Alive # {}
             /\ "STOP" \in bits \/ \E t \in Alive : Ending(t)

(* A second task is alive only after one was started beside another, and a   *)
(* stop that waits is over when the one task has ended.                      *)
LaterCycles ==
    /\ ~overlap => \A t, u \in Alive : t = u
    /\ loop = "stopping" /\ "STOPPED" \in bits =>
         Alive = {} /\ runState = "INACTIVE"

(* The invariant of starting and stopping (hawkbit_client.cpp:1186-1399).    *)
StartStopInv == FirstCycle /\ LaterCycles

(* Which states the places inside a case body belong to, and that a task     *)
(* works on a deployment the server once assigned; so does the file.         *)
Reporting == {"announce", "session", "report", "erase"}

PlaceInv ==
    /\ file = NoFile \/ file.id \in Deployments
    /\ \A t \in Tasks :
         /\ at[t] \in Reporting \cup {"none"} => client[t] = "CHECK"
         /\ at[t] \in {"download", "save"} => client[t] = "DOWNLOAD"
         /\ client[t] \in {"DOWNLOAD", "INSTALL"} => work[t].id \in Deployments
         /\ at[t] \in Reporting => work[t].id \in Deployments

(* A download that succeeded left the whole image to boot, until a second    *)
(* task touches the partition (hawkbit_client.cpp:648-674).                  *)
DownloadInv ==
    \A t \in Tasks :
        ~overlap /\ at[t] = "save" /\ work[t].status = "DOWNLOAD_SUCCESSFUL"
        => boot = "next" /\ next = Version[work[t].id]

(* The server has had the deployment, and waits for it no longer.            *)
Known(d) == d = open \/ verdict[d] # "none"
Over(d) == d # open /\ verdict[d] # "none"

(* The file and the task's work are about deployments the server has         *)
(* assigned; what is about to replace or erase the file may do so            *)
(* (hawkbit_client.cpp:892, 1036, 1101-1108).                                *)
ReportInv ==
    /\ file # NoFile => Known(file.id)
    /\ \A t \in Tasks :
         /\ client[t] = "DOWNLOAD" \/ at[t] \in Reporting => Known(work[t].id)
         /\ ~overlap /\ client[t] = "DOWNLOAD" =>
              file = NoFile \/ file.id = work[t].id \/ Over(file.id)
         /\ ~overlap /\ at[t] \in Reporting =>
              file # NoFile /\ file.id = work[t].id
         /\ at[t] = "erase" => Over(work[t].id)

(* The event loop never waits for the end of a task that does not exist: one *)
(* is alive, or the bit it waits for is set (hawkbit_client.cpp:1394-1396).  *)
StopWaitsForATask == loop = "stopping" => Alive # {} \/ "STOPPED" \in bits

(* A stop that waited returns only when no task is left and the run state    *)
(* says so (hawkbit_client.cpp:1325, 1335, 1396).                            *)
WaitedStopIsTrue == [][StopReturns => Alive = {} /\ runState = "INACTIVE"]_vars

(* A task about to restart for an installation has set the deployment's      *)
(* whole image to boot and saved that it did, unless a second task meddles   *)
(* (hawkbit_client.cpp:648-674, 892-909, 1287-1290).                         *)
InstallIsPrepared ==
    \A t \in Tasks :
        /\ ~overlap
        /\ client[t] = "INSTALL"
        /\ work[t].status = "DOWNLOAD_SUCCESSFUL"
        => /\ file = work[t]
           /\ boot = "next"
           /\ next = Version[work[t].id]

(* The inductive invariant of the client.                                    *)
IInv ==
    /\ TypeOK
    /\ StartStopInv
    /\ PlaceInv
    /\ DownloadInv
    /\ InstallIsPrepared
    /\ ReportInv

(* update.stat gives up a deployment, to nothing or to another one, only     *)
(* when the server no longer waits for that deployment, whatever restarts    *)
(* and failures came in between, unless a second task meddles                *)
(* (hawkbit_client.cpp:892, 1036, 1073, 1101-1112).                          *)
NothingForgotten ==
    [][~overlap /\ file # NoFile /\ file'.id # file.id => open' # file.id]_vars

(* "Hawkbit task successfully stopped" (hawkbit_client.cpp:1397) is logged   *)
(* only when no task is left.                                                *)
StoppedMeansStopped ==
    [][StopReturns \/ (StopRequested /\ loop' = "free") => Alive = {}]_vars

(* A deployment whose image the client "Failed to download / install"        *)
(* (hawkbit_client.cpp:864) is not reported as a success.                    *)
SuccessMeansInstalled ==
    [][\A d \in Deployments :
         /\ Kind[d] \in {"image", "invalid"}
         /\ verdict[d] # "success" /\ verdict'[d] = "success"
         => Kind[d] = "image" /\ IsRunning(d)]_vars
==============================================================================
