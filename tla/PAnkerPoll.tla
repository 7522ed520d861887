------------------------------ MODULE PAnkerPoll -----------------------------
(* How a P-Anker listens for the C-Anker: a UDP task and a TCP task that the *)
(* event loop starts and stops with the network, and the tasks that stop     *)
(* them to move to another network (updater.cpp:742-765, 803-1150,           *)
(* 1260-1374). All run on one core, the event loop above the others: what it *)
(* does without blocking is one step, and it may come between any two of     *)
(* theirs. A stop waits for 10 s, the sockets of a task that has nothing to  *)
(* do for 5 s at most; a task that is doing something may take any time.     *)
EXTENDS Naturals, FiniteSets

CONSTANTS
    UdpTasks,     \* room for tasks p_anker_udp_broadcast_task
    TcpTasks,     \* room for tasks p_anker_tcp_task
    Connectors,   \* room for tasks p_anker_connect_to_c_anker_ap_task
    Loop          \* the event loop task

ASSUME PollAssumption ==
    /\ UdpTasks \cap TcpTasks = {}
    /\ (UdpTasks \cup TcpTasks) \cap Connectors = {}
    /\ Loop \notin UdpTasks \cup TcpTasks \cup Connectors
    /\ IsFiniteSet(UdpTasks) /\ IsFiniteSet(TcpTasks)

VARIABLES
    running,      \* udp_task_running, tcp_task_running
    bits,         \* UDP_TASK_STOPPED, TCP_TASK_STOPPED in p_anker_task_event_group
    place,        \* where each task is; "none" if it does not exist
    both,         \* wait_for_all_tasks of each task that is in a stop
    initial_done, \* updater_start has looked at the file since the restart
    installed,    \* what it will find: update.stat says INSTALLED
    online,       \* what the last network event said
    \* history
    slow,         \* tasks that were busy when their flag was lowered
    lost,         \* kinds for which no task could be had since the last start
    gaveUp,       \* a task gave up a stop, and no start since
    mixed         \* since the restart stops and starts have met

stopVars == <<running, bits, place, both>>
fileVars == <<initial_done, installed>>
historyVars == <<slow, lost, gaveUp, mixed>>
vars == <<stopVars, fileVars, online, historyVars>>

Kinds == {"udp", "tcp"}
Pollers == UdpTasks \cup TcpTasks
Tasks == Pollers \cup Connectors \cup {Loop}
Kind(t) == IF t \in UdpTasks THEN "udp" ELSE "tcp"
OfKind(k) == {t \in Pollers : Kind(t) = k}
Stoppers == {Loop} \cup Connectors \cup UdpTasks

PollPlaces == {"opening", "polling", "serving", "closing"}
StopPlaces == {"asked", "lowering", "lowered", "waiting", "leaving", "left"}

Polls(t) == place[t] \in PollPlaces
Stopping == {s \in Stoppers : place[s] \in {"asked", "lowering", "lowered", "waiting"}}

Init ==
    /\ running = [k \in Kinds |-> FALSE]
    /\ bits = {}
    /\ place = [t \in Tasks |-> IF t = Loop THEN "idle" ELSE "none"]
    /\ both = [s \in Stoppers |-> FALSE]
    /\ initial_done = FALSE
    /\ installed \in BOOLEAN
    /\ online = FALSE
    /\ slow = {}
    /\ lost = {}
    /\ gaveUp = FALSE
    /\ mixed = FALSE

GoTo(t, p) == place' = [place EXCEPT ![t] = p]

------------------------------------------------------------------------------
(* stop_p_anker_poll_mode.                                                   *)

(* Whoever leaves the network has left it once its link went down.           *)
Stopped(s) == IF s = Loop THEN "idle" ELSE IF online THEN "leaving" ELSE "left"

NoneRunning == \A k \in Kinds : ~running[k]
AllRunning == \A k \in Kinds : running[k]

(* Mutant: one bit is enough.                                                *)
SatisfiedByAny(s, set) == set # {}

Satisfied(s, set) == IF both[s] THEN set = Kinds ELSE set # {}

(* Mutant: bits of an earlier stop are left.                                 *)
KeepBits == UNCHANGED bits

ClearBits == bits' = {}

(* The stop of a task; the event loop may come in between any two steps.     *)
BeginStop(s) ==
    /\ place[s] = "asked"
    /\ \/ /\ NoneRunning
          /\ GoTo(s, Stopped(s))
          /\ UNCHANGED <<bits, both>>
       \/ /\ ~NoneRunning
          /\ ClearBits
          /\ both' = [both EXCEPT ![s] = AllRunning]
          /\ GoTo(s, "lowering")
    /\ UNCHANGED <<running, fileVars, online, historyVars>>

LowerUdp(s) ==
    /\ place[s] = "lowering"
    /\ running' = [running EXCEPT !["udp"] = FALSE]
    /\ slow' = slow \cup {t \in UdpTasks : place[t] = "serving"}
    /\ GoTo(s, "lowered")
    /\ UNCHANGED <<bits, both, fileVars, online, lost, gaveUp, mixed>>

LowerTcp(s) ==
    /\ place[s] = "lowered"
    /\ running' = [running EXCEPT !["tcp"] = FALSE]
    /\ slow' = slow \cup {t \in TcpTasks : place[t] = "serving"}
    /\ \/ /\ Satisfied(s, bits)
          /\ GoTo(s, Stopped(s))
          /\ bits' = {}
          /\ both' = [both EXCEPT ![s] = FALSE]
       \/ /\ ~Satisfied(s, bits)
          /\ GoTo(s, "waiting")
          /\ UNCHANGED <<bits, both>>
    /\ UNCHANGED <<fileVars, online, lost, gaveUp, mixed>>

(* Tasks that end within the time a stop waits.                              *)
Prompt(t) ==
    \/ place[t] \in {"opening", "closing"}
    \/ place[t] = "polling" /\ ~running[Kind(t)]

StillComing(s) == \E t \in Pollers \ slow : Prompt(t) /\ Kind(t) \notin bits

(* Mutant: every bit it waits for must be there.                             *)
EnoughIfAll(s) == Satisfied(s, bits)

Enough(s) == bits # {}

(* Mutant: the flags are raised again.                                       *)
GiveUpRestarting(s) ==
    /\ GoTo(s, IF s = Loop THEN "idle" ELSE "none")
    /\ gaveUp' = (gaveUp \/ s # Loop)
    /\ running' = [k \in Kinds |-> TRUE]

(* The task that made the stop is deleted, the flags stay lowered.           *)
GiveUp(s) ==
    /\ GoTo(s, IF s = Loop THEN "idle" ELSE "none")
    /\ gaveUp' = (gaveUp \/ s # Loop)
    /\ UNCHANGED running

(* Any bit there at the end of the time passes for success.                  *)
WaitTimeout(s) ==
    /\ place[s] = "waiting"
    /\ ~StillComing(s)
    /\ \/ Enough(s) /\ GoTo(s, Stopped(s)) /\ UNCHANGED <<running, gaveUp>>
       \/ ~Enough(s) /\ GiveUp(s)
    /\ both' = [both EXCEPT ![s] = FALSE]
    /\ mixed' = (mixed \/ \E t \in Pollers : Polls(t))
    /\ UNCHANGED <<bits, fileVars, online, slow, lost>>

------------------------------------------------------------------------------
(* The polling tasks.                                                        *)

HasSockets(t) == place[t] \in {"polling", "serving", "closing"}

(* TCP allows one listener on the port; any call may fail. The flag is set   *)
(* even if it has been lowered in the meantime.                              *)
OpenSockets(t) ==
    /\ place[t] = "opening"
    /\ t \in TcpTasks => \A other \in TcpTasks : ~HasSockets(other)
    /\ running' = [running EXCEPT ![Kind(t)] = TRUE]
    /\ GoTo(t, "polling")
    /\ mixed' = (mixed \/ ~running[Kind(t)])
    /\ UNCHANGED <<bits, both, fileVars, online, slow, lost, gaveUp>>

OpenFails(t) ==
    /\ place[t] = "opening"
    /\ GoTo(t, "closing")
    /\ lost' = lost \cup {Kind(t)}
    /\ UNCHANGED <<running, bits, both, fileVars, online, slow, gaveUp, mixed>>

SeeStop(t) ==
    /\ place[t] = "polling"
    /\ ~running[Kind(t)]
    /\ GoTo(t, "closing")
    /\ UNCHANGED <<running, bits, both, fileVars, online, historyVars>>

(* The last act of a task: xEventGroupSetBits wakes whoever has its bits.    *)
EndTask(t) ==
    /\ place[t] = "closing"
    /\ LET set == bits \cup {Kind(t)}
           woken == {s \in Stoppers : place[s] = "waiting" /\ Satisfied(s, set)}
       IN  /\ place' = [a \in Tasks |-> IF a = t THEN "none"
                                        ELSE IF a \in woken THEN Stopped(a) ELSE place[a]]
           /\ bits' = IF woken = {} THEN set ELSE {}
           /\ both' = [s \in Stoppers |-> both[s] /\ s \notin woken]
    /\ slow' = slow \ {t}
    /\ UNCHANGED <<running, fileVars, online, lost, gaveUp, mixed>>

(* A connection was accepted, a datagram received.                           *)
Serve(t) ==
    /\ place[t] = "polling"
    /\ GoTo(t, "serving")
    /\ slow' = IF running[Kind(t)] THEN slow ELSE slow \cup {t}
    /\ UNCHANGED <<running, bits, both, fileVars, online, lost, gaveUp, mixed>>

Served(t) ==
    /\ place[t] = "serving"
    /\ GoTo(t, "polling")
    /\ UNCHANGED <<running, bits, both, fileVars, online, historyVars>>

(* Mutant: the TCP task itself leaves for the access point.                  *)
InvitedItself(t) ==
    /\ t \in TcpTasks
    /\ place[t] = "serving"
    /\ GoTo(t, "asked")
    /\ UNCHANGED <<running, bits, both, fileVars, online, historyVars>>

(* The C-Anker's invitation: a connecting task, if there is memory for one.  *)
Invited(t) ==
    /\ t \in TcpTasks
    /\ place[t] = "serving"
    /\ \/ GoTo(t, "polling")
       \/ \E c \in Connectors :
            /\ place[c] = "none"
            /\ place' = [place EXCEPT ![t] = "polling", ![c] = "asked"]
    /\ mixed' = (mixed \/ Stopping # {})
    /\ UNCHANGED <<running, bits, both, fileVars, online, slow, lost, gaveUp>>

(* GET_UPDATE_VERSION_ACK: the UDP task goes home itself, polls no more and  *)
(* never sets its bit.                                                       *)
Confirm(t) ==
    /\ t \in UdpTasks
    /\ place[t] = "serving"
    /\ GoTo(t, "asked")
    /\ slow' = slow \ {t}
    /\ mixed' = (mixed \/ Stopping # {})
    /\ UNCHANGED <<running, bits, both, fileVars, online, lost, gaveUp>>

(* It is on the other network, or has tried often enough.                    *)
EndLeaving(s) ==
    /\ place[s] = "left"
    /\ GoTo(s, "none")
    /\ UNCHANGED <<running, bits, both, fileVars, online, historyVars>>

------------------------------------------------------------------------------
(* The event loop.                                                           *)

(* Mutant: the UDP flag decides for both.                                    *)
NeededByUdp(k) == ~running["udp"]

Needed(k) == ~running[k]

(* set_p_anker_into_poll_mode; there may be no memory for a task.            *)
StartPolling ==
    /\ running' = [k \in Kinds |-> running[k] \/ Needed(k)]
    /\ \E new \in SUBSET {t \in Pollers : place[t] = "none" /\ Needed(Kind(t))} :
         /\ \A k \in Kinds : Cardinality(new \cap OfKind(k)) <= 1
         /\ place' = [t \in Tasks |-> IF t \in new THEN "opening" ELSE place[t]]
         /\ lost' = {k \in Kinds : IF Needed(k) THEN new \cap OfKind(k) = {} ELSE k \in lost}
    /\ mixed' = (mixed \/ Stopping # {})
    /\ gaveUp' = FALSE

(* IP_EVENT_STA_GOT_IP: updater_start.                                       *)
LinkUp ==
    /\ place[Loop] = "idle"
    /\ online' = TRUE
    /\ initial_done' = TRUE /\ installed' = FALSE
    /\ \/ /\ ~initial_done /\ installed
          /\ \/ /\ \E c \in Connectors : place[c] = "none" /\ GoTo(c, "asked")
                /\ UNCHANGED lost
             \/ lost' = Kinds /\ UNCHANGED place
          /\ UNCHANGED <<running, gaveUp, mixed>>
       \/ /\ initial_done \/ ~installed
          /\ StartPolling
    /\ UNCHANGED <<bits, both, slow>>

(* Nothing comes in between the steps of the event loop.                     *)
Lower ==
    /\ running' = [k \in Kinds |-> FALSE]
    /\ slow' = slow \cup {t \in Pollers : place[t] = "serving"}

(* WIFI_EVENT_STA_DISCONNECTED: updater_stop.                                *)
LinkDown ==
    LET placed == [t \in Tasks |-> IF place[t] = "leaving" THEN "left" ELSE place[t]] IN
    /\ place[Loop] = "idle"
    /\ online' = FALSE
    /\ \/ /\ NoneRunning
          /\ place' = placed
          /\ UNCHANGED <<running, bits, both, slow, mixed>>
       \/ /\ ~NoneRunning
          /\ bits' = {}
          /\ both' = [both EXCEPT ![Loop] = AllRunning]
          /\ Lower
          /\ place' = [placed EXCEPT ![Loop] = "waiting"]
          /\ mixed' = (mixed \/ Stopping # {})
    /\ UNCHANGED <<fileVars, lost, gaveUp>>

(* Power lost, or the last chunk installed by the UDP task. What update.stat *)
(* says then is FirmwareTransfer's matter.                                   *)
Restart ==
    /\ running' = [k \in Kinds |-> FALSE]
    /\ bits' = {}
    /\ place' = [t \in Tasks |-> IF t = Loop THEN "idle" ELSE "none"]
    /\ both' = [s \in Stoppers |-> FALSE]
    /\ initial_done' = FALSE
    /\ installed' \in BOOLEAN
    /\ online' = FALSE
    /\ slow' = {} /\ lost' = {} /\ gaveUp' = FALSE /\ mixed' = FALSE

Stops(s) ==
    BeginStop(s) \/ LowerUdp(s) \/ LowerTcp(s) \/ WaitTimeout(s) \/ EndLeaving(s)

Obeys(t) == OpenSockets(t) \/ OpenFails(t) \/ SeeStop(t) \/ EndTask(t)

Next ==
    \/ \E s \in Stoppers : Stops(s)
    \/ \E t \in Pollers : Obeys(t) \/ Serve(t) \/ Served(t) \/ Invited(t) \/ Confirm(t)
    \/ LinkUp
    \/ LinkDown
    \/ Restart

(* Tasks run and their sockets time out; a task that wants to leave makes    *)
(* the link go down, and the station finds a network again (Wifi). What a    *)
(* client or a datagram makes a task do may last for ever.                   *)
Spec ==
    /\ Init
    /\ [][Next]_vars
    /\ \A s \in Stoppers : WF_vars(Stops(s))
    /\ \A t \in Pollers : WF_vars(Obeys(t))
    /\ WF_vars(LinkDown /\ \E s \in Stoppers : place[s] = "leaving")
    /\ WF_vars(LinkUp /\ ~online)

------------------------------------------------------------------------------
(* The type of the state.                                                    *)
TypeOK ==
    /\ running \in [Kinds -> BOOLEAN]
    /\ bits \subseteq Kinds
    /\ place \in [Tasks -> {"none", "idle"} \cup PollPlaces \cup StopPlaces]
    /\ place[Loop] \in {"idle", "waiting"}
    /\ \A t \in TcpTasks : place[t] \in {"none"} \cup PollPlaces
    /\ \A c \in Connectors : place[c] \in {"none"} \cup StopPlaces
    /\ both \in [Stoppers -> BOOLEAN]
    /\ initial_done \in BOOLEAN /\ installed \in BOOLEAN /\ online \in BOOLEAN
    /\ slow \subseteq Pollers /\ lost \subseteq Kinds
    /\ gaveUp \in BOOLEAN /\ mixed \in BOOLEAN

(* No second task of a kind is started beside one that still polls, on the   *)
(* same flag, ports and partition (1261-1268), as long as no start and no    *)
(* stop fell into another's stop, no stop ran out of time and no flag that   *)
(* was lowered was raised by its own task (mixed).                           *)
OneOfAKind ==
    mixed \/ \A k \in Kinds : Cardinality({t \in OfKind(k) : Polls(t)}) <= 1

(* A raised flag keeps a start from creating the task (1261, 1265), so there *)
(* has to be one, however stops, starts and timeouts met, unless the last    *)
(* start could not have it: otherwise the Anker is deaf until the network    *)
(* goes.                                                                     *)
FlagIsTrue ==
    \A k \in Kinds : running[k] /\ k \notin lost =>
        \E t \in OfKind(k) : Polls(t) \/ place[t] \in {"asked", "lowering"}

Ends(s) == place[s] \in {"lowered", "waiting"} /\ place'[s] = Stopped(s)

(* "P-anker polling stopped" (762) is true: no task polls when a stop        *)
(* returns, unless it ran out of time with one of the two bits (756) or met  *)
(* another start or stop.                                                    *)
StopIsTrue ==
    [][\A s \in Stoppers : Ends(s) =>
          mixed' \/ ~\E t \in Pollers : Polls(t)']_vars

(* A task gives up its move to another network (804-808, 829-832) only for a *)
(* task that was busy while it waited (1109) or was not there, although the  *)
(* UDP task that goes home waits for a bit only it could set (1026).         *)
GivesUpOnlyOnTheBusy ==
    [][~gaveUp /\ gaveUp' => mixed \/ slow # {} \/ lost # {}]_vars

Disturbed ==
    \/ Restart
    \/ \E t \in Pollers : Invited(t) \/ Confirm(t)
    \/ LinkUp /\ online
    \/ LinkDown /\ ~\E s \in Stoppers : place[s] = "leaving"

Listens(k) == running[k] /\ \E t \in OfKind(k) : Polls(t)

(* When the network and the C-Anker leave it in peace the Anker listens      *)
(* again with both tasks, whatever was going on, unless there was no memory  *)
(* for a task or no socket, or a move was given up: nothing starts the       *)
(* polling again then (804-808, 829-832).                                    *)
ListensInTheEnd ==
    []<><<Disturbed>>_vars \/ <>[](gaveUp \/ \A k \in Kinds \ lost : Listens(k))

------------------------------------------------------------------------------
(* The inductive invariant.                                                  *)

(* A raised flag has a task that has not begun to end, or the UDP task that  *)
(* will lower it itself.                                                     *)
FlagsAreHeld ==
    \A k \in Kinds : running[k] /\ k \notin lost =>
        \E t \in OfKind(k) :
            place[t] \in {"opening", "polling", "serving", "asked", "lowering"}

(* Before the first network event nothing runs (1301-1318).                  *)
NothingBeforeStart ==
    ~initial_done => /\ NoneRunning
                     /\ \A t \in Tasks \ {Loop} : place[t] = "none"

(* A task that is busy without its flag was busy when the flag was lowered,  *)
(* or got busy before it looked at the flag again.                           *)
BusyIsSlow ==
    \A t \in Pollers : place[t] = "serving" /\ ~running[Kind(t)] => t \in slow

Within(s) == place[s] \in {"lowering", "lowered", "waiting"}

OneEach ==
    \A t, u \in Pollers : Polls(t) /\ Polls(u) /\ Kind(t) = Kind(u) => t = u

OneStop == \A s, u \in Stopping : s = u

(* A stop finds both flags raised or none, lowers both and waits for both.   *)
StopsAreWhole ==
    /\ AllRunning \/ NoneRunning \/ \E s \in Stoppers : place[s] = "lowered"
    /\ \A s \in Stoppers : place[s] = "lowering" => AllRunning
    /\ \A s \in Stoppers : place[s] = "lowered" => ~running["udp"] /\ running["tcp"]
    /\ \A s \in Stoppers : Within(s) => both[s]
    /\ \A s \in Stoppers : place[s] = "waiting" => NoneRunning

(* During a stop a bit says that the task has ended, and the TCP task is     *)
(* there until it does.                                                      *)
BitsAreTrue ==
    (\E s \in Stoppers : Within(s)) =>
        /\ \A t \in Pollers : Polls(t) => Kind(t) \notin bits
        /\ \/ "tcp" \in bits \cup lost
           \/ \E t \in TcpTasks : Polls(t)

(* Without a stop and a flag there is no task.                               *)
FlagsAreFollowed ==
    NoneRunning => \/ \A t \in Pollers : ~Polls(t)
                   \/ \E s \in Stoppers : place[s] = "waiting"

Undisturbed ==
    OneEach /\ OneStop /\ StopsAreWhole /\ BitsAreTrue /\ FlagsAreFollowed

IInv ==
    /\ TypeOK
    /\ FlagsAreHeld
    /\ NothingBeforeStart
    /\ BusyIsSlow
    /\ mixed \/ Undisturbed

==============================================================================
