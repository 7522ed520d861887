-------------------------------- MODULE Wifi ---------------------------------
(* WiFi of an Anker, wifi.cpp: the handling task, the two functions other    *)
(* tasks request a network with, the event handlers of wifi.cpp and api.cpp, *)
(* and the station and access point of the driver below them.                *)
(* The event loop has the highest priority on core 0: while it is not        *)
(* blocked in updater_stop the tasks run only when no event waits            *)
(* (Scheduled). Setup runs on core 1. Lengths of waits are not modelled: a   *)
(* wait with a timeout may end at any time.                                  *)
(* Of the status bits CONNECT_BIT and CREATE_AP_BIT are state. The bits that *)
(* answer a wait are cleared before it begins (279, 465, 487), so one set    *)
(* when nobody waits is never seen: setting one is waking who waits. Nothing *)
(* sets WIFI_CONNECTION_LOST_BIT.                                            *)
EXTENDS Naturals, Sequences

CONSTANTS
    Clients,      \* tasks that call wifi_connect_to_ap and wifi_create_ap
    Requests,     \* what they ask for: the networks "default", "anker" or an
                  \* access point "own"
    IsCAnker,     \* the device type
    MaxAttempts,  \* MAX_ATTEMPTS_OF_RECONNECTS_DURING_ESP_FAIL
    MaxEvents     \* the length of the loop's queue, which blocks who posts

ASSUME WifiAssumption ==
    /\ Requests \subseteq {"default", "anker", "own"}
    /\ IsCAnker \in BOOLEAN
    /\ MaxAttempts \in Nat
    /\ MaxEvents \in Nat

VARIABLES
    \* setup
    setup,                \* how far api_init is
    wifi_handler_active,
    \* the handling task
    handler,              \* where it is
    cur_handling_state,
    cur_handling_event,
    requested,            \* CONNECT_BIT, CREATE_AP_BIT
    \* shared between the handling task and the event handler
    reconnect,
    attempts_reconnect,
    wifi_sta_active,
    wifi_ap_active,
    is_connected,
    \* clients
    client,               \* where each is in its call
    want,                 \* what it asks for
    answer,               \* what its last call returned
    ssid,                 \* the buffer they share; "torn" during the copy
    \* the driver
    station,              \* "off", "on", "trying", "associated", "ip"
    joining,              \* the network the station is configured for
    ap,                   \* the access point, "off" or "open"
    \* the event loop
    events,               \* its queue
    loop,                 \* "free", or "blocked" in updater_stop
    updater,              \* as api.cpp called it: "never" yet, "on" or "off"
    missed                \* history: the address came before api.cpp listened

setupVars == <<setup, wifi_handler_active>>
handlerVars == <<handler, cur_handling_state, cur_handling_event>>
flagVars == <<reconnect, attempts_reconnect, wifi_sta_active, wifi_ap_active,
              is_connected>>
retryVars == <<reconnect, attempts_reconnect>>
activeVars == <<wifi_sta_active, wifi_ap_active>>
clientVars == <<client, want, answer>>
driverVars == <<station, joining, ap>>
loopVars == <<events, loop, updater, missed>>
vars == <<setupVars, handlerVars, requested, flagVars, clientVars, ssid,
          driverVars, loopVars>>

Retryable == "retryable"  \* disconnect reasons the code tries again after
Final == "final"          \* reasons it does not
Leave == "leave"          \* ASSOC_LEAVE, from esp_wifi_stop
Disconnects == {Retryable, Final, Leave}
LinkEvents == Disconnects \cup {"got_ip"}
Events == LinkEvents \cup {"sta_stop", "ap_stop"}

Names == {"", "anker", "own", "torn"}
Networks == {"default", "anker"}
NameOf(request) == IF request = "default" THEN "" ELSE request

Scheduled == events = <<>> \/ loop = "blocked"

Post(new) ==
    /\ Len(events) + Len(new) <= MaxEvents
    /\ events' = events \o new

------------------------------------------------------------------------------
(* Setup and the start of the handling task.                                 *)

Init ==
    /\ setup = "begin"
    /\ wifi_handler_active = FALSE
    /\ handler = "absent"
    /\ cur_handling_state = "CONNECT"
    /\ cur_handling_event = "DEFAULT"
    /\ requested = {}
    /\ reconnect = FALSE
    /\ attempts_reconnect = 0
    /\ wifi_sta_active = FALSE
    /\ wifi_ap_active = FALSE
    /\ is_connected = FALSE
    /\ client = [c \in Clients |-> "idle"]
    /\ want = [c \in Clients |-> "default"]
    /\ answer = [c \in Clients |-> "none"]
    /\ ssid = ""
    /\ station = "off"
    /\ joining = "default"
    /\ ap = "off"
    /\ events = <<>>
    /\ loop = "free"
    /\ updater = "never"
    /\ missed = FALSE

CreateHandler ==
    /\ setup = "begin"
    /\ setup' = "created"
    /\ handler' = "created"
    /\ UNCHANGED <<wifi_handler_active, cur_handling_state, cur_handling_event,
                   requested, flagVars, clientVars, ssid, driverVars, loopVars>>

MarkActive ==
    /\ setup = "created"
    /\ setup' = "active"
    /\ wifi_handler_active' = TRUE
    /\ UNCHANGED <<handlerVars, requested, flagVars, clientVars, ssid,
                   driverVars, loopVars>>

RegisterHandlers ==
    /\ setup = "active"
    /\ setup' = "registered"
    /\ UNCHANGED <<wifi_handler_active, handlerVars, requested, flagVars,
                   clientVars, ssid, driverVars, loopVars>>

EnterTask ==
    /\ Scheduled
    /\ handler = "created"
    /\ handler' = IF wifi_handler_active THEN "loop" ELSE "leaving"
    /\ requested' = {}
    /\ UNCHANGED <<setupVars, cur_handling_state, cur_handling_event, flagVars,
                   clientVars, ssid, driverVars, loopVars>>

LeaveTask ==
    /\ Scheduled
    /\ handler = "leaving"
    /\ handler' = "gone"
    /\ wifi_handler_active' = FALSE
    /\ UNCHANGED <<setup, cur_handling_state, cur_handling_event, requested,
                   flagVars, clientVars, ssid, driverVars, loopVars>>

------------------------------------------------------------------------------
(* The handling task in ST_IDLE.                                             *)

InState(place, state) ==
    /\ Scheduled
    /\ handler = place
    /\ cur_handling_state = state

Become(place, state, event) ==
    /\ handler' = place
    /\ cur_handling_state' = state
    /\ cur_handling_event' = event

(* All the bits waited for are cleared, the one that is acted on and the     *)
(* other.                                                                    *)
TakeRequest ==
    /\ InState("loop", "IDLE")
    /\ requested # {}
    /\ requested' = {}
    /\ IF "CONNECT" \in requested THEN Become("loop", "CONNECT", "C_ANKER")
       ELSE Become("loop", "CHANGE_TO_AP", "NONE")
    /\ UNCHANGED <<setupVars, flagVars, clientVars, ssid, driverVars, loopVars>>

(* What the driver says of the interface the flags name.                     *)
StillUp ==
    IF wifi_sta_active THEN station \in {"associated", "ip"}
    ELSE wifi_ap_active /\ ap # "off"

IdleTimeout ==
    /\ InState("loop", "IDLE")
    /\ requested = {}
    /\ IF StillUp THEN Become("loop", "IDLE", "NONE")
       ELSE Become("loop", "CONNECT", "DEFAULT")
    /\ UNCHANGED <<setupVars, requested, flagVars, clientVars, ssid, driverVars,
                   loopVars>>

------------------------------------------------------------------------------
(* change_config, and the answer to a client.                                *)

Waiting == {c \in Clients : client[c] = "waiting"}

(* ACCEPTED_BIT or REJECTED_BIT is set: each client that waits returns.      *)
Answer(result) ==
    /\ client' = [c \in Clients |-> IF c \in Waiting THEN "idle" ELSE client[c]]
    /\ answer' = [c \in Clients |-> IF c \in Waiting THEN result ELSE answer[c]]
    /\ UNCHANGED want

ConnectConfigFails ==
    /\ Become("loop", "IDLE", "NONE")
    /\ IF cur_handling_event = "C_ANKER" THEN Answer("error")
       ELSE UNCHANGED clientVars

ApConfigFails ==
    /\ Become("loop", "CONNECT", "DEFAULT")
    /\ Answer("error")

ConfigFails ==
    IF cur_handling_state = "CONNECT" THEN ConnectConfigFails ELSE ApConfigFails

(* esp_wifi_stop; whether a station that is still trying reports that it     *)
(* left is the driver's choice.                                              *)
StopEvents(leaves) ==
    (IF leaves THEN <<Leave>> ELSE <<>>)
    \o (IF station # "off" THEN <<"sta_stop">> ELSE <<>>)
    \o (IF ap # "off" THEN <<"ap_stop">> ELSE <<>>)

StopDriver ==
    \E leaves \in BOOLEAN :
        /\ leaves => station \in {"trying", "associated", "ip"}
        /\ station \in {"associated", "ip"} => leaves
        /\ Post(StopEvents(leaves))
        /\ station' = "off"
        /\ ap' = "off"
        /\ UNCHANGED joining

RefuseAp ==
    /\ InState("loop", "CHANGE_TO_AP")
    /\ ssid = ""
    /\ ApConfigFails
    /\ UNCHANGED <<setupVars, requested, flagVars, ssid, driverVars, loopVars>>

CanConfigure ==
    /\ Scheduled
    /\ handler = "loop"
    /\ \/ cur_handling_state = "CONNECT"
       \/ cur_handling_state = "CHANGE_TO_AP" /\ ssid # ""

StopFails ==
    /\ CanConfigure
    /\ ConfigFails
    /\ UNCHANGED <<setupVars, requested, flagVars, ssid, driverVars, loopVars>>

StopWifi ==
    /\ CanConfigure
    /\ StopDriver
    /\ Become("config", cur_handling_state, cur_handling_event)
    /\ UNCHANGED <<setupVars, requested, flagVars, clientVars, ssid, loop,
                   updater, missed>>

StationName ==
    IF cur_handling_event = "DEFAULT" \/ ssid = "" THEN "default" ELSE ssid

(* On a C-Anker, in the mode APSTA, the access point opens with the station, *)
(* under the name the driver was last given for it (128, 166).               *)
StartStation(name) ==
    /\ station' = "on"
    /\ joining' = name
    /\ ap' = IF IsCAnker THEN "open" ELSE "off"

ConfigureStation ==
    /\ InState("config", "CONNECT")
    /\ StartStation(StationName)
    /\ wifi_sta_active' = TRUE
    /\ wifi_ap_active' = FALSE
    /\ Become("retry", "CONNECT", cur_handling_event)
    /\ UNCHANGED <<setupVars, requested, retryVars, is_connected, clientVars,
                   ssid, loopVars>>

(* The buffer is read again, after the test before the stop.                 *)
ConfigureAp ==
    /\ InState("config", "CHANGE_TO_AP")
    /\ ssid # ""
    /\ station' = "on"
    /\ ap' = "open"
    /\ UNCHANGED joining
    /\ wifi_ap_active' = TRUE
    /\ wifi_sta_active' = FALSE
    /\ Become("loop", "IDLE", "NONE")
    /\ Answer("ok")
    /\ UNCHANGED <<setupVars, requested, retryVars, is_connected, ssid, loopVars>>

(* A call after the stop fails: the driver is started with what it had, or,  *)
(* if it is the start, stays off with what it was given before. The flags    *)
(* keep what the stop's events make of them.                                 *)
ConfigureFails ==
    /\ Scheduled
    /\ handler = "config"
    /\ ConfigFails
    /\ \/ StartStation(joining)
       \/ /\ joining' = IF cur_handling_state = "CONNECT" THEN StationName
                        ELSE joining
          /\ UNCHANGED <<station, ap>>
    /\ UNCHANGED <<setupVars, requested, flagVars, ssid, loopVars>>

------------------------------------------------------------------------------
(* ST_CONNECT after change_config: esp_wifi_connect and the wait for it.     *)

Connect ==
    /\ InState("retry", "CONNECT")
    /\ IF station = "on" THEN station' \in {"on", "trying"}
       ELSE UNCHANGED station
    /\ Become("waiting", "CONNECT", cur_handling_event)
    /\ UNCHANGED <<setupVars, requested, flagVars, clientVars, ssid, joining, ap,
                   loopVars>>

Connected ==
    /\ InState("done", "CONNECT")
    /\ IF cur_handling_event = "C_ANKER" THEN Answer("ok")
       ELSE UNCHANGED clientVars
    /\ attempts_reconnect' = 0
    /\ reconnect' = FALSE
    /\ Become("loop", "IDLE", "NONE")
    /\ UNCHANGED <<setupVars, requested, activeVars, is_connected, ssid,
                   driverVars, loopVars>>

TryAgain ==
    /\ InState("failed", "CONNECT")
    /\ reconnect
    /\ Become("retry", "CONNECT", cur_handling_event)
    /\ UNCHANGED <<setupVars, requested, flagVars, clientVars, ssid, driverVars,
                   loopVars>>

(* The event is reset before it is looked at, so no client is told.          *)
ConnectFails ==
    /\ InState("failed", "CONNECT")
    /\ ~reconnect
    /\ Become("loop", "IDLE", "NONE")
    /\ UNCHANGED <<setupVars, requested, flagVars, clientVars, ssid, driverVars,
                   loopVars>>

ConnectTimeout ==
    /\ InState("waiting", "CONNECT")
    /\ reconnect' = FALSE
    /\ Become("loop", "IDLE", "NONE")
    /\ UNCHANGED <<setupVars, requested, attempts_reconnect, activeVars,
                   is_connected, clientVars, ssid, driverVars, loopVars>>

HandlingTask ==
    \/ EnterTask
    \/ LeaveTask
    \/ TakeRequest
    \/ IdleTimeout
    \/ RefuseAp
    \/ StopFails
    \/ StopWifi
    \/ ConfigureStation
    \/ ConfigureAp
    \/ ConfigureFails
    \/ Connect
    \/ Connected
    \/ TryAgain
    \/ ConnectFails
    \/ ConnectTimeout

------------------------------------------------------------------------------
(* wifi_connect_to_ap and wifi_create_ap, called once the updater runs.      *)

(* A C-Anker opens its access point, again until that succeeds, and goes     *)
(* back to the default network after that only.                              *)
MayAsk(c, request) ==
    IsCAnker /\ request = "default" => want[c] = "own" /\ answer[c] = "ok"

At(c, place) == client' = [client EXCEPT ![c] = place]

Ask(c, request) ==
    /\ Scheduled
    /\ updater # "never"
    /\ client[c] = "idle"
    /\ MayAsk(c, request)
    /\ want' = [want EXCEPT ![c] = request]
    /\ At(c, "copying")
    /\ ssid' = IF NameOf(request) \in {"", ssid} THEN NameOf(request) ELSE "torn"
    /\ UNCHANGED <<setupVars, handlerVars, requested, flagVars, answer,
                   driverVars, loopVars>>

(* The copy ends; if the first character was reset meanwhile, it stays so.   *)
Copied(c) ==
    /\ Scheduled
    /\ client[c] = "copying"
    /\ ssid' = IF ssid = "torn" THEN NameOf(want[c]) ELSE ssid
    /\ At(c, "posting")
    /\ UNCHANGED <<setupVars, handlerVars, requested, flagVars, want, answer,
                   driverVars, loopVars>>

Request(c) ==
    /\ Scheduled
    /\ client[c] = "posting"
    /\ requested' = requested \cup
                    {IF want[c] = "own" THEN "CREATE" ELSE "CONNECT"}
    /\ At(c, "waiting")
    /\ UNCHANGED <<setupVars, handlerVars, flagVars, want, answer, ssid,
                   driverVars, loopVars>>

GiveUp(c) ==
    /\ Scheduled
    /\ client[c] = "waiting"
    /\ At(c, "idle")
    /\ answer' = [answer EXCEPT ![c] = "error"]
    /\ UNCHANGED <<setupVars, handlerVars, requested, flagVars, want, ssid,
                   driverVars, loopVars>>

ClientStep(c) ==
    \/ \E request \in Requests : Ask(c, request)
    \/ Copied(c)
    \/ Request(c)
    \/ GiveUp(c)

------------------------------------------------------------------------------
(* The driver's station.                                                     *)

Associate ==
    /\ station = "trying"
    /\ joining \in Networks
    /\ station' = "associated"
    /\ UNCHANGED <<setupVars, handlerVars, requested, flagVars, clientVars, ssid,
                   joining, ap, loopVars>>

GetAddress ==
    /\ station = "associated"
    /\ Post(<<"got_ip">>)
    /\ station' = "ip"
    /\ UNCHANGED <<setupVars, handlerVars, requested, flagVars, clientVars, ssid,
                   joining, ap, loop, updater, missed>>

Disconnect(reason) ==
    /\ station \in {"trying", "associated", "ip"}
    /\ Post(<<reason>>)
    /\ station' = "on"
    /\ UNCHANGED <<setupVars, handlerVars, requested, flagVars, clientVars, ssid,
                   joining, ap, loop, updater, missed>>

Driver == Associate \/ GetAddress \/ \E r \in {Retryable, Final} : Disconnect(r)

------------------------------------------------------------------------------
(* The event loop: for each event the handler of wifi.cpp, then, once it is  *)
(* registered, that of api.cpp.                                              *)

Wake(outcome) ==
    /\ handler' = IF handler = "waiting" THEN outcome ELSE handler
    /\ UNCHANGED <<cur_handling_state, cur_handling_event>>

(* Mutant: the attempts are not counted.                                     *)
NextAttemptsUncounted(reason) ==
    IF reason = Retryable
    THEN /\ reconnect' = TRUE
         /\ UNCHANGED attempts_reconnect
    ELSE IF reason = Final
    THEN /\ reconnect' = FALSE
         /\ attempts_reconnect' = 0
    ELSE UNCHANGED retryVars

NextAttempts(reason) ==
    IF reason = Retryable
    THEN IF attempts_reconnect >= MaxAttempts
         THEN reconnect' = FALSE /\ UNCHANGED attempts_reconnect
         ELSE reconnect' = TRUE /\ attempts_reconnect' = attempts_reconnect + 1
    ELSE IF reason = Final
    THEN /\ reconnect' = FALSE
         /\ attempts_reconnect' = 0
    ELSE UNCHANGED retryVars

(* internet_connection_state_changed; stopping an updater that was started   *)
(* may block.                                                                *)
Forward(connected) ==
    IF setup # "registered"
    THEN /\ missed' = connected
         /\ UNCHANGED <<loop, updater>>
    ELSE /\ updater' = IF connected THEN "on"
                       ELSE IF updater = "on" THEN "off" ELSE updater
         /\ IF ~connected /\ updater = "on" THEN loop' \in {"free", "blocked"}
            ELSE UNCHANGED loop
         /\ missed' = FALSE

GotIp ==
    /\ Wake("done")
    /\ is_connected' = TRUE
    /\ Forward(TRUE)
    /\ UNCHANGED <<retryVars, activeVars>>

(* Mutant: a disconnection by the Anker itself is passed over.               *)
DisconnectedByOthers(reason) ==
    /\ Wake("failed")
    /\ is_connected' = (is_connected /\ reason = Leave)
    /\ NextAttempts(reason)
    /\ Forward(is_connected')
    /\ UNCHANGED activeVars

Disconnected(reason) ==
    /\ Wake("failed")
    /\ is_connected' = FALSE
    /\ NextAttempts(reason)
    /\ Forward(FALSE)
    /\ UNCHANGED activeVars

Stopped(event) ==
    /\ wifi_sta_active' = (wifi_sta_active /\ event # "sta_stop")
    /\ wifi_ap_active' = (wifi_ap_active /\ event # "ap_stop")
    /\ UNCHANGED <<handlerVars, retryVars, is_connected, loop, updater, missed>>

HandleEvent ==
    /\ loop = "free"
    /\ events # <<>>
    /\ LET event == Head(events)
       IN  IF event = "got_ip" THEN GotIp
           ELSE IF event \in Disconnects THEN Disconnected(event)
           ELSE Stopped(event)
    /\ events' = Tail(events)
    /\ UNCHANGED <<setupVars, requested, clientVars, ssid, driverVars>>

StopReturns ==
    /\ loop = "blocked"
    /\ loop' = "free"
    /\ UNCHANGED <<setupVars, handlerVars, requested, flagVars, clientVars, ssid,
                   driverVars, events, updater, missed>>

Next ==
    \/ CreateHandler
    \/ MarkActive
    \/ RegisterHandlers
    \/ HandlingTask
    \/ \E c \in Clients : ClientStep(c)
    \/ Driver
    \/ HandleEvent
    \/ StopReturns

Spec == Init /\ [][Next]_vars

------------------------------------------------------------------------------
(* Properties.                                                               *)

ControlType ==
    /\ setup \in {"begin", "created", "active", "registered"}
    /\ wifi_handler_active \in BOOLEAN
    /\ handler \in {"absent", "created", "loop", "config", "retry", "waiting",
                    "done", "failed", "leaving", "gone"}
    /\ cur_handling_state \in {"IDLE", "CONNECT", "CHANGE_TO_AP"}
    /\ cur_handling_event \in {"NONE", "DEFAULT", "C_ANKER"}
    /\ requested \subseteq {"CONNECT", "CREATE"}

FlagType ==
    /\ reconnect \in BOOLEAN
    /\ attempts_reconnect \in 0 .. MaxAttempts
    /\ wifi_sta_active \in BOOLEAN
    /\ wifi_ap_active \in BOOLEAN
    /\ is_connected \in BOOLEAN

ClientType ==
    /\ client \in [Clients -> {"idle", "copying", "posting", "waiting"}]
    /\ want \in [Clients -> Requests \cup {"default"}]
    /\ answer \in [Clients -> {"none", "ok", "error"}]

DriverType ==
    /\ station \in {"off", "on", "trying", "associated", "ip"}
    /\ joining \in (Names \ {""}) \cup Networks
    /\ ap \in {"off", "open"}

LoopType ==
    /\ events \in Seq(Events)
    /\ loop \in {"free", "blocked"}
    /\ updater \in {"never", "on", "off"}
    /\ missed \in BOOLEAN

TypeOK ==
    /\ ControlType
    /\ FlagType
    /\ ClientType
    /\ ssid \in Names
    /\ DriverType
    /\ LoopType

(* When all events are handled, the updater runs exactly if the station has  *)
(* an address, whatever the stops of the driver, the losses and a blocked    *)
(* loop made of their order (wifi.cpp:368-441, api.cpp:27-63). An address    *)
(* that came before api.cpp registered its handler, api.cpp:160, is not told *)
(* until the next event.                                                     *)
UpdaterFollowsTheLink ==
    events = <<>> /\ ~missed =>
        /\ is_connected <=> station = "ip"
        /\ updater = "on" <=> is_connected

(* With the handling task idle and all events handled, a station that has an *)
(* address is marked active, as the comment on the flag has it; the task     *)
(* gives up one that is not (wifi.cpp:66, 215-248). It does not hold: if     *)
(* updater_stop blocks the loop, the task goes on, and the event of its stop *)
(* of the driver resets the flag (356) that it set with the next start (142).*)
StationFlagIsTrue ==
    /\ handler = "loop"
    /\ cur_handling_state = "IDLE"
    /\ events = <<>>
    /\ station = "ip"
    => wifi_sta_active

(* The queue holds what is_connected does not say yet: with events of the    *)
(* link waiting the last of them is true, with none is_connected is          *)
(* (wifi.cpp:368-371, 433-435).                                              *)
IsLastLinkEvent(queue, i) ==
    /\ queue[i] \in LinkEvents
    /\ \A j \in 1 .. Len(queue) : j > i => queue[j] \notin LinkEvents

Tells(queue, connected, address) ==
    /\ (\A i \in 1 .. Len(queue) : queue[i] \notin LinkEvents)
       => (connected <=> address)
    /\ \A i \in 1 .. Len(queue) :
           IsLastLinkEvent(queue, i) => (queue[i] = "got_ip" <=> address)

QueueTellsLink == Tells(events, is_connected, station = "ip")

(* What api.cpp was told is is_connected, from its registration on           *)
(* (api.cpp:27-44, 160-162).                                                 *)
UpdaterIsTold ==
    /\ ~missed => (updater = "on" <=> is_connected)
    /\ setup # "registered" => updater = "never"

(* The driver is off between the stop and the start (wifi.cpp:113-138).      *)
StoppedToConfigure == handler = "config" => station = "off"

IInv == TypeOK /\ QueueTellsLink /\ UpdaterIsTold /\ StoppedToConfigure

(* wifi_handler_active says whether the task runs (wifi.cpp:68, 338-344).    *)
HandlerFlagIsTrue == wifi_handler_active => handler # "gone"
==============================================================================
