------------------------------- MODULE WifiLive ------------------------------
(* WiFi when only finitely much disturbs it: configurations that fail,       *)
(* losses of the default network, connections slower than the wait for them  *)
(* and requests are taken from a budget. A handler that blocks the loop in   *)
(* updater_stop is no disturbance: it may at every disconnection           *)
(* (updater.cpp:742-765), and returns. The access point of a C-Anker may     *)
(* disappear for ever.                                                       *)
(* An associated station is given an address or thrown off: without one the  *)
(* test of ST_IDLE (216) would be content with the association for ever.     *)
(* The handling task is taken to find the flag that starts it set; otherwise *)
(* it is gone (see HandlerFlagIsTrue), and nothing is promised.              *)
EXTENDS Wifi

CONSTANT MaxFaults  \* how many disturbances there may be

VARIABLE faults     \* how many there were

liveVars == <<vars, faults>>

Progressing == joining = "default" /\ station \in {"trying", "associated"}

HandlerGoes ==
    \/ wifi_handler_active /\ EnterTask
    \/ TakeRequest
    \/ IdleTimeout
    \/ RefuseAp
    \/ StopWifi
    \/ ConfigureStation
    \/ ConfigureAp
    \/ ConfigureFails /\ ssid = "" /\ cur_handling_state = "CHANGE_TO_AP"
    \/ Connect /\ station' # "on"
    \/ Connected
    \/ TryAgain
    \/ ConnectFails
    \/ ConnectTimeout /\ ~Progressing

ClientGoes(c) == Copied(c) \/ Request(c) \/ GiveUp(c)

DriverGoes == (joining = "default" /\ Associate) \/ GetAddress

AnkerComesOrGoes == joining = "anker" /\ Driver

SetupGoes == CreateHandler \/ MarkActive \/ RegisterHandlers

Disturbance ==
    \/ StopFails
    \/ ConfigureFails
    \/ Connect
    \/ ConnectTimeout
    \/ \E r \in {Retryable, Final} : Disconnect(r)
    \/ \E c \in Clients, request \in Requests : Ask(c, request)

GoesWell(step) == step /\ UNCHANGED faults

LiveInit == Init /\ faults = 0

LiveNext ==
    \/ GoesWell(SetupGoes)
    \/ GoesWell(HandlerGoes)
    \/ \E c \in Clients : GoesWell(ClientGoes(c))
    \/ GoesWell(DriverGoes)
    \/ GoesWell(AnkerComesOrGoes)
    \/ GoesWell(HandleEvent)
    \/ GoesWell(StopReturns)
    \/ Disturbance /\ faults < MaxFaults /\ faults' = faults + 1

LiveSpec ==
    /\ LiveInit
    /\ [][LiveNext]_liveVars
    /\ WF_liveVars(GoesWell(SetupGoes))
    /\ WF_liveVars(GoesWell(HandlerGoes))
    /\ \A c \in Clients : WF_liveVars(GoesWell(ClientGoes(c)))
    /\ WF_liveVars(GoesWell(DriverGoes))
    /\ WF_liveVars(GoesWell(HandleEvent))
    /\ WF_liveVars(GoesWell(StopReturns))

------------------------------------------------------------------------------
(* However requests, losses, late events, failed configurations and blocked  *)
(* loops leave it, a P-Anker always comes back to a network, the default one *)
(* if the C-Anker's is gone (wifi.cpp:213-249, 295-313). It need not stay:   *)
(* while StationFlagIsTrue is violated the task gives the station up at each *)
(* timeout of ST_IDLE, and that disconnection may block the loop again.      *)
ComesOnline == []<>(station = "ip")
==============================================================================
