------------------------------ MODULE WifiProofs -----------------------------
(* For every number of clients, requests, attempts and queue length: types   *)
(* are kept, and the updater follows the link.                               *)
EXTENDS Wifi, TLAPS

(* A queue with one event more.                                              *)
LEMMA AppendedOne ==
    ASSUME NEW s \in Seq(Events), NEW e \in Events
    PROVE  /\ s \o <<e>> \in Seq(Events)
           /\ Len(s) \in Nat
           /\ Len(s \o <<e>>) = Len(s) + 1
           /\ \A i \in 1 .. Len(s) : (s \o <<e>>)[i] = s[i]
           /\ (s \o <<e>>)[Len(s) + 1] = e
  OBVIOUS

(* A queue that grows by an event of the link tells that event.              *)
LEMMA TellsNew ==
    ASSUME NEW s \in Seq(Events), NEW e \in LinkEvents, NEW connected,
           NEW address, e = "got_ip" <=> address
    PROVE  s \o <<e>> \in Seq(Events) /\ Tells(s \o <<e>>, connected, address)
  <1> DEFINE q == s \o <<e>>
             n == Len(s) + 1
  <1>1. e \in Events
    BY DEF Events
  <1>2. q \in Seq(Events) /\ n \in Nat \ {0} /\ Len(q) = n /\ q[n] = e
    BY <1>1, AppendedOne
  <1> HIDE DEF q, n
  <1>3. n \in 1 .. Len(q) /\ q[n] \in LinkEvents
    BY <1>2
  <1>4. \A i \in 1 .. Len(q) : IsLastLinkEvent(q, i) => i = n
    BY <1>2, <1>3 DEF IsLastLinkEvent
  <1>5. Tells(q, connected, address)
    BY <1>2, <1>3, <1>4 DEF Tells
  <1> QED
    BY <1>2, <1>5 DEF q

(* Another event adds nothing.                                               *)
LEMMA TellsAsBefore ==
    ASSUME NEW s \in Seq(Events), NEW e \in Events \ LinkEvents, NEW connected,
           NEW address, Tells(s, connected, address)
    PROVE  s \o <<e>> \in Seq(Events) /\ Tells(s \o <<e>>, connected, address)
  <1> DEFINE q == s \o <<e>>
  <1>1. /\ q \in Seq(Events)
        /\ Len(s) \in Nat
        /\ Len(q) = Len(s) + 1
        /\ \A i \in 1 .. Len(s) : q[i] = s[i]
        /\ q[Len(s) + 1] = e
    BY AppendedOne
  <1> HIDE DEF q
  <1>2. ASSUME \A i \in 1 .. Len(q) : q[i] \notin LinkEvents
        PROVE  \A i \in 1 .. Len(s) : s[i] \notin LinkEvents
    BY <1>1, <1>2
  <1>3. ASSUME NEW i \in 1 .. Len(q), IsLastLinkEvent(q, i)
        PROVE  i \in 1 .. Len(s) /\ IsLastLinkEvent(s, i) /\ q[i] = s[i]
    <2>1. i \in 1 .. Len(s)
      BY <1>1, <1>3 DEF IsLastLinkEvent
    <2> QED
      BY <1>1, <1>3, <2>1 DEF IsLastLinkEvent
  <1>4. Tells(q, connected, address)
    BY <1>2, <1>3 DEF Tells
  <1> QED
    BY <1>1, <1>4 DEF q

(* The first event is handled.                                               *)
LEMMA TellsTheRest ==
    ASSUME NEW s \in Seq(Events), s # <<>>, NEW connected, NEW later, NEW address,
           Tells(s, connected, address),
           Head(s) \in LinkEvents => (later <=> Head(s) = "got_ip"),
           Head(s) \notin LinkEvents => (later <=> connected)
    PROVE  Tail(s) \in Seq(Events) /\ Tells(Tail(s), later, address)
  <1> DEFINE q == Tail(s)
  <1>1. /\ q \in Seq(Events)
        /\ Len(s) \in Nat \ {0}
        /\ Len(q) = Len(s) - 1
        /\ \A i \in 1 .. Len(q) : q[i] = s[i + 1]
        /\ Head(s) = s[1]
    OBVIOUS
  <1> HIDE DEF q
  <1>2. ASSUME NEW j \in 1 .. Len(s), j > 1
        PROVE  j - 1 \in 1 .. Len(q) /\ s[j] = q[j - 1]
    BY <1>1, <1>2
  <1>3. ASSUME \A i \in 1 .. Len(q) : q[i] \notin LinkEvents
        PROVE  later <=> address
    <2>1. \A j \in 1 .. Len(s) : j > 1 => s[j] \notin LinkEvents
      BY <1>2, <1>3
    <2>2. CASE s[1] \in LinkEvents
      <3>1. 1 \in 1 .. Len(s) /\ IsLastLinkEvent(s, 1)
        BY <1>1, <2>1, <2>2 DEF IsLastLinkEvent
      <3>2. s[1] = "got_ip" <=> address
        BY <3>1 DEF Tells
      <3> QED
        BY <1>1, <2>2, <3>2
    <2>3. CASE s[1] \notin LinkEvents
      <3>1. \A j \in 1 .. Len(s) : s[j] \notin LinkEvents
        BY <1>1, <2>1, <2>3
      <3>2. connected <=> address
        BY <3>1 DEF Tells
      <3> QED
        BY <1>1, <2>3, <3>2
    <2> QED
      BY <2>2, <2>3
  <1>4. ASSUME NEW i \in 1 .. Len(q), IsLastLinkEvent(q, i)
        PROVE  q[i] = "got_ip" <=> address
    <2>1. i + 1 \in 1 .. Len(s) /\ s[i + 1] = q[i]
      BY <1>1
    <2>2. \A j \in 1 .. Len(s) : j > i + 1 => s[j] \notin LinkEvents
      <3> SUFFICES ASSUME NEW j \in 1 .. Len(s), j > i + 1
                   PROVE  s[j] \notin LinkEvents
        OBVIOUS
      <3>1. j > 1 /\ j - 1 > i
        BY <1>1
      <3>2. j - 1 \in 1 .. Len(q) /\ s[j] = q[j - 1]
        BY <1>2, <3>1
      <3> QED
        BY <1>4, <3>1, <3>2 DEF IsLastLinkEvent
    <2>3. IsLastLinkEvent(s, i + 1)
      BY <1>4, <2>1, <2>2 DEF IsLastLinkEvent
    <2> QED
      BY <2>1, <2>3 DEF Tells
  <1>5. Tells(q, later, address)
    BY <1>3, <1>4 DEF Tells
  <1> QED
    BY <1>1, <1>5 DEF q

(* Nor does the event of an interface that may have been off.                *)
LEMMA TellsPerhaps ==
    ASSUME NEW s \in Seq(Events), NEW e \in Events \ LinkEvents, NEW connected,
           NEW address, Tells(s, connected, address), NEW b,
           b = <<e>> \/ b = <<>>
    PROVE  s \o b \in Seq(Events) /\ Tells(s \o b, connected, address)
  <1>1. CASE b = <<e>>
    <2>1. s \o <<e>> \in Seq(Events) /\ Tells(s \o <<e>>, connected, address)
      BY TellsAsBefore
    <2> QED
      BY <1>1, <2>1
  <1>2. CASE b = <<>>
    <2>1. s \o b = s
      BY <1>2
    <2> QED
      BY <2>1
  <1> QED
    BY <1>1, <1>2

(* A station that leaves says so before the events of the stop; one that     *)
(* does not had no address.                                                  *)
LEMMA TellsTheStop ==
    ASSUME NEW s \in Seq(Events), NEW connected, NEW address,
           Tells(s, connected, address), NEW a, NEW b, NEW c,
           a = <<Leave>> \/ (a = <<>> /\ ~address),
           b = <<"sta_stop">> \/ b = <<>>,
           c = <<"ap_stop">> \/ c = <<>>
    PROVE  /\ s \o ((a \o b) \o c) \in Seq(Events)
           /\ Tells(s \o ((a \o b) \o c), connected, FALSE)
  <1> DEFINE told(q) == q \in Seq(Events) /\ Tells(q, connected, FALSE)
  <1>1. /\ Leave \in LinkEvents /\ Leave # "got_ip"
        /\ Leave \in Events
        /\ "sta_stop" \in Events \ LinkEvents
        /\ "ap_stop" \in Events \ LinkEvents
    BY DEF Events, LinkEvents, Disconnects, Leave, Retryable, Final
  <1>2. told(s \o a)
    <2>1. CASE a = <<Leave>>
      <3>1. told(s \o <<Leave>>)
        BY <1>1, TellsNew
      <3> QED
        BY <2>1, <3>1
    <2>2. CASE a = <<>> /\ ~address
      <3>1. Tells(s, connected, FALSE)
        BY <2>2 DEF Tells
      <3>2. s \o a = s
        BY <2>2
      <3> QED
        BY <3>1, <3>2
    <2> QED
      BY <2>1, <2>2
  <1>3. told((s \o a) \o b)
    BY <1>1, <1>2, TellsPerhaps
  <1>4. told(((s \o a) \o b) \o c)
    BY <1>1, <1>3, TellsPerhaps
  <1>5. a \in Seq(Events) /\ b \in Seq(Events) /\ c \in Seq(Events)
    <2>1. /\ <<>> \in Seq(Events)
          /\ \A e \in Events : <<e>> \in Seq(Events)
      OBVIOUS
    <2> QED
      BY <1>1, <2>1
  <1>6. s \o ((a \o b) \o c) = ((s \o a) \o b) \o c
    BY <1>5
  <1> QED
    BY <1>4, <1>6

(* The stop of the driver leaves a queue that tells of it.                   *)
LEMMA StopKeepsQueue ==
    ASSUME TypeOK, QueueTellsLink, StopDriver, UNCHANGED is_connected
    PROVE  events' \in Seq(Events) /\ QueueTellsLink'
  <1>1. PICK leaves \in BOOLEAN :
          /\ station \in {"associated", "ip"} => leaves
          /\ Post(StopEvents(leaves))
          /\ station' = "off"
    BY DEF StopDriver
  <1>2. events \in Seq(Events)
    BY DEF TypeOK, LoopType
  <1>3. PICK a, b, c :
          /\ a = IF leaves THEN <<Leave>> ELSE <<>>
          /\ b = IF station # "off" THEN <<"sta_stop">> ELSE <<>>
          /\ c = IF ap # "off" THEN <<"ap_stop">> ELSE <<>>
    OBVIOUS
  <1>4. events' = events \o ((a \o b) \o c)
    BY <1>1, <1>3 DEF Post, StopEvents
  <1>5. /\ a = <<Leave>> \/ (a = <<>> /\ station # "ip")
        /\ b = <<"sta_stop">> \/ b = <<>>
        /\ c = <<"ap_stop">> \/ c = <<>>
    BY <1>1, <1>3
  <1>6. Tells(events, is_connected, station = "ip")
    BY DEF QueueTellsLink
  <1>7. /\ events \o ((a \o b) \o c) \in Seq(Events)
        /\ Tells(events \o ((a \o b) \o c), is_connected, FALSE)
    BY <1>2, <1>5, <1>6, TellsTheStop
  <1>8. Tells(events', is_connected', station' = "ip")
    BY <1>1, <1>4, <1>7 DEF Tells
  <1> QED
    BY <1>4, <1>7, <1>8 DEF QueueTellsLink

------------------------------------------------------------------------------
(* A step that changes neither what the link is nor what is said of it.      *)
Quiet ==
    /\ UNCHANGED <<events, is_connected, updater, missed>>
    /\ station' = "ip" <=> station = "ip"
    /\ setup = "registered" => setup' = "registered"
    /\ handler' = "config" => station' = "off"

(* A step that touches neither the queue nor what its events say keeps the   *)
(* invariant, if it keeps the types.                                         *)
LEMMA QuietStep == ASSUME IInv, TypeOK', Quiet PROVE IInv'
  <1>1. QueueTellsLink'
    BY DEF IInv, Quiet, QueueTellsLink, Tells, IsLastLinkEvent
  <1>2. UpdaterIsTold' /\ StoppedToConfigure'
    BY DEF IInv, Quiet, UpdaterIsTold, StoppedToConfigure
  <1> QED
    BY <1>1, <1>2 DEF IInv

(* The types of what an action leaves alone are kept.                        *)
LEMMA KeptTypes ==
    ASSUME TypeOK
    PROVE  /\ UNCHANGED <<setupVars, handlerVars, requested>> => ControlType'
           /\ UNCHANGED flagVars => FlagType'
           /\ UNCHANGED clientVars => ClientType'
           /\ UNCHANGED driverVars => DriverType'
           /\ UNCHANGED loopVars => LoopType'
           /\ UNCHANGED ssid => ssid' \in Names
  <1> USE DEF TypeOK
  <1>1. UNCHANGED <<setupVars, handlerVars, requested>> => ControlType'
    BY DEF ControlType, setupVars, handlerVars
  <1>2. UNCHANGED flagVars => FlagType'
    BY DEF FlagType, flagVars
  <1>3. UNCHANGED clientVars => ClientType'
    BY DEF ClientType, clientVars
  <1>4. UNCHANGED driverVars => DriverType'
    BY DEF DriverType, driverVars
  <1>5. UNCHANGED loopVars => LoopType'
    BY DEF LoopType, loopVars
  <1> QED
    BY <1>1, <1>2, <1>3, <1>4, <1>5

(* An answer goes to those that wait for one (467-475).                      *)
LEMMA AnswerType ==
    ASSUME ClientType, NEW result \in {"ok", "error"}, Answer(result)
    PROVE  ClientType'
  BY DEF ClientType, Answer, Waiting

(* The invariant holds before setup.                                         *)
LEMMA InitInv == Init => IInv
  <1> SUFFICES ASSUME Init
               PROVE  IInv
    OBVIOUS
  <1>1. ControlType
    BY DEF Init, ControlType
  <1>2. FlagType
    <2>1. attempts_reconnect = 0
      BY DEF Init
    <2>2. attempts_reconnect \in 0 .. MaxAttempts
      BY <2>1, WifiAssumption
    <2> QED
      BY <2>2 DEF Init, FlagType
  <1>3. ClientType
    BY DEF Init, ClientType
  <1>4. DriverType /\ ssid \in Names
    BY DEF Init, DriverType, Names, Networks
  <1>5. events = <<>> /\ is_connected = FALSE /\ station = "off"
    BY DEF Init
  <1>6. LoopType
    <2>1. events \in Seq(Events)
      BY <1>5
    <2> QED
      BY <2>1 DEF Init, LoopType
  <1>7. QueueTellsLink
    BY <1>5 DEF QueueTellsLink, Tells
  <1>8. UpdaterIsTold /\ StoppedToConfigure
    BY DEF Init, UpdaterIsTold, StoppedToConfigure
  <1> QED
    BY <1>1, <1>2, <1>3, <1>4, <1>6, <1>7, <1>8 DEF IInv, TypeOK

------------------------------------------------------------------------------
(* Setup, the handling task in ST_IDLE, and a connection that fails: only    *)
(* where the task is and what it remembers of the attempt change.            *)
LEMMA TaskInv ==
    ASSUME IInv,
           \/ CreateHandler \/ MarkActive \/ RegisterHandlers
           \/ EnterTask \/ LeaveTask \/ TakeRequest \/ IdleTimeout
           \/ TryAgain \/ ConnectFails \/ ConnectTimeout
    PROVE  IInv'
  <1> USE DEF setupVars, handlerVars, flagVars, activeVars, Become
  <1>1. UNCHANGED <<clientVars, ssid, driverVars, loopVars, is_connected>>
    BY DEF CreateHandler, MarkActive, RegisterHandlers, EnterTask, LeaveTask,
      TakeRequest, IdleTimeout, TryAgain, ConnectFails, ConnectTimeout
  <1>2. FlagType'
    <2>1. reconnect' \in {reconnect, FALSE}
          /\ UNCHANGED <<attempts_reconnect, activeVars, is_connected>>
      BY DEF CreateHandler, MarkActive, RegisterHandlers, EnterTask, LeaveTask,
        TakeRequest, IdleTimeout, TryAgain, ConnectFails, ConnectTimeout
    <2> QED
      BY <2>1 DEF IInv, TypeOK, FlagType
  <1>3. ControlType'
    <2>1. CASE CreateHandler \/ MarkActive \/ RegisterHandlers
      BY <2>1 DEF CreateHandler, MarkActive, RegisterHandlers, IInv, TypeOK,
        ControlType
    <2>2. CASE EnterTask \/ LeaveTask
      BY <2>2 DEF EnterTask, LeaveTask, IInv, TypeOK, ControlType
    <2>3. CASE TakeRequest \/ IdleTimeout
      BY <2>3 DEF TakeRequest, IdleTimeout, IInv, TypeOK, ControlType
    <2>4. CASE TryAgain \/ ConnectFails \/ ConnectTimeout
      BY <2>4 DEF TryAgain, ConnectFails, ConnectTimeout, IInv, TypeOK,
        ControlType
    <2> QED
      BY <2>1, <2>2, <2>3, <2>4
  <1>4. TypeOK'
    BY <1>1, <1>2, <1>3, KeptTypes DEF IInv, TypeOK
  <1>5. setup = "registered" => setup' = "registered"
    BY DEF CreateHandler, MarkActive, RegisterHandlers, EnterTask, LeaveTask,
      TakeRequest, IdleTimeout, TryAgain, ConnectFails, ConnectTimeout
  <1>6. handler' = "config" => handler = "config"
    BY DEF CreateHandler, MarkActive, RegisterHandlers, EnterTask, LeaveTask,
      TakeRequest, IdleTimeout, TryAgain, ConnectFails, ConnectTimeout
  <1>7. Quiet
    BY <1>1, <1>5, <1>6 DEF Quiet, driverVars, loopVars, IInv, StoppedToConfigure
  <1> QED
    BY <1>4, <1>7, QuietStep

------------------------------------------------------------------------------
(* change_config.                                                            *)

(* A configuration that fails sends the task on and tells who waits.         *)
LEMMA ConfigFailsType ==
    ASSUME TypeOK, ConfigFails
    PROVE  /\ handler' = "loop"
           /\ cur_handling_state' \in {"IDLE", "CONNECT"}
           /\ cur_handling_event' \in {"NONE", "DEFAULT"}
           /\ ClientType'
  <1> USE DEF ConfigFails, ConnectConfigFails, ApConfigFails, Become
  <1>1. CASE Answer("error")
    BY <1>1, AnswerType DEF TypeOK
  <1>2. CASE UNCHANGED clientVars
    BY <1>2, KeptTypes
  <1> QED
    BY <1>1, <1>2

(* A configuration that is refused, or cannot stop the driver, leaves the    *)
(* driver as it was (109-153).                                               *)
LEMMA RefusedInv ==
    ASSUME IInv, RefuseAp \/ StopFails
    PROVE  IInv'
  <1>1. /\ ConfigFails
        /\ UNCHANGED <<setupVars, requested, flagVars, ssid, driverVars, loopVars>>
    BY DEF RefuseAp, StopFails, InState, ConfigFails
  <1>2. handler' = "loop" /\ ControlType' /\ ClientType'
    BY <1>1, ConfigFailsType DEF IInv, TypeOK, ControlType, setupVars
  <1>3. TypeOK'
    BY <1>1, <1>2, KeptTypes DEF IInv, TypeOK
  <1>4. Quiet
    BY <1>1, <1>2 DEF Quiet, setupVars, flagVars, driverVars, loopVars
  <1> QED
    BY <1>3, <1>4, QuietStep

(* The start of the driver.                                                  *)
LEMMA ConfiguredInv ==
    ASSUME IInv, ConfigureStation \/ ConfigureAp
    PROVE  IInv'
  <1> USE DEF Become, StartStation
  <1>1. /\ UNCHANGED <<setupVars, requested, retryVars, is_connected, ssid,
                       loopVars>>
        /\ handler' # "config"
        /\ station = "off" /\ station' = "on"
    BY DEF ConfigureStation, ConfigureAp, InState, IInv, StoppedToConfigure
  <1>2. ControlType'
    BY <1>1 DEF ConfigureStation, ConfigureAp, IInv, TypeOK, ControlType, setupVars
  <1>3. FlagType'
    BY <1>1 DEF ConfigureStation, ConfigureAp, IInv, TypeOK, FlagType, retryVars
  <1>4. ClientType'
    <2>1. CASE ConfigureStation
      BY <2>1, KeptTypes DEF ConfigureStation, IInv
    <2>2. CASE ConfigureAp
      BY <2>2, AnswerType DEF ConfigureAp, IInv, TypeOK
    <2> QED
      BY <2>1, <2>2
  <1>5. DriverType'
    <2>1. StationName \in (Names \ {""}) \cup Networks
      BY DEF IInv, TypeOK, StationName, Names, Networks
    <2> QED
      BY <1>1, <2>1 DEF ConfigureStation, ConfigureAp, IInv, TypeOK, DriverType
  <1>6. TypeOK'
    BY <1>1, <1>2, <1>3, <1>4, <1>5, KeptTypes DEF IInv, TypeOK
  <1>7. Quiet
    BY <1>1 DEF Quiet, setupVars, loopVars
  <1> QED
    BY <1>6, <1>7, QuietStep

(* A configuration that fails after the stop leaves the driver off or the    *)
(* access point without its station (128-174).                               *)
LEMMA ConfigureFailsInv ==
    ASSUME IInv, ConfigureFails
    PROVE  IInv'
  <1>1. /\ ConfigFails
        /\ UNCHANGED <<setupVars, requested, flagVars, ssid, loopVars>>
        /\ station = "off"
    BY DEF ConfigureFails, IInv, StoppedToConfigure
  <1>2. /\ station' \in {"off", "on"}
        /\ ap' \in {ap, "open", "off"}
        /\ joining' \in {joining, StationName}
    BY <1>1 DEF ConfigureFails, StartStation
  <1>3. handler' = "loop" /\ ControlType' /\ ClientType'
    BY <1>1, ConfigFailsType DEF IInv, TypeOK, ControlType, setupVars
  <1>4. DriverType'
    <2>1. StationName \in (Names \ {""}) \cup Networks
      BY DEF IInv, TypeOK, StationName, Names, Networks
    <2> QED
      BY <1>2, <2>1 DEF IInv, TypeOK, DriverType
  <1>5. TypeOK'
    BY <1>1, <1>3, <1>4, KeptTypes DEF IInv, TypeOK
  <1>6. Quiet
    BY <1>1, <1>2, <1>3 DEF Quiet, setupVars, flagVars, loopVars
  <1> QED
    BY <1>5, <1>6, QuietStep

(* The driver stops, and posts its events (113-124).                         *)
LEMMA StopInv ==
    ASSUME IInv, StopWifi
    PROVE  IInv'
  <1>1. events' \in Seq(Events) /\ QueueTellsLink'
    BY StopKeepsQueue DEF StopWifi, flagVars, IInv
  <1>2. /\ station' = "off" /\ ap' = "off"
        /\ UNCHANGED <<joining, setupVars, requested, flagVars, clientVars, ssid,
                       loop, updater, missed, cur_handling_state,
                       cur_handling_event>>
        /\ handler' = "config"
    BY DEF StopWifi, StopDriver, Become
  <1>3. ControlType' /\ DriverType' /\ LoopType'
    BY <1>1, <1>2 DEF IInv, TypeOK, ControlType, DriverType, LoopType, setupVars
  <1>4. TypeOK'
    BY <1>2, <1>3, KeptTypes DEF IInv, TypeOK
  <1>5. UpdaterIsTold' /\ StoppedToConfigure'
    BY <1>2 DEF IInv, UpdaterIsTold, StoppedToConfigure, setupVars, flagVars
  <1> QED
    BY <1>1, <1>4, <1>5 DEF IInv

------------------------------------------------------------------------------
(* The connection, the clients and the driver.                               *)
LEMMA ConnectInv ==
    ASSUME IInv, Connect \/ Connected
    PROVE  IInv'
  <1> USE DEF Become
  <1>1. /\ UNCHANGED <<setupVars, requested, activeVars, is_connected, ssid,
                       joining, ap, loopVars>>
        /\ handler' \in {"waiting", "loop"}
        /\ cur_handling_state' \in {"IDLE", "CONNECT"}
        /\ cur_handling_event' \in {"NONE", cur_handling_event}
    BY DEF Connect, Connected, driverVars, flagVars, activeVars
  <1>2. ControlType'
    BY <1>1 DEF IInv, TypeOK, ControlType, setupVars
  <1>3. FlagType'
    <2>1. CASE Connect
      BY <2>1, KeptTypes DEF Connect, IInv
    <2>2. CASE Connected
      <3>1. attempts_reconnect' = 0 /\ reconnect' = FALSE
        BY <2>2 DEF Connected
      <3>2. attempts_reconnect' \in 0 .. MaxAttempts
        BY <3>1, WifiAssumption
      <3> QED
        BY <1>1, <3>1, <3>2 DEF IInv, TypeOK, FlagType, activeVars
    <2> QED
      BY <2>1, <2>2
  <1>4. ClientType'
    <2>1. CASE Answer("ok")
      BY <2>1, AnswerType DEF IInv, TypeOK
    <2>2. CASE UNCHANGED clientVars
      BY <2>2, KeptTypes DEF IInv
    <2> QED
      BY <2>1, <2>2 DEF Connect, Connected
  <1>5. /\ station' \in {station, "on", "trying"}
        /\ station' # station => station = "on"
    BY DEF Connect, Connected, driverVars
  <1>6. DriverType'
    BY <1>1, <1>5 DEF IInv, TypeOK, DriverType
  <1>7. TypeOK'
    BY <1>1, <1>2, <1>3, <1>4, <1>6, KeptTypes DEF IInv, TypeOK
  <1>8. Quiet
    BY <1>1, <1>5 DEF Quiet, setupVars, loopVars
  <1> QED
    BY <1>7, <1>8, QuietStep

(* Requests touch only what clients and the handling task share (449-495).   *)
LEMMA ClientInv ==
    ASSUME IInv, NEW c \in Clients, ClientStep(c)
    PROVE  IInv'
  <1> USE DEF ClientStep, At
  <1>1. UNCHANGED <<setupVars, handlerVars, flagVars, driverVars, loopVars>>
    BY DEF Ask, Copied, Request, GiveUp
  <1>2. ControlType'
    BY <1>1 DEF Ask, Copied, Request, GiveUp, IInv, TypeOK, ControlType, setupVars,
      handlerVars
  <1>3. ClientType'
    BY DEF Ask, Copied, Request, GiveUp, IInv, TypeOK, ClientType
  <1>4. ssid' \in Names
    <2>1. \A r \in Requests \cup {"default"} : NameOf(r) \in Names
      BY WifiAssumption DEF NameOf, Names
    <2>2. want[c] \in Requests \cup {"default"}
      BY DEF IInv, TypeOK, ClientType
    <2> QED
      BY <2>1, <2>2 DEF Ask, Copied, Request, GiveUp, IInv, TypeOK, Names
  <1>5. TypeOK'
    BY <1>1, <1>2, <1>3, <1>4, KeptTypes DEF IInv, TypeOK
  <1>6. Quiet
    BY <1>1 DEF Quiet, setupVars, handlerVars, flagVars, driverVars, loopVars,
      IInv, StoppedToConfigure
  <1> QED
    BY <1>5, <1>6, QuietStep

(* The driver associates, gets an address or loses its network, and posts    *)
(* what happened.                                                            *)
LEMMA DriverInv ==
    ASSUME IInv, Driver
    PROVE  IInv'
  <1>1. CASE Associate
    <2>1. DriverType'
      BY <1>1 DEF Associate, IInv, TypeOK, DriverType
    <2>2. TypeOK'
      BY <1>1, <2>1, KeptTypes DEF Associate, IInv, TypeOK
    <2>3. Quiet
      BY <1>1 DEF Associate, Quiet, setupVars, handlerVars, flagVars, loopVars,
        IInv, StoppedToConfigure
    <2> QED
      BY <2>2, <2>3, QuietStep
  <1>2. ASSUME NEW e \in LinkEvents,
               Post(<<e>>),
               e = "got_ip" <=> station' = "ip",
               station # "off", DriverType',
               UNCHANGED <<setupVars, handlerVars, requested, flagVars,
                           clientVars, ssid, loop, updater, missed>>
        PROVE  IInv'
    <2>1. events \in Seq(Events) /\ events' = events \o <<e>>
      BY <1>2 DEF IInv, TypeOK, LoopType, Post
    <2>2. events' \in Seq(Events) /\ Tells(events', is_connected, station' = "ip")
      BY <1>2, <2>1, TellsNew
    <2>3. LoopType'
      BY <1>2, <2>2 DEF IInv, TypeOK, LoopType
    <2>4. TypeOK'
      BY <1>2, <2>3, KeptTypes DEF IInv, TypeOK
    <2>5. QueueTellsLink'
      BY <1>2, <2>2 DEF QueueTellsLink, flagVars
    <2>6. UpdaterIsTold' /\ StoppedToConfigure'
      BY <1>2 DEF IInv, UpdaterIsTold, StoppedToConfigure, setupVars, flagVars,
        handlerVars
    <2> QED
      BY <2>4, <2>5, <2>6 DEF IInv
  <1> USE DEF LinkEvents, Disconnects, Retryable, Final, Leave
  <1>3. CASE GetAddress
    <2>1. DriverType' /\ station' = "ip"
      BY <1>3 DEF GetAddress, IInv, TypeOK, DriverType
    <2> QED
      BY <1>2, <1>3, <2>1 DEF GetAddress
  <1>4. ASSUME NEW r \in {Retryable, Final}, Disconnect(r)
        PROVE  IInv'
    <2>1. DriverType' /\ station' = "on"
      BY <1>4 DEF Disconnect, IInv, TypeOK, DriverType
    <2> QED
      BY <1>2, <1>4, <2>1 DEF Disconnect
  <1> QED
    BY <1>1, <1>3, <1>4 DEF Driver

------------------------------------------------------------------------------
(* The event loop.                                                           *)
LEMMA HandleInv ==
    ASSUME IInv, HandleEvent
    PROVE  IInv'
  <1> DEFINE e == Head(events)
  <1>1. events \in Seq(Events) /\ events # <<>> /\ e \in Events
    BY DEF HandleEvent, IInv, TypeOK, LoopType
  <1>2. /\ events' = Tail(events)
        /\ UNCHANGED <<setupVars, requested, clientVars, ssid, driverVars>>
    BY DEF HandleEvent
  <1>3. \/ e = "got_ip" /\ GotIp
        \/ e \in Disconnects /\ Disconnected(e)
        \/ e \in {"sta_stop", "ap_stop"} /\ Stopped(e)
    BY <1>1 DEF HandleEvent, Events, LinkEvents
  <1>4. /\ "got_ip" \notin Disconnects
        /\ "sta_stop" \notin LinkEvents
        /\ "ap_stop" \notin LinkEvents
    BY DEF LinkEvents, Disconnects, Retryable, Final, Leave
  <1>5. /\ e \in LinkEvents => (is_connected' <=> e = "got_ip")
        /\ e \notin LinkEvents => (is_connected' <=> is_connected)
    <2>1. CASE e = "got_ip" /\ GotIp
      BY <2>1 DEF GotIp, LinkEvents
    <2>2. CASE e \in Disconnects /\ Disconnected(e)
      BY <1>4, <2>2 DEF Disconnected, LinkEvents
    <2>3. CASE e \in {"sta_stop", "ap_stop"} /\ Stopped(e)
      BY <1>4, <2>3 DEF Stopped
    <2> QED
      BY <1>3, <2>1, <2>2, <2>3
  <1>6. events' \in Seq(Events) /\ QueueTellsLink'
    <2>1. station' = station
      BY <1>2 DEF driverVars
    <2>2. Tells(events, is_connected, station = "ip")
      BY DEF IInv, QueueTellsLink
    <2>3. /\ Tail(events) \in Seq(Events)
          /\ Tells(Tail(events), is_connected', station = "ip")
      BY <1>1, <1>5, <2>2, TellsTheRest
    <2> QED
      BY <1>2, <2>1, <2>3 DEF QueueTellsLink
  <1>7. LoopType'
    BY <1>3, <1>6 DEF GotIp, Disconnected, Stopped, Forward, IInv, TypeOK, LoopType
  <1>8. /\ handler' \in {handler, "done", "failed"}
        /\ UNCHANGED <<cur_handling_state, cur_handling_event>>
    BY <1>3 DEF GotIp, Disconnected, Stopped, Wake, handlerVars
  <1>9. FlagType'
    <2>1. wifi_sta_active' \in BOOLEAN /\ wifi_ap_active' \in BOOLEAN
      BY <1>3 DEF GotIp, Disconnected, Stopped, activeVars, IInv, TypeOK, FlagType
    <2>2. is_connected' \in BOOLEAN
      BY <1>3 DEF GotIp, Disconnected, Stopped, IInv, TypeOK, FlagType
    <2>3. reconnect' \in BOOLEAN
      BY <1>3 DEF GotIp, Disconnected, Stopped, NextAttempts, retryVars, IInv,
        TypeOK, FlagType
    <2>4. \/ attempts_reconnect' = attempts_reconnect
          \/ attempts_reconnect' = 0
          \/ /\ ~(attempts_reconnect >= MaxAttempts)
             /\ attempts_reconnect' = attempts_reconnect + 1
      BY <1>3 DEF GotIp, Disconnected, Stopped, NextAttempts, retryVars
    <2>5. attempts_reconnect' \in 0 .. MaxAttempts
      <3>1. attempts_reconnect \in 0 .. MaxAttempts
        BY DEF IInv, TypeOK, FlagType
      <3> QED
        BY <2>4, <3>1, WifiAssumption
    <2> QED
      BY <2>1, <2>2, <2>3, <2>5 DEF FlagType
  <1>10. ControlType' /\ StoppedToConfigure'
    BY <1>2, <1>8 DEF IInv, TypeOK, ControlType, StoppedToConfigure, setupVars,
      driverVars
  <1>11. TypeOK'
    BY <1>2, <1>7, <1>9, <1>10, KeptTypes DEF IInv, TypeOK
  <1>12. UpdaterIsTold'
    <2>1. setup' = setup
      BY <1>2 DEF setupVars
    <2>2. CASE GotIp
      BY <2>1, <2>2 DEF GotIp, Forward, IInv, UpdaterIsTold
    <2>3. CASE \E r \in Disconnects : Disconnected(r)
      BY <2>1, <2>3 DEF Disconnected, Forward, IInv, UpdaterIsTold
    <2>4. CASE \E event \in {"sta_stop", "ap_stop"} : Stopped(event)
      BY <2>1, <2>4 DEF Stopped, IInv, UpdaterIsTold
    <2> QED
      BY <1>3, <2>2, <2>3, <2>4
  <1> QED
    BY <1>6, <1>10, <1>11, <1>12 DEF IInv

(* updater_stop returns (api.cpp:36-42).                                     *)
LEMMA ReturnInv ==
    ASSUME IInv, StopReturns
    PROVE  IInv'
  <1>1. LoopType' /\ Quiet
    BY DEF StopReturns, Quiet, IInv, TypeOK, LoopType, StoppedToConfigure,
      setupVars, handlerVars, flagVars, driverVars
  <1>2. TypeOK'
    BY <1>1, KeptTypes DEF StopReturns, IInv, TypeOK
  <1> QED
    BY <1>1, <1>2, QuietStep

(* Nothing happens.                                                          *)
LEMMA StutterInv ==
    ASSUME IInv, UNCHANGED vars
    PROVE  IInv'
  <1>1. TypeOK'
    BY KeptTypes DEF vars, IInv, TypeOK
  <1>2. Quiet
    BY DEF vars, Quiet, setupVars, handlerVars, flagVars, driverVars, loopVars,
      IInv, StoppedToConfigure
  <1> QED
    BY <1>1, <1>2, QuietStep

------------------------------------------------------------------------------
(* What a step leaves true: the types, the queue that tells what             *)
(* is_connected does not say yet, what api.cpp was told, and the stopped     *)
(* driver between its stop and its start.                                    *)
THEOREM Invariance == Spec => []IInv
  <1>1. IInv /\ [Next]_vars => IInv'
    <2> SUFFICES ASSUME IInv, [Next]_vars
                 PROVE  IInv'
      OBVIOUS
    <2>1. ASSUME HandlingTask
          PROVE  IInv'
      BY <2>1, TaskInv, RefusedInv, StopInv, ConfiguredInv, ConfigureFailsInv,
        ConnectInv DEF HandlingTask
    <2>2. ASSUME CreateHandler \/ MarkActive \/ RegisterHandlers
          PROVE  IInv'
      BY <2>2, TaskInv
    <2> QED
      BY <2>1, <2>2, ClientInv, DriverInv, HandleInv, ReturnInv, StutterInv
      DEF Next
  <1> QED
    BY InitInv, <1>1, PTL DEF Spec

(* Each variable keeps its type, the attempts their bound (wifi.cpp:416-422).*)
THEOREM TypeCorrect == Spec => []TypeOK
  <1>1. IInv => TypeOK
    BY DEF IInv
  <1> QED
    BY Invariance, <1>1, PTL

(* When all events are handled the updater runs exactly if the station has   *)
(* an address (wifi.cpp:368-441, api.cpp:27-63, 160).                        *)
THEOREM UpdaterFollows == Spec => []UpdaterFollowsTheLink
  <1>1. IInv => UpdaterFollowsTheLink
    <2> SUFFICES ASSUME IInv, events = <<>>, ~missed
                 PROVE  /\ is_connected <=> station = "ip"
                        /\ updater = "on" <=> is_connected
      BY DEF UpdaterFollowsTheLink
    <2>1. is_connected <=> station = "ip"
      BY DEF IInv, QueueTellsLink, Tells
    <2> QED
      BY <2>1 DEF IInv, UpdaterIsTold
  <1> QED
    BY Invariance, <1>1, PTL
==============================================================================
