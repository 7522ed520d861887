--------------------------- MODULE PAnkerPollProofs ---------------------------
(* For all numbers of tasks: a raised flag has its task, and as long as      *)
(* starts, stops and timeouts do not meet there is one task of a kind, a     *)
(* stop that returns has stopped both, and one is given up only for a task   *)
(* that is busy.                                                             *)
EXTENDS PAnkerPoll, FiniteSetTheorems, TLAPS

Places == {"none", "idle"} \cup PollPlaces \cup StopPlaces

PlacesFit ==
    /\ place \in [Tasks -> Places]
    /\ place[Loop] \in {"idle", "waiting"}
    /\ \A t \in TcpTasks : place[t] \in {"none"} \cup PollPlaces
    /\ \A c \in Connectors : place[c] \in {"none"} \cup StopPlaces

FlagTypes ==
    /\ running \in [Kinds -> BOOLEAN]
    /\ bits \subseteq Kinds
    /\ both \in [Stoppers -> BOOLEAN]
    /\ initial_done \in BOOLEAN /\ installed \in BOOLEAN /\ online \in BOOLEAN
    /\ slow \subseteq Pollers /\ lost \subseteq Kinds
    /\ gaveUp \in BOOLEAN /\ mixed \in BOOLEAN

HoldingPlaces == {"opening", "polling", "serving", "asked", "lowering"}

(* The types of places and those of the flags, apart.                        *)
LEMMA TypeParts == TypeOK <=> PlacesFit /\ FlagTypes
  BY DEF TypeOK, PlacesFit, FlagTypes, Places

(* Two members of a set of one are the same.                                 *)
LEMMA AtMostOne ==
    ASSUME NEW S, IsFiniteSet(S), Cardinality(S) <= 1, NEW x \in S, NEW y \in S
    PROVE  x = y
  <1>1. Cardinality(S) \in Nat /\ Cardinality(S) # 0
    BY FS_CardinalityType, FS_EmptySet
  <1>2. Cardinality(S) = 1
    BY <1>1
  <1> QED
    BY <1>2, FS_Singleton

(* There are finitely many tasks of a kind.                                  *)
LEMMA OfKindFinite ==
    ASSUME NEW k \in Kinds
    PROVE  IsFiniteSet(OfKind(k))
  <1>1. OfKind(k) \in SUBSET (IF k = "udp" THEN UdpTasks ELSE TcpTasks)
    BY DEF OfKind, Kind, Pollers
  <1> QED
    BY <1>1, PollAssumption, FS_Subset

(* A step of a task or of a stop that neither moves flags and bits nor lets  *)
(* a task begin or end, or a stop go on.                                     *)
LEMMA QuietStep ==
    ASSUME Undisturbed, OneStop', UNCHANGED <<running, bits, both>>,
           lost \subseteq lost',
           \A t \in Pollers : Polls(t)' <=> Polls(t),
           \A s \in Stoppers : \A p \in {"lowering", "lowered", "waiting"} :
               place'[s] = p <=> place[s] = p
    PROVE  Undisturbed'
  <1>1. OneEach'
    BY DEF Undisturbed, OneEach
  <1>0. \A s \in Stoppers : /\ Within(s)' <=> Within(s)
                            /\ place'[s] = "lowering" <=> place[s] = "lowering"
                            /\ place'[s] = "lowered" <=> place[s] = "lowered"
                            /\ place'[s] = "waiting" <=> place[s] = "waiting"
    BY DEF Within
  <1>2. StopsAreWhole'
    BY <1>0 DEF Undisturbed, StopsAreWhole, AllRunning, NoneRunning
  <1>3. BitsAreTrue'
    BY <1>0 DEF Undisturbed, BitsAreTrue, Pollers
  <1>4. FlagsAreFollowed'
    BY <1>0 DEF Undisturbed, FlagsAreFollowed, NoneRunning
  <1> QED
    BY <1>1, <1>2, <1>3, <1>4 DEF Undisturbed

(* A stop begins, ...                                                        *)
LEMMA BeginStopInv ==
    ASSUME IInv, NEW s \in Stoppers, BeginStop(s)
    PROVE  IInv'
  <1> USE PollAssumption DEF IInv, TypeOK, BeginStop, Stopped, ClearBits,
    stopVars, fileVars, historyVars
  <1>1. TypeOK'
    <2>1. PlacesFit'
      BY DEF PlacesFit, Places, StopPlaces, Pollers, Tasks, Stoppers, GoTo
    <2>2. FlagTypes'
      BY DEF FlagTypes, AllRunning
    <2> QED
      BY <2>1, <2>2 DEF PlacesFit, FlagTypes, Places
  <1>2. FlagsAreHeld'
    <2> SUFFICES ASSUME NEW k \in Kinds, running[k], k \notin lost
                 PROVE  \E t \in OfKind(k) : place'[t] \in HoldingPlaces
      BY DEF FlagsAreHeld, HoldingPlaces
    <2>1. PICK t \in OfKind(k) : place[t] \in HoldingPlaces
      BY DEF FlagsAreHeld, HoldingPlaces
    <2>2. ~NoneRunning
      BY DEF NoneRunning
    <2>3. place'[t] \in HoldingPlaces
      BY <2>1, <2>2 DEF HoldingPlaces, GoTo, OfKind, Tasks
    <2> QED
      BY <2>3
  <1>3. NothingBeforeStart'
    BY DEF NothingBeforeStart, Pollers, Tasks, Stoppers
  <1>4. BusyIsSlow'
    BY DEF BusyIsSlow, Tasks, GoTo
  <1>5. ASSUME ~mixed'
        PROVE  Undisturbed'
    <2>1. ~mixed /\ Undisturbed
      BY <1>5
    <2>2. OneEach'
      BY <2>1 DEF Undisturbed, OneEach, Polls, PollPlaces, Tasks, GoTo
    <2>3. OneStop'
      BY <2>1 DEF Undisturbed, OneStop, Stopping, Pollers, Tasks, Stoppers, GoTo
    <2>4. StopsAreWhole'
      <3>1. /\ \A u \in Stoppers \ {s} :
                  place'[u] = place[u]
                  /\ place[u] \notin {"asked", "lowering", "lowered", "waiting"}
            /\ place[s] = "asked"
        BY <2>1 DEF Undisturbed, OneStop, Stopping, Pollers, Tasks, Stoppers, GoTo
      <3>2. AllRunning \/ NoneRunning
        BY <2>1, <3>1 DEF Undisturbed, StopsAreWhole
      <3>3. CASE NoneRunning
        BY <3>1, <3>2, <3>3 DEF StopsAreWhole, AllRunning, NoneRunning, Within,
          Pollers, Tasks, Stoppers, GoTo
      <3>4. CASE ~NoneRunning
        BY <3>1, <3>2, <3>4 DEF StopsAreWhole, AllRunning, NoneRunning, Within,
          Pollers, Tasks, Stoppers, GoTo
      <3> QED
        BY <3>3, <3>4
    <2>5. BitsAreTrue'
      BY <2>1 DEF Undisturbed, BitsAreTrue, StopsAreWhole, FlagsAreHeld,
        AllRunning, Within, Polls, PollPlaces, Kind, Kinds, OfKind, Pollers,
        Tasks, Stoppers, GoTo
    <2>6. FlagsAreFollowed'
      BY <2>1 DEF Undisturbed, FlagsAreFollowed, NoneRunning, Polls, PollPlaces,
        Pollers, Tasks, Stoppers, GoTo
    <2> QED
      BY <2>2, <2>3, <2>4, <2>5, <2>6 DEF Undisturbed
  <1> QED
    BY <1>1, <1>2, <1>3, <1>4, <1>5

(* ... lowers the flag of the UDP task, ...                                  *)
LEMMA LowerUdpInv ==
    ASSUME IInv, NEW s \in Stoppers, LowerUdp(s)
    PROVE  IInv'
  <1> USE PollAssumption DEF IInv, TypeOK, LowerUdp, Kinds,
    stopVars, fileVars, historyVars
  <1>1. TypeOK'
    BY DEF PollPlaces, StopPlaces, Kinds, Pollers, Tasks, Stoppers, GoTo
  <1>2. FlagsAreHeld'
    BY DEF FlagsAreHeld, OfKind, Kind, PollPlaces, Pollers, Tasks, Stoppers, GoTo
  <1>3. NothingBeforeStart'
    BY DEF NothingBeforeStart, Pollers, Tasks, Stoppers
  <1>4. BusyIsSlow'
    BY DEF BusyIsSlow, Kind, Pollers, Tasks, GoTo
  <1>5. ASSUME ~mixed'
        PROVE  Undisturbed'
    <2>1. ~mixed /\ Undisturbed
      BY <1>5
    <2>2. OneEach'
      BY <2>1 DEF Undisturbed, OneEach, Polls, PollPlaces, Tasks, GoTo
    <2>3. OneStop'
      BY <2>1 DEF Undisturbed, OneStop, Stopping, Pollers, Tasks, Stoppers, GoTo
    <2>4. StopsAreWhole'
      <3>1. /\ \A u \in Stoppers \ {s} :
                  place'[u] = place[u]
                  /\ place[u] \notin {"asked", "lowering", "lowered", "waiting"}
            /\ place'[s] = "lowered"
        BY <2>1 DEF Undisturbed, OneStop, Stopping, Pollers, Tasks, Stoppers, GoTo
      <3>2. AllRunning /\ both[s]
        BY <2>1 DEF Undisturbed, StopsAreWhole, Within
      <3> QED
        BY <3>1, <3>2 DEF StopsAreWhole, AllRunning, Within
    <2>5. BitsAreTrue'
      BY <2>1 DEF Undisturbed, BitsAreTrue, OneStop, Within, Stopping, Polls,
        PollPlaces, Pollers, Tasks, Stoppers, GoTo
    <2>6. FlagsAreFollowed'
      <3>1. running["tcp"]
        BY <2>1 DEF Undisturbed, StopsAreWhole, AllRunning
      <3> QED
        BY <3>1 DEF FlagsAreFollowed, NoneRunning
    <2> QED
      BY <2>2, <2>3, <2>4, <2>5, <2>6 DEF Undisturbed
  <1> QED
    BY <1>1, <1>2, <1>3, <1>4, <1>5

(* ... then that of the TCP task, ...                                        *)
LEMMA LowerTcpInv ==
    ASSUME IInv, NEW s \in Stoppers, LowerTcp(s)
    PROVE  IInv'
  <1> USE PollAssumption DEF IInv, TypeOK, LowerTcp, Stopped, Kinds,
    Satisfied, stopVars, fileVars, historyVars
  <1>1. TypeOK'
    BY DEF PollPlaces, StopPlaces, Kinds, Pollers, Tasks, Stoppers, GoTo
  <1>2. FlagsAreHeld'
    BY DEF FlagsAreHeld, OfKind, Kind, PollPlaces, Pollers, Tasks, Stoppers, GoTo
  <1>3. NothingBeforeStart'
    BY DEF NothingBeforeStart, Pollers, Tasks, Stoppers
  <1>4. BusyIsSlow'
    BY DEF BusyIsSlow, Kind, Pollers, Tasks, GoTo
  <1>5. ASSUME ~mixed'
        PROVE  Undisturbed'
    <2>1. ~mixed /\ Undisturbed
      BY <1>5
    <2>2. OneEach'
      BY <2>1 DEF Undisturbed, OneEach, Polls, PollPlaces, Tasks, GoTo
    <2>3. OneStop'
      BY <2>1 DEF Undisturbed, OneStop, Stopping, Pollers, Tasks, Stoppers, GoTo
    <2>4. StopsAreWhole'
      <3>1. /\ \A u \in Stoppers \ {s} :
                  place'[u] = place[u]
                  /\ place[u] \notin {"asked", "lowering", "lowered", "waiting"}
            /\ place'[s] \notin {"lowering", "lowered"}
        BY <2>1 DEF Undisturbed, OneStop, Stopping, Pollers, Tasks, Stoppers, GoTo
      <3>2. ~running["udp"] /\ both[s]
        BY <2>1 DEF Undisturbed, StopsAreWhole, Within
      <3>3. NoneRunning'
        BY <3>2 DEF NoneRunning
      <3> QED
        BY <3>1, <3>2, <3>3 DEF StopsAreWhole, Within, GoTo
    <2>5. BitsAreTrue'
      BY <2>1 DEF Undisturbed, BitsAreTrue, OneStop, Within, Stopping, Polls,
        PollPlaces, Pollers, Tasks, Stoppers, GoTo
    <2>6. FlagsAreFollowed'
      BY <2>1 DEF Undisturbed, FlagsAreFollowed, BitsAreTrue, StopsAreWhole,
        Within, Polls, PollPlaces, Kind, Kinds, Pollers, Tasks, Stoppers, GoTo
    <2> QED
      BY <2>2, <2>3, <2>4, <2>5, <2>6 DEF Undisturbed
  <1> QED
    BY <1>1, <1>2, <1>3, <1>4, <1>5

(* ... and runs out of time; ...                                             *)
LEMMA WaitTimeoutInv ==
    ASSUME IInv, NEW s \in Stoppers, WaitTimeout(s)
    PROVE  IInv'
  <1> USE PollAssumption DEF IInv, TypeOK, WaitTimeout, Stopped, GiveUp,
    stopVars, fileVars, historyVars
  <1>1. TypeOK'
    BY DEF PollPlaces, StopPlaces, Kinds, Pollers, Tasks, Stoppers, GoTo
  <1>2. FlagsAreHeld'
    BY DEF FlagsAreHeld, OfKind, Tasks, GoTo
  <1>3. NothingBeforeStart'
    BY DEF NothingBeforeStart, NoneRunning, GoTo
  <1>4. BusyIsSlow'
    BY DEF BusyIsSlow, Tasks, GoTo
  <1>5. ASSUME ~mixed'
        PROVE  Undisturbed'
    <2>1. ~mixed /\ Undisturbed
      BY <1>5
    <2>2. OneEach'
      BY <2>1 DEF Undisturbed, OneEach, Polls, PollPlaces, Tasks, GoTo
    <2>3. OneStop'
      BY <2>1 DEF Undisturbed, OneStop, Stopping, Pollers, Tasks, Stoppers, GoTo
    <2>4. StopsAreWhole'
      <3>1. /\ \A u \in Stoppers \ {s} :
                  place'[u] = place[u]
                  /\ place[u] \notin {"asked", "lowering", "lowered", "waiting"}
            /\ place'[s] \notin {"lowering", "lowered", "waiting"}
        BY <2>1 DEF Undisturbed, OneStop, Stopping, Pollers, Tasks, Stoppers, GoTo
      <3>2. NoneRunning /\ NoneRunning'
        BY <2>1 DEF Undisturbed, StopsAreWhole, NoneRunning
      <3> QED
        BY <2>1, <3>1, <3>2 DEF StopsAreWhole, Within
    <2>5. BitsAreTrue'
      BY <2>1 DEF Undisturbed, BitsAreTrue, Within, Polls, PollPlaces, Pollers,
        Tasks, GoTo
    <2>6. FlagsAreFollowed'
      BY <1>5 DEF Undisturbed, FlagsAreFollowed, StopsAreWhole, Within, Polls,
        PollPlaces, Tasks, GoTo
    <2> QED
      BY <2>2, <2>3, <2>4, <2>5, <2>6 DEF Undisturbed
  <1> QED
    BY <1>1, <1>2, <1>3, <1>4, <1>5

(* ... the one that made it has left.                                        *)
LEMMA EndLeavingInv ==
    ASSUME IInv, NEW s \in Stoppers, EndLeaving(s)
    PROVE  IInv'
  <1> USE PollAssumption DEF IInv, TypeOK, EndLeaving, stopVars, fileVars,
    historyVars
  <1>1. TypeOK'
    BY DEF Pollers, Tasks, GoTo
  <1>2. FlagsAreHeld'
    BY DEF FlagsAreHeld, GoTo
  <1>3. NothingBeforeStart'
    BY DEF NothingBeforeStart, Pollers, Tasks, Stoppers
  <1>4. BusyIsSlow'
    BY DEF BusyIsSlow, GoTo
  <1>5. ASSUME ~mixed'
        PROVE  Undisturbed'
    <2>1. ~mixed /\ Undisturbed
      BY <1>5
    <2>2. OneStop'
      BY <2>1 DEF Undisturbed, OneStop, Stopping, GoTo
    <2>3. UNCHANGED <<running, bits, both>> /\ lost \subseteq lost'
      OBVIOUS
    <2>4. \A u \in Pollers : Polls(u)' <=> Polls(u)
      BY DEF Polls, PollPlaces, GoTo
    <2>5. \A u \in Stoppers : \A p \in {"lowering", "lowered", "waiting"} :
            place'[u] = p <=> place[u] = p
      BY DEF GoTo
    <2> QED
      BY <2>1, <2>2, <2>3, <2>4, <2>5, QuietStep
  <1> QED
    BY <1>1, <1>2, <1>3, <1>4, <1>5

(* A polling task opens its sockets, ...                                     *)
LEMMA OpenSocketsInv ==
    ASSUME IInv, NEW t \in Pollers, OpenSockets(t)
    PROVE  IInv'
  <1> USE PollAssumption DEF IInv, TypeOK, OpenSockets, stopVars, fileVars,
    historyVars
  <1>1. TypeOK'
    BY DEF PollPlaces, Pollers, Tasks, GoTo
  <1>2. FlagsAreHeld'
    BY DEF FlagsAreHeld, OfKind, GoTo
  <1>3. NothingBeforeStart'
    BY DEF NothingBeforeStart, Tasks
  <1>4. BusyIsSlow'
    BY DEF BusyIsSlow, GoTo
  <1>5. ASSUME ~mixed'
        PROVE  Undisturbed'
    <2>1. ~mixed /\ Undisturbed
      BY <1>5
    <2>2. OneStop'
      BY <2>1 DEF Undisturbed, OneStop, Stopping, GoTo
    <2>3. UNCHANGED <<running, bits, both>> /\ lost \subseteq lost'
      BY <1>5
    <2>4. \A u \in Pollers : Polls(u)' <=> Polls(u)
      BY DEF Polls, PollPlaces, GoTo
    <2>5. \A u \in Stoppers : \A p \in {"lowering", "lowered", "waiting"} :
            place'[u] = p <=> place[u] = p
      BY DEF GoTo
    <2> QED
      BY <2>1, <2>2, <2>3, <2>4, <2>5, QuietStep
  <1> QED
    BY <1>1, <1>2, <1>3, <1>4, <1>5

(* ... or cannot, ...                                                        *)
LEMMA OpenFailsInv ==
    ASSUME IInv, NEW t \in Pollers, OpenFails(t)
    PROVE  IInv'
  <1> USE PollAssumption DEF IInv, TypeOK, OpenFails, stopVars, fileVars,
    historyVars
  <1>1. TypeOK'
    <2>1. PlacesFit'
      BY DEF PlacesFit, Places, PollPlaces, Pollers, Tasks, GoTo
    <2>2. FlagTypes'
      BY DEF FlagTypes, Kind, Kinds
    <2> QED
      BY <2>1, <2>2 DEF PlacesFit, FlagTypes, Places
  <1>2. FlagsAreHeld'
    BY DEF FlagsAreHeld, OfKind, GoTo
  <1>3. NothingBeforeStart'
    BY DEF NothingBeforeStart, Tasks
  <1>4. BusyIsSlow'
    BY DEF BusyIsSlow, GoTo
  <1>5. ASSUME ~mixed'
        PROVE  Undisturbed'
    <2>1. ~mixed /\ Undisturbed
      BY <1>5
    <2>2. OneStop'
      BY <2>1 DEF Undisturbed, OneStop, Stopping, GoTo
    <2>3. UNCHANGED <<running, bits, both>> /\ lost \subseteq lost'
      OBVIOUS
    <2>4. \A u \in Pollers : Polls(u)' <=> Polls(u)
      BY DEF Polls, PollPlaces, GoTo
    <2>5. \A u \in Stoppers : \A p \in {"lowering", "lowered", "waiting"} :
            place'[u] = p <=> place[u] = p
      BY DEF GoTo
    <2> QED
      BY <2>1, <2>2, <2>3, <2>4, <2>5, QuietStep
  <1> QED
    BY <1>1, <1>2, <1>3, <1>4, <1>5

(* ... sees its flag lowered, ...                                            *)
LEMMA SeeStopInv ==
    ASSUME IInv, NEW t \in Pollers, SeeStop(t)
    PROVE  IInv'
  <1> USE PollAssumption DEF IInv, TypeOK, SeeStop, stopVars, fileVars,
    historyVars
  <1>1. TypeOK'
    BY DEF PollPlaces, Pollers, Tasks, GoTo
  <1>2. FlagsAreHeld'
    BY DEF FlagsAreHeld, OfKind, GoTo
  <1>3. NothingBeforeStart'
    BY DEF NothingBeforeStart, Tasks
  <1>4. BusyIsSlow'
    BY DEF BusyIsSlow, GoTo
  <1>5. ASSUME ~mixed'
        PROVE  Undisturbed'
    <2>1. ~mixed /\ Undisturbed
      BY <1>5
    <2>2. OneStop'
      BY <2>1 DEF Undisturbed, OneStop, Stopping, GoTo
    <2>3. UNCHANGED <<running, bits, both>> /\ lost \subseteq lost'
      OBVIOUS
    <2>4. \A u \in Pollers : Polls(u)' <=> Polls(u)
      BY DEF Polls, PollPlaces, GoTo
    <2>5. \A u \in Stoppers : \A p \in {"lowering", "lowered", "waiting"} :
            place'[u] = p <=> place[u] = p
      BY DEF GoTo
    <2> QED
      BY <2>1, <2>2, <2>3, <2>4, <2>5, QuietStep
  <1> QED
    BY <1>1, <1>2, <1>3, <1>4, <1>5

(* ... and ends.                                                             *)
LEMMA EndTaskInv ==
    ASSUME IInv, NEW t \in Pollers, EndTask(t)
    PROVE  IInv'
  <1> USE PollAssumption DEF IInv, TypeOK, EndTask, Satisfied, Stopped,
    stopVars, fileVars, historyVars
  <1>1. TypeOK'
    <2>1. PlacesFit'
      BY DEF PlacesFit, Places, StopPlaces, Pollers, Tasks, Stoppers
    <2>2. FlagTypes'
      BY DEF FlagTypes, Kind, Kinds
    <2> QED
      BY <2>1, <2>2 DEF PlacesFit, FlagTypes, Places
  <1>2. FlagsAreHeld'
    BY DEF FlagsAreHeld, OfKind, Tasks
  <1>3. NothingBeforeStart'
    BY DEF NothingBeforeStart, Tasks
  <1>4. BusyIsSlow'
    BY DEF BusyIsSlow, Tasks
  <1>5. ASSUME ~mixed'
        PROVE  Undisturbed'
    <2>1. ~mixed /\ Undisturbed
      BY <1>5
    <2>2. OneEach'
      BY <2>1 DEF Undisturbed, OneEach, Polls, PollPlaces, Tasks
    <2>3. OneStop'
      BY <2>1 DEF Undisturbed, OneStop, Stopping, Pollers, Tasks, Stoppers
    <2>4. StopsAreWhole'
      BY <2>1 DEF Undisturbed, StopsAreWhole, NoneRunning, AllRunning, Within,
        Pollers, Tasks, Stoppers
    <2>5. BitsAreTrue'
      BY <2>1 DEF Undisturbed, BitsAreTrue, OneStop, OneEach, Within, Stopping,
        Polls, PollPlaces, Kind, Pollers, Tasks, Stoppers
    <2>6. FlagsAreFollowed'
      BY <2>1 DEF Undisturbed, FlagsAreFollowed, BitsAreTrue, StopsAreWhole,
        OneEach, NoneRunning, Within, Polls, PollPlaces, Kind, Kinds, Pollers,
        Tasks, Stoppers
    <2> QED
      BY <2>2, <2>3, <2>4, <2>5, <2>6 DEF Undisturbed
  <1> QED
    BY <1>1, <1>2, <1>3, <1>4, <1>5

(* It serves a client or a datagram, ...                                     *)
LEMMA ServeInv ==
    ASSUME IInv, NEW t \in Pollers, Serve(t)
    PROVE  IInv'
  <1> USE PollAssumption DEF IInv, TypeOK, Serve, stopVars, fileVars,
    historyVars
  <1>1. TypeOK'
    BY DEF PollPlaces, Pollers, Tasks, GoTo
  <1>2. FlagsAreHeld'
    BY DEF FlagsAreHeld, GoTo
  <1>3. NothingBeforeStart'
    BY DEF NothingBeforeStart, Tasks
  <1>4. BusyIsSlow'
    BY DEF BusyIsSlow, GoTo
  <1>5. ASSUME ~mixed'
        PROVE  Undisturbed'
    <2>1. ~mixed /\ Undisturbed
      BY <1>5
    <2>2. OneStop'
      BY <2>1 DEF Undisturbed, OneStop, Stopping, GoTo
    <2>3. UNCHANGED <<running, bits, both>> /\ lost \subseteq lost'
      OBVIOUS
    <2>4. \A u \in Pollers : Polls(u)' <=> Polls(u)
      BY DEF Polls, PollPlaces, GoTo
    <2>5. \A u \in Stoppers : \A p \in {"lowering", "lowered", "waiting"} :
            place'[u] = p <=> place[u] = p
      BY DEF GoTo
    <2> QED
      BY <2>1, <2>2, <2>3, <2>4, <2>5, QuietStep
  <1> QED
    BY <1>1, <1>2, <1>3, <1>4, <1>5

(* ... to the end, ...                                                       *)
LEMMA ServedInv ==
    ASSUME IInv, NEW t \in Pollers, Served(t)
    PROVE  IInv'
  <1> USE PollAssumption DEF IInv, TypeOK, Served, stopVars, fileVars,
    historyVars
  <1>1. TypeOK'
    BY DEF PollPlaces, Pollers, Tasks, GoTo
  <1>2. FlagsAreHeld'
    BY DEF FlagsAreHeld, GoTo
  <1>3. NothingBeforeStart'
    BY DEF NothingBeforeStart, Tasks
  <1>4. BusyIsSlow'
    BY DEF BusyIsSlow, GoTo
  <1>5. ASSUME ~mixed'
        PROVE  Undisturbed'
    <2>1. ~mixed /\ Undisturbed
      BY <1>5
    <2>2. OneStop'
      BY <2>1 DEF Undisturbed, OneStop, Stopping, GoTo
    <2>3. UNCHANGED <<running, bits, both>> /\ lost \subseteq lost'
      OBVIOUS
    <2>4. \A u \in Pollers : Polls(u)' <=> Polls(u)
      BY DEF Polls, PollPlaces, GoTo
    <2>5. \A u \in Stoppers : \A p \in {"lowering", "lowered", "waiting"} :
            place'[u] = p <=> place[u] = p
      BY DEF GoTo
    <2> QED
      BY <2>1, <2>2, <2>3, <2>4, <2>5, QuietStep
  <1> QED
    BY <1>1, <1>2, <1>3, <1>4, <1>5

(* ... lets a task move to the access point, ...                             *)
LEMMA InvitedInv ==
    ASSUME IInv, NEW t \in Pollers, Invited(t)
    PROVE  IInv'
  <1> USE PollAssumption DEF IInv, TypeOK, Invited, stopVars, fileVars,
    historyVars
  <1>1. TypeOK'
    BY DEF PollPlaces, StopPlaces, Pollers, Tasks, GoTo
  <1>2. FlagsAreHeld'
    BY DEF FlagsAreHeld, OfKind, Tasks, GoTo
  <1>3. NothingBeforeStart'
    BY DEF NothingBeforeStart, Tasks
  <1>4. BusyIsSlow'
    BY DEF BusyIsSlow, Tasks, GoTo
  <1>5. ASSUME ~mixed'
        PROVE  Undisturbed'
    <2>1. ~mixed /\ Undisturbed
      BY <1>5
    <2>2. OneStop'
      <3>1. \A s \in Stoppers :
              place[s] \notin {"asked", "lowering", "lowered", "waiting"}
        BY <1>5 DEF Stopping
      <3>2. CASE GoTo(t, "polling")
        BY <3>1, <3>2 DEF GoTo, OneStop, Stopping
      <3>3. ASSUME NEW c \in Connectors,
                   place' = [place EXCEPT ![t] = "polling", ![c] = "asked"]
            PROVE  OneStop'
        BY <3>1, <3>3 DEF OneStop, Stopping, Tasks, Pollers, Stoppers
      <3> QED
        BY <3>2, <3>3
    <2>3. UNCHANGED <<running, bits, both>> /\ lost \subseteq lost'
      OBVIOUS
    <2>4. \A u \in Pollers : Polls(u)' <=> Polls(u)
      BY DEF Polls, PollPlaces, Tasks, GoTo
    <2>5. \A u \in Stoppers : \A p \in {"lowering", "lowered", "waiting"} :
            place'[u] = p <=> place[u] = p
      BY DEF Pollers, Stoppers, Tasks, GoTo
    <2> QED
      BY <2>1, <2>2, <2>3, <2>4, <2>5, QuietStep
  <1> QED
    BY <1>1, <1>2, <1>3, <1>4, <1>5

(* ... or goes home itself.                                                  *)
LEMMA ConfirmInv ==
    ASSUME IInv, NEW t \in Pollers, Confirm(t)
    PROVE  IInv'
  <1> USE PollAssumption DEF IInv, TypeOK, Confirm, stopVars, fileVars,
    historyVars
  <1>1. TypeOK'
    BY DEF StopPlaces, Tasks, GoTo
  <1>2. FlagsAreHeld'
    BY DEF FlagsAreHeld, GoTo
  <1>3. NothingBeforeStart'
    BY DEF NothingBeforeStart, Tasks
  <1>4. BusyIsSlow'
    BY DEF BusyIsSlow, Tasks, GoTo
  <1>5. ASSUME ~mixed'
        PROVE  Undisturbed'
    <2>1. ~mixed /\ Undisturbed
      BY <1>5
    <2>2. OneEach'
      BY <2>1 DEF Undisturbed, OneEach, Polls, PollPlaces, GoTo
    <2>3. OneStop'
      BY <1>5 DEF OneStop, Stopping, Pollers, Tasks, Stoppers, GoTo
    <2>4. StopsAreWhole'
      BY <2>1 DEF Undisturbed, StopsAreWhole, NoneRunning, AllRunning, Within,
        GoTo
    <2>5. BitsAreTrue'
      BY <1>5 DEF BitsAreTrue, Within, Stopping, Pollers, Tasks, Stoppers, GoTo
    <2>6. FlagsAreFollowed'
      BY <2>1 DEF Undisturbed, FlagsAreFollowed, NoneRunning, Polls, PollPlaces,
        GoTo
    <2> QED
      BY <2>2, <2>3, <2>4, <2>5, <2>6 DEF Undisturbed
  <1> QED
    BY <1>1, <1>2, <1>3, <1>4, <1>5

(* The event loop starts the polling, ...                                    *)
LEMMA StartPollingInv ==
    ASSUME IInv, StartPolling, place[Loop] = "idle", online' = TRUE,
           initial_done' = TRUE, installed' = FALSE, UNCHANGED <<bits, both, slow>>
    PROVE  IInv'
  <1> USE PollAssumption DEF IInv
  <1>1. PICK new \in SUBSET {t \in Pollers : place[t] = "none" /\ ~running[Kind(t)]} :
            /\ \A k \in Kinds : Cardinality(new \cap OfKind(k)) <= 1
            /\ place' = [t \in Tasks |-> IF t \in new THEN "opening" ELSE place[t]]
            /\ lost' = {k \in Kinds : IF ~running[k] THEN new \cap OfKind(k) = {}
                                                     ELSE k \in lost}
    BY DEF StartPolling, Needed
  <1>2. /\ running' = [k \in Kinds |-> TRUE]
        /\ mixed' = (mixed \/ Stopping # {})
        /\ gaveUp' = FALSE
    BY DEF StartPolling, Needed, TypeOK
  <1>3. TypeOK'
    <2>1. PlacesFit'
      BY <1>1, TypeParts DEF PlacesFit, Places, PollPlaces, Pollers, Tasks
    <2>2. FlagTypes'
      BY <1>1, <1>2, TypeParts DEF FlagTypes
    <2> QED
      BY <2>1, <2>2 DEF TypeOK, PlacesFit, FlagTypes, Places
  <1>4. FlagsAreHeld'
    <2> SUFFICES ASSUME NEW k \in Kinds, k \notin lost'
                 PROVE  \E t \in OfKind(k) : place'[t] \in HoldingPlaces
      BY DEF FlagsAreHeld, HoldingPlaces
    <2>1. CASE running[k]
      <3>1. PICK t \in OfKind(k) : place[t] \in HoldingPlaces
        BY <1>1, <2>1 DEF FlagsAreHeld, HoldingPlaces
      <3>2. t \in Tasks /\ t \notin new
        BY <2>1 DEF OfKind, Tasks
      <3> QED
        BY <1>1, <3>1, <3>2
    <2>2. CASE ~running[k]
      <3>1. PICK t \in OfKind(k) : t \in new
        BY <1>1, <2>2
      <3> QED
        BY <1>1, <3>1 DEF Tasks, HoldingPlaces
    <2> QED
      BY <2>1, <2>2
  <1>5. NothingBeforeStart'
    BY DEF NothingBeforeStart
  <1>6. BusyIsSlow'
    BY <1>2 DEF BusyIsSlow, Kind, Kinds
  <1>7. ASSUME ~mixed'
        PROVE  Undisturbed'
    <2>1. Undisturbed /\ Stopping = {}
      BY <1>2, <1>7
    <2>2. \A s \in Stoppers :
            /\ ~Within(s) /\ ~Within(s)'
            /\ place[s] \notin {"lowering", "lowered", "waiting"}
            /\ place'[s] \notin {"lowering", "lowered", "waiting"}
      BY <1>1, <2>1 DEF Stopping, Within, Stoppers, Tasks, Pollers
    <2>3. OneEach'
      <3> SUFFICES ASSUME NEW t \in Pollers, NEW u \in Pollers,
                          Polls(t)', Polls(u)', Kind(t) = Kind(u)
                   PROVE  t = u
        BY DEF OneEach
      <3>1. CASE AllRunning
        <4>1. new = {}
          BY <3>1 DEF AllRunning, Kind, Kinds
        <4>2. Polls(t) /\ Polls(u)
          BY <1>1, <4>1 DEF Polls, Tasks
        <4> QED
          BY <4>2, <2>1 DEF Undisturbed, OneEach
      <3>2. CASE NoneRunning
        <4>1. ~Polls(t) /\ ~Polls(u)
          BY <2>1, <2>2, <3>2 DEF Undisturbed, FlagsAreFollowed
        <4>2. t \in new /\ u \in new
          BY <1>1, <4>1 DEF Polls, Tasks
        <4>3. Kind(t) \in Kinds /\ {t, u} \subseteq new \cap OfKind(Kind(t))
          BY DEF OfKind, Kind, Kinds
        <4>4. IsFiniteSet(new \cap OfKind(Kind(t)))
          BY <4>3, OfKindFinite, FS_Subset
        <4> QED
          BY <1>1, <4>3, <4>4, AtMostOne
      <3> QED
        BY <3>1, <3>2, <2>1, <2>2 DEF Undisturbed, StopsAreWhole
    <2>4. OneStop'
      BY <1>1, <2>1 DEF OneStop, Stopping, Stoppers, Pollers, Tasks
    <2>5. StopsAreWhole'
      BY <1>2, <2>2 DEF StopsAreWhole, AllRunning, Within
    <2>6. BitsAreTrue'
      BY <2>2 DEF BitsAreTrue
    <2>7. FlagsAreFollowed'
      BY <1>2 DEF FlagsAreFollowed, NoneRunning, Kinds
    <2> QED
      BY <2>3, <2>4, <2>5, <2>6, <2>7 DEF Undisturbed
  <1> QED
    BY <1>3, <1>4, <1>5, <1>6, <1>7

(* ... with the link or after the move to the access point, ...              *)
LEMMA LinkUpInv ==
    ASSUME IInv, LinkUp
    PROVE  IInv'
  <1>1. ASSUME ~initial_done, installed, NEW c \in Connectors, place[c] = "none", GoTo(c, "asked"),
               UNCHANGED <<lost, running, gaveUp, mixed, bits, both, slow>>, initial_done' = TRUE,
               installed' = FALSE, online' = TRUE
        PROVE  IInv'
    <2> USE <1>1, PollAssumption DEF IInv
    <2>1. TypeOK'
      BY DEF TypeOK, StopPlaces, Tasks, Pollers, GoTo
    <2>2. /\ NoneRunning /\ NoneRunning'
          /\ \A t \in Tasks \ {Loop} : place[t] = "none"
      BY DEF NothingBeforeStart, NoneRunning
    <2>3. \A t \in Pollers : ~Polls(t)'
      BY <2>2 DEF GoTo, Polls, PollPlaces, Tasks, TypeOK
    <2>4. FlagsAreHeld' /\ NothingBeforeStart'
      BY DEF NoneRunning, FlagsAreHeld, NothingBeforeStart
    <2>5. BusyIsSlow'
      BY <2>3 DEF BusyIsSlow, Polls, PollPlaces
    <2>6. ASSUME ~mixed', place[Loop] = "idle"
          PROVE  Undisturbed'
      BY <2>2, <2>3, <2>6
      DEF Undisturbed, OneEach, OneStop, StopsAreWhole, BitsAreTrue,
        FlagsAreFollowed, Within, Stopping, Stoppers, GoTo, Tasks, Pollers
    <2> QED
      BY <2>1, <2>4, <2>5, <2>6 DEF LinkUp
  <1>2. ASSUME ~initial_done, installed, lost' = Kinds,
               UNCHANGED <<place, running, gaveUp, mixed, bits, both, slow>>, initial_done' = TRUE,
               installed' = FALSE, online' = TRUE
        PROVE  IInv'
    <2>1. /\ TypeOK' /\ FlagsAreHeld' /\ NothingBeforeStart' /\ BusyIsSlow'
      BY <1>2 DEF IInv, TypeOK, FlagsAreHeld, NothingBeforeStart, BusyIsSlow,
        NoneRunning
    <2>2. ASSUME ~mixed'
          PROVE  Undisturbed'
      <3>1. OneStop' /\ Undisturbed /\ lost \subseteq lost'
        BY <1>2, <2>2 DEF IInv, TypeOK, Undisturbed, OneStop, Stopping
      <3> QED
        BY <1>2, <3>1, QuietStep DEF Polls
    <2> QED
      BY <2>1, <2>2 DEF IInv
  <1> QED
    BY <1>1, <1>2, StartPollingInv DEF LinkUp

(* ... and stops it.                                                         *)
LEMMA LinkDownInv ==
    ASSUME IInv, LinkDown
    PROVE  IInv'
  <1> DEFINE placed == [t \in Tasks |-> IF place[t] = "leaving" THEN "left" ELSE place[t]]
  <1>1. CASE NoneRunning
    <2>0. place' = placed /\ UNCHANGED <<running, bits, both, slow, lost, mixed>>
      BY <1>1 DEF LinkDown
    <2>1. TypeOK'
      <3>1. PlacesFit'
        BY <2>0, TypeParts
        DEF IInv, PlacesFit, Places, PollPlaces, StopPlaces, Tasks, Pollers
      <3>2. FlagTypes'
        BY <2>0, TypeParts DEF IInv, LinkDown, FlagTypes, fileVars
      <3> QED
        BY <3>1, <3>2 DEF TypeOK, PlacesFit, FlagTypes, Places
    <2>2. \A t \in Pollers : /\ Polls(t)' <=> Polls(t)
                             /\ place'[t] = "serving" <=> place[t] = "serving"
      BY <2>0 DEF Polls, PollPlaces, Tasks
    <2>3. \A s \in Stoppers : /\ Within(s)' <=> Within(s)
                             /\ \A p \in {"asked", "waiting", "lowering", "lowered"} :
                                  place'[s] = p <=> place[s] = p
      BY <2>0 DEF Within, Stoppers, Pollers, Tasks
    <2>4. FlagsAreHeld' /\ BusyIsSlow'
      BY <1>1, <2>0, <2>2 DEF IInv, FlagsAreHeld, BusyIsSlow, NoneRunning
    <2>5. NothingBeforeStart'
      BY DEF IInv, NothingBeforeStart, NoneRunning, LinkDown, fileVars
    <2>6. ASSUME ~mixed'
          PROVE  Undisturbed'
      <3>1. Undisturbed
        BY <2>0, <2>6 DEF IInv
      <3>2. OneStop'
        BY <2>3, <3>1 DEF Undisturbed, OneStop, Stopping
      <3> QED
        BY <2>0, <2>2, <2>3, <3>1, <3>2, QuietStep
    <2> QED
      BY <2>1, <2>4, <2>5, <2>6 DEF IInv
  <1>2. CASE ~NoneRunning
    <2> USE PollAssumption DEF IInv
    <2>0. /\ place[Loop] = "idle"
          /\ bits' = {}
          /\ both' = [both EXCEPT ![Loop] = AllRunning]
          /\ Lower
          /\ place' = [placed EXCEPT ![Loop] = "waiting"]
          /\ mixed' = (mixed \/ Stopping # {})
          /\ UNCHANGED <<lost, gaveUp>>
      BY <1>2 DEF LinkDown
    <2>1. TypeOK'
      <3>1. PlacesFit'
        BY <2>0, TypeParts DEF PlacesFit, Places, PollPlaces, StopPlaces, Pollers, Tasks
      <3>2. FlagTypes'
        BY TypeParts DEF LinkDown, FlagTypes, Lower, AllRunning, fileVars
      <3> QED
        BY <3>1, <3>2 DEF TypeOK, PlacesFit, FlagTypes, Places
    <2>2. \A t \in Tasks \ {Loop} : place'[t] = IF place[t] = "leaving" THEN "left" ELSE place[t]
      BY <2>0 
    <2>3. place'[Loop] = "waiting"
      BY <2>0 DEF Tasks
    <2>4. NoneRunning'
      BY <2>0 DEF Lower, NoneRunning
    <2>5. \A t \in Pollers : Polls(t)' <=> Polls(t)
      BY <2>2 DEF Polls, PollPlaces, Pollers, Tasks
    <2>6. FlagsAreHeld' /\ NothingBeforeStart' /\ BusyIsSlow'
      <3>1. FlagsAreHeld'
        BY <2>4 DEF FlagsAreHeld, NoneRunning
      <3>2. NothingBeforeStart'
        BY <1>2 DEF NothingBeforeStart, LinkDown, fileVars
      <3>3. BusyIsSlow'
        BY <2>0 DEF BusyIsSlow, Lower, Tasks
      <3> QED
        BY <3>1, <3>2, <3>3
    <2>7. ASSUME ~mixed'
          PROVE  Undisturbed'
      <3>1. Undisturbed /\ Stopping = {}
        BY <2>0, <2>7
      <3>2. \A s \in Stoppers :
              /\ Within(s)' \/ s \in Stopping' => s = Loop
              /\ place'[s] \notin {"lowering", "lowered"}
        BY <2>2, <2>3, <3>1 DEF Within, Stopping, Stoppers, Tasks, Pollers
      <3>3. OneEach' /\ OneStop'
        BY <2>5, <3>1, <3>2 DEF Undisturbed, OneEach, OneStop, Stopping
      <3>4. StopsAreWhole'
        <4>1. AllRunning
          BY <3>1, <1>2 DEF Undisturbed, StopsAreWhole, Stopping
        <4>2. \A s \in Stoppers : Within(s)' => both'[s]
          BY <2>0, <3>2, <4>1 DEF TypeOK
        <4> QED
          BY <2>4, <3>2, <4>2 DEF StopsAreWhole
      <3>5. BitsAreTrue'
        <4>1. CASE "tcp" \in lost
          BY <4>1, <2>0 DEF BitsAreTrue
        <4>2. CASE "tcp" \notin lost
          <5>1. running["tcp"]
            BY <3>1, <1>2 DEF Undisturbed, StopsAreWhole, AllRunning, Kinds
          <5>2. PICK t \in OfKind("tcp") : place[t] \in HoldingPlaces
            BY <4>2, <5>1 DEF FlagsAreHeld, HoldingPlaces, Kinds
          <5>3. t \in TcpTasks /\ Polls(t)
            BY <5>2 DEF OfKind, Kind, Pollers, Polls, TypeOK, HoldingPlaces
          <5> QED
            BY <2>0, <2>5, <5>3 DEF BitsAreTrue, Pollers
        <4> QED
          BY <4>1, <4>2
      <3>6. FlagsAreFollowed'
        BY <2>3 DEF FlagsAreFollowed, Stoppers
      <3> QED
        BY <3>3, <3>4, <3>5, <3>6 DEF Undisturbed
    <2> QED
      BY <2>1, <2>6, <2>7
  <1> QED
    BY <1>1, <1>2

(* At the start nothing runs, ...                                            *)
LEMMA InitInv ==
    ASSUME Init
    PROVE  IInv
  <1> USE PollAssumption DEF Init
  <1>1. TypeOK
    BY DEF TypeOK, Tasks, Pollers
  <1>2. FlagsAreHeld /\ NothingBeforeStart
    BY DEF FlagsAreHeld, NothingBeforeStart, NoneRunning
  <1>3. \A t \in Pollers : ~Polls(t) /\ place[t] # "serving"
    BY DEF Polls, PollPlaces, Tasks
  <1>4. \A s \in Stoppers :
          s \notin Stopping /\ ~Within(s) /\ place[s] \notin {"lowering", "lowered", "waiting"}
    BY DEF Stopping, Within, Stoppers, Tasks, Pollers
  <1>5. BusyIsSlow
    BY <1>3 DEF BusyIsSlow
  <1>6. OneEach /\ OneStop
    BY <1>3, <1>4 DEF OneEach, OneStop, Stopping
  <1>7. StopsAreWhole /\ BitsAreTrue /\ FlagsAreFollowed
    BY <1>3, <1>4 DEF StopsAreWhole, BitsAreTrue, FlagsAreFollowed, NoneRunning
  <1> QED
    BY <1>1, <1>2, <1>5, <1>6, <1>7 DEF IInv, Undisturbed

(* ... and after a restart.                                                  *)
LEMMA RestartInv ==
    ASSUME Restart
    PROVE  IInv'
  <1> USE PollAssumption DEF Restart
  <1>1. TypeOK'
    BY DEF TypeOK, Tasks, Pollers
  <1>2. FlagsAreHeld' /\ NothingBeforeStart'
    BY DEF FlagsAreHeld, NothingBeforeStart, NoneRunning
  <1>3. \A t \in Pollers : ~Polls(t)' /\ place'[t] # "serving"
    BY DEF Polls, PollPlaces, Tasks
  <1>4. \A s \in Stoppers :
          s \notin Stopping' /\ ~Within(s)' /\ place'[s] \notin {"lowering", "lowered", "waiting"}
    BY DEF Stopping, Within, Stoppers, Tasks, Pollers
  <1>5. BusyIsSlow'
    BY <1>3 DEF BusyIsSlow
  <1>6. OneEach' /\ OneStop'
    BY <1>3, <1>4 DEF OneEach, OneStop, Stopping
  <1>7. StopsAreWhole' /\ BitsAreTrue' /\ FlagsAreFollowed'
    BY <1>3, <1>4 DEF StopsAreWhole, BitsAreTrue, FlagsAreFollowed, NoneRunning
  <1> QED
    BY <1>1, <1>2, <1>5, <1>6, <1>7 DEF IInv, Undisturbed

(* Each step keeps the invariant.                                            *)
LEMMA NextInv == IInv /\ [Next]_vars => IInv'
  <1> SUFFICES ASSUME IInv, [Next]_vars
               PROVE  IInv'
    OBVIOUS
  <1>1. CASE UNCHANGED vars
    BY <1>1 DEF vars, stopVars, fileVars, historyVars, IInv, TypeOK,
      FlagsAreHeld, NothingBeforeStart, BusyIsSlow, Undisturbed, OneEach, OneStop,
      StopsAreWhole, BitsAreTrue, FlagsAreFollowed, Stopping, Within, Polls,
      NoneRunning, AllRunning
  <1>2. ASSUME NEW s \in Stoppers, Stops(s)
        PROVE  IInv'
    BY <1>2, BeginStopInv, LowerUdpInv, LowerTcpInv, WaitTimeoutInv, EndLeavingInv
    DEF Stops
  <1>3. ASSUME NEW t \in Pollers, Obeys(t)
        PROVE  IInv'
    BY <1>3, OpenSocketsInv, OpenFailsInv, SeeStopInv, EndTaskInv DEF Obeys
  <1>4. ASSUME NEW t \in Pollers, Serve(t) \/ Served(t) \/ Invited(t) \/ Confirm(t)
        PROVE  IInv'
    BY <1>4, ServeInv, ServedInv, InvitedInv, ConfirmInv
  <1> QED
    BY <1>1, <1>2, <1>3, <1>4, LinkUpInv, LinkDownInv, RestartInv DEF Next

(* In every state of every run flags have their tasks, whatever met, and the *)
(* facts of Undisturbed hold as long as nothing met (742-765, 1260-1340).    *)
THEOREM Invariance == Spec => []IInv
  BY InitInv, NextInv, PTL DEF Spec

(* Every variable keeps its type: a TCP task is never in a stop, a           *)
(* connecting task never polls (132-136, 742-765, 803-825).                  *)
THEOREM TypeCorrect == Spec => []TypeOK
  <1>1. IInv => TypeOK
    BY DEF IInv
  <1> QED
    BY <1>1, Invariance, PTL

(* A flag that is raised keeps a start from creating the task (1261, 1265),  *)
(* and there is one, unless the last start could not have it: this needs no  *)
(* assumption on how stops, starts and timeouts met.                         *)
THEOREM FlagsHaveTasks == Spec => []FlagIsTrue
  <1>1. IInv => FlagIsTrue
    BY DEF IInv, FlagsAreHeld, FlagIsTrue, Polls, PollPlaces
  <1> QED
    BY <1>1, Invariance, PTL

(* A start creates no second task of a kind beside one that still polls      *)
(* (1261-1268), as long as no start and no stop fell into another's stop, no *)
(* stop ran out of time and no task raised a flag that was lowered.          *)
THEOREM NoSecondTask == Spec => []OneOfAKind
  <1>1. IInv => OneOfAKind
    <2> SUFFICES ASSUME IInv, ~mixed, NEW k \in Kinds
                 PROVE  Cardinality({t \in OfKind(k) : Polls(t)}) <= 1
      BY DEF OneOfAKind
    <2> DEFINE S == {t \in OfKind(k) : Polls(t)}
    <2>1. \A t, u \in S : t = u
      BY DEF IInv, Undisturbed, OneEach, OfKind
    <2>2. CASE S = {}
      BY <2>2, FS_EmptySet
    <2>3. CASE S # {}
      <3>1. PICK t : S = {t}
        BY <2>1, <2>3
      <3>2. Cardinality({t}) = 1
        BY FS_Singleton
      <3>3. Cardinality(S) = 1
        BY <3>1, <3>2
      <3> QED
        BY <3>3
    <2> QED
      BY <2>2, <2>3
  <1> QED
    BY <1>1, Invariance, PTL

(* A stop returns when it finds both bits, at the end of its time, or when a *)
(* task sets the last bit; each time both flags are lowered.                 *)
LEMMA EndOfStop ==
    ASSUME IInv, NEW s \in Stoppers, Ends(s), [Next]_vars, ~mixed'
    PROVE  NoneRunning' /\ \A u \in Stoppers : place'[u] # "waiting"
  <1> USE PollAssumption DEF IInv, TypeOK, Ends, Stopped, Tasks, Pollers, Stoppers
  <1>1. CASE Restart
    BY <1>1 DEF Restart, NoneRunning
  <1>2. CASE ~Restart
    <2>1. ~mixed
      BY <1>2 DEF Next, Stops, Obeys, BeginStop, LowerUdp, LowerTcp,
      WaitTimeout, EndLeaving, OpenSockets, OpenFails, SeeStop, EndTask, Serve, Served,
        Invited, Confirm, LinkUp, StartPolling, LinkDown, historyVars, vars
    <2>2. \A u \in Stoppers \ {s} : place[u] \notin {"asked", "lowering", "lowered", "waiting"}
      BY <2>1 DEF Undisturbed, OneStop, Stopping
    <2>3. /\ place[s] = "waiting" => NoneRunning
          /\ place[s] = "lowered" => ~running["udp"]
      BY <2>1 DEF Undisturbed, StopsAreWhole
    <2>4. ASSUME NEW u \in Stoppers, LowerTcp(u) \/ WaitTimeout(u)
          PROVE  NoneRunning' /\ \A w \in Stoppers : place'[w] # "waiting"
      <3>1. u = s
        BY <2>2, <2>4 DEF LowerTcp, WaitTimeout
      <3>2. NoneRunning'
        BY <2>3, <2>4, <3>1 DEF LowerTcp, WaitTimeout, GiveUp, NoneRunning, Kinds
      <3>3. place' = [place EXCEPT ![s] = place'[s]]
        BY <2>4 DEF LowerTcp, WaitTimeout, GiveUp, GoTo
      <3> QED
        BY <2>2, <3>2, <3>3
    <2>5. ASSUME NEW t \in Pollers, EndTask(t)
          PROVE  NoneRunning' /\ \A w \in Stoppers : place'[w] # "waiting"
      <3>1. place[s] = "waiting"
        BY <2>5 DEF EndTask
      <3>2. NoneRunning'
        BY <2>3, <2>5 DEF EndTask, NoneRunning
      <3> QED
        BY <2>2, <2>5, <3>2 DEF EndTask
    <2>6. ASSUME NEW u \in Stoppers, BeginStop(u) \/ LowerUdp(u) \/ EndLeaving(u)
          PROVE  FALSE
      BY <2>6 DEF BeginStop, LowerUdp, EndLeaving, GoTo
    <2>7. ASSUME NEW t \in Pollers,
                 \/ OpenSockets(t) \/ OpenFails(t) \/ SeeStop(t)
                 \/ Serve(t) \/ Served(t) \/ Invited(t) \/ Confirm(t)
          PROVE  FALSE
      BY <2>7 DEF OpenSockets, OpenFails, SeeStop, Serve, Served, Invited,
        Confirm, GoTo
    <2>8. ~LinkUp /\ ~LinkDown /\ ~UNCHANGED vars
      <3>1. ~LinkUp
        BY DEF LinkUp, StartPolling, GoTo
      <3>2. ~LinkDown
        BY DEF LinkDown
      <3>3. ~UNCHANGED vars
        BY DEF vars, stopVars
      <3> QED
        BY <3>1, <3>2, <3>3
    <2> QED
      BY <1>2, <2>4, <2>5, <2>6, <2>7, <2>8 DEF Next, Stops, Obeys
  <1> QED
    BY <1>1, <1>2

(* "P-anker polling stopped" (762) is true: no task polls when a stop        *)
(* returns, unless it ran out of time with one of the two bits (756) or met  *)
(* another start or stop.                                                    *)
THEOREM StopsStopBoth == Spec => StopIsTrue
  <1>1. ASSUME IInv, IInv', [Next]_vars, NEW s \in Stoppers, Ends(s), ~mixed'
        PROVE  \A t \in Pollers : ~Polls(t)'
    <2>1. FlagsAreFollowed'
      BY <1>1 DEF IInv, Undisturbed
    <2> QED
      BY <1>1, <2>1, EndOfStop DEF FlagsAreFollowed
  <1>2. IInv /\ IInv' /\ [Next]_vars =>
            [\A s \in Stoppers : Ends(s) =>
                mixed' \/ ~\E t \in Pollers : Polls(t)']_vars
    BY <1>1
  <1> QED
    BY <1>2, Invariance, PTL DEF Spec, StopIsTrue

(* A task gives up its move to another network (804-808, 829-832) only for a *)
(* task that was busy while it waited (1109) or was not there.               *)
THEOREM GivesUpForTheBusy == Spec => GivesUpOnlyOnTheBusy
  <1>1. ASSUME IInv, [Next]_vars, ~gaveUp, gaveUp'
        PROVE  \E s \in Stoppers : WaitTimeout(s) /\ ~Enough(s)
    BY <1>1 DEF Next, Stops, Obeys, BeginStop, LowerUdp, LowerTcp,
      WaitTimeout, EndLeaving, OpenSockets, OpenFails, SeeStop, EndTask, Serve, Served,
      Invited, Confirm, LinkUp, StartPolling, LinkDown, Restart, historyVars, vars
  <1>2. ASSUME IInv, ~mixed, slow = {}, lost = {},
               NEW s \in Stoppers, WaitTimeout(s), ~Enough(s)
        PROVE  FALSE
    <2>1. bits = {} /\ place[s] = "waiting" /\ ~StillComing(s)
      BY <1>2 DEF WaitTimeout, Enough
    <2>2. PICK t \in TcpTasks : Polls(t)
      BY <1>2, <2>1 DEF IInv, Undisturbed, BitsAreTrue, Within
    <2>3. NoneRunning
      BY <1>2, <2>1 DEF IInv, Undisturbed, StopsAreWhole
    <2>4. t \in Pollers /\ Kind(t) \in Kinds
      BY DEF Pollers, Kind, Kinds
    <2>5. place[t] # "serving"
      BY <1>2, <2>3, <2>4 DEF IInv, BusyIsSlow, NoneRunning
    <2>6. Prompt(t)
      BY <2>2, <2>3, <2>4, <2>5 DEF Polls, PollPlaces, Prompt, NoneRunning
    <2> QED
      BY <1>2, <2>1, <2>4, <2>6 DEF StillComing
  <1>3. IInv /\ [Next]_vars =>
            [~gaveUp /\ gaveUp' => mixed \/ slow # {} \/ lost # {}]_vars
    BY <1>1, <1>2
  <1> QED
    BY <1>3, Invariance, PTL DEF Spec, GivesUpOnlyOnTheBusy
==============================================================================
