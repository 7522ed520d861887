------------------------ MODULE TimeControllerProofs -------------------------
(* For every set of build dates, bound of the time and delay: a clock marked *)
(* synced is true and not before the date of the image that runs, no time is *)
(* ahead of the true one or before the oldest image but for a storage that   *)
(* would not open, and a restart keeps the time.                             *)
EXTENDS TimeController, TLAPS

(* The records of nothing under way, and what may become of them.            *)
LEMMA Records ==
    /\ NoUpdate \in Updates
    /\ NoRestart \in Restarts
    /\ \A ts \in 0 .. MaxTime :
           [NoRestart EXCEPT !.place = "saving", !.ts = ts] \in Restarts
  <1>1. 0 \in 0 .. MaxTime /\ 0 \in 0 .. Slack
    BY ClockAssumption
  <1> QED
    BY <1>1 DEF NoUpdate, NoRestart, Updates, Restarts

(* A restart that SNTP overtakes keeps its type.                             *)
LEMMA OvertakesType == restart \in Restarts => Overtakes \in Restarts
  BY DEF Restarts, Overtakes

(* The image that boots next is built by now, and no older than the oldest.  *)
LEMMA BootType ==
    ASSUME ClockTypeOK, Boot
    PROVE  /\ build' \in Builds /\ oldest' \in Builds
           /\ build' <= now /\ oldest' <= build' /\ oldest' <= oldest
  BY ClockAssumption DEF Boot, ClockTypeOK

(* Losing the power keeps the types.                                         *)
LEMMA OffType ==
    ASSUME ClockTypeOK, Off, parted' \in {0, clock}
    PROVE  ClockTypeOK'
  <1>1. 0 \in 0 .. MaxTime
    BY ClockAssumption
  <1>2. update' \in Updates /\ restart' \in Restarts
    BY Records DEF Off
  <1> QED
    BY <1>1, <1>2, BootType DEF Off, ClockTypeOK

(* Whatever image boots next, the saved time is not before the oldest one.   *)
LEMMA OffPlausible ==
    ASSUME ClockTypeOK, TimesArePlausible, Off
    PROVE  TimesArePlausible'
  <1>1. /\ ~powered' /\ ~ts_sync_status' /\ now' = now
        /\ saved' = saved /\ blind' = blind
    BY DEF Off
  <1>2. oldest' <= oldest /\ oldest' \in Nat /\ oldest \in Nat
    <2>1. oldest' <= oldest /\ oldest' \in Builds /\ oldest \in Builds
      BY BootType DEF Off, ClockTypeOK
    <2> QED
      BY <2>1, ClockAssumption
  <1>3. ASSUME ~blind, saved # NotSaved
        PROVE  oldest' <= saved
    BY <1>2, <1>3, ClockAssumption DEF TimesArePlausible, ClockTypeOK
  <1> QED
    BY <1>1, <1>3 DEF TimesArePlausible

(* A second passes for all that is under way alike.                          *)
LEMMA TickInv ==
    ASSUME ClockInv, Tick
    PROVE  ClockInv'
  <1> USE ClockAssumption DEF ClockInv, image
  <1>1. ClockTypeOK'
    BY DEF Tick, ClockTypeOK, TimesArePlausible, Updates, Restarts
  <1>2. OffIsQuiet'
    BY DEF Tick, OffIsQuiet
  <1>3. SyncedClockIsTrue'
    BY DEF Tick, SyncedClockIsTrue, ClockTypeOK, OffIsQuiet
  <1>4. TimesArePlausible'
    BY DEF Tick, TimesArePlausible, ClockTypeOK
  <1>5. UpdateIsRecent'
    BY DEF Tick, UpdateIsRecent, ClockTypeOK, Updates, OffIsQuiet
  <1>6. RestartIsRecent'
    BY DEF Tick, RestartIsRecent, ClockTypeOK, Restarts
  <1>7. PartedIsSaved'
    BY DEF Tick, PartedIsSaved
  <1> QED
    BY <1>1, <1>2, <1>3, <1>4, <1>5, <1>6, <1>7

(* A start.                                                                  *)
LEMMA InitTimestampInv ==
    ASSUME ClockInv, InitTimestamp
    PROVE  ClockInv'
  <1> USE ClockAssumption DEF ClockInv, image
  <1>1. ClockTypeOK'
    BY DEF InitTimestamp, Start, Loaded, Saved, ClockTypeOK
  <1>2. OffIsQuiet'
    BY DEF InitTimestamp, Start, OffIsQuiet
  <1>3. SyncedClockIsTrue'
    BY DEF InitTimestamp, Start, SyncedClockIsTrue, OffIsQuiet
  <1>4. TimesArePlausible'
    BY DEF InitTimestamp, Start, Loaded, Saved, TimesArePlausible, ClockTypeOK,
      OffIsQuiet, UpdateIsRecent
  <1>5. UpdateIsRecent'
    BY DEF InitTimestamp, Start, UpdateIsRecent, OffIsQuiet
  <1>6. RestartIsRecent'
    BY DEF InitTimestamp, Start, RestartIsRecent, OffIsQuiet
  <1>7. PartedIsSaved'
    BY DEF InitTimestamp, Start, PartedIsSaved
  <1> QED
    BY <1>1, <1>2, <1>3, <1>4, <1>5, <1>6, <1>7

(* A start from a storage that is shut takes 1970 for the time               *)
(* (core:305-315) and is marked blind.                                       *)
LEMMA BlindInv ==
    ASSUME ClockInv, InitTimestampBlind
    PROVE  ClockInv'
  <1> USE ClockAssumption DEF ClockInv, image
  <1>1. ClockTypeOK'
    BY DEF InitTimestampBlind, Start, Saved, ClockTypeOK
  <1>2. OffIsQuiet'
    BY DEF InitTimestampBlind, Start, OffIsQuiet
  <1>3. SyncedClockIsTrue'
    BY DEF InitTimestampBlind, Start, SyncedClockIsTrue, OffIsQuiet
  <1>4. TimesArePlausible'
    BY DEF InitTimestampBlind, Start, Saved, TimesArePlausible, ClockTypeOK, OffIsQuiet
  <1>5. UpdateIsRecent'
    BY DEF InitTimestampBlind, Start, UpdateIsRecent, OffIsQuiet
  <1>6. RestartIsRecent'
    BY DEF InitTimestampBlind, Start, RestartIsRecent, OffIsQuiet
  <1>7. PartedIsSaved'
    BY DEF InitTimestampBlind, Start, PartedIsSaved
  <1> QED
    BY <1>1, <1>2, <1>3, <1>4, <1>5, <1>6, <1>7

(* An answer that is not before the build date is the true time.             *)
LEMMA ReceiveFirstInv ==
    ASSUME ClockInv, NEW ts \in Answers, ReceiveFirst(ts)
    PROVE  ClockInv'
  <1> USE ClockAssumption DEF ClockInv, image
  <1>1. ClockTypeOK'
    BY DEF ReceiveFirst, Answers, ClockTypeOK, Updates
  <1>2. OffIsQuiet'
    BY DEF ReceiveFirst, OffIsQuiet
  <1>3. SyncedClockIsTrue'
    BY DEF ReceiveFirst, SyncedClockIsTrue
  <1>4. TimesArePlausible'
    BY DEF ReceiveFirst, TimesArePlausible
  <1>5. UpdateIsRecent'
    BY DEF ReceiveFirst, Answers, IsPlausible, UpdateIsRecent, ClockTypeOK,
      TimesArePlausible, OffIsQuiet
  <1>6. RestartIsRecent'
    BY DEF ReceiveFirst, RestartIsRecent
  <1>7. PartedIsSaved'
    BY DEF ReceiveFirst, PartedIsSaved
  <1> QED
    BY <1>1, <1>2, <1>3, <1>4, <1>5, <1>6, <1>7

(* A later synchronisation begins (timecontroller.cpp:156-177).              *)
LEMMA ReceiveAgainInv ==
    ASSUME ClockInv, NEW ts \in Answers, ReceiveAgain(ts)
    PROVE  ClockInv'
  <1> USE ClockAssumption DEF ClockInv, image
  <1>1. ClockTypeOK'
    <2>1. ts \in 0 .. MaxTime
      BY DEF Answers, ClockTypeOK
    <2>2. restart' \in Restarts
      BY OvertakesType DEF ReceiveAgain, ClockTypeOK
    <2>3. update' \in Updates
      BY <2>1 DEF ReceiveAgain, Updates
    <2> QED
      BY <2>1, <2>2, <2>3 DEF ReceiveAgain, ClockTypeOK
  <1>2. OffIsQuiet'
    BY DEF ReceiveAgain, OffIsQuiet
  <1>3. SyncedClockIsTrue'
    BY DEF ReceiveAgain, Answers, IsPlausible, SyncedClockIsTrue, ClockTypeOK
  <1>4. TimesArePlausible'
    BY DEF ReceiveAgain, Answers, IsPlausible, TimesArePlausible, ClockTypeOK,
      UpdateIsRecent
  <1>5. UpdateIsRecent'
    BY DEF ReceiveAgain, Answers, IsPlausible, UpdateIsRecent
  <1>6. RestartIsRecent'
    BY DEF ReceiveAgain, Overtakes, RestartIsRecent
  <1>7. PartedIsSaved'
    BY DEF ReceiveAgain, PartedIsSaved
  <1> QED
    BY <1>1, <1>2, <1>3, <1>4, <1>5, <1>6, <1>7

(* The steps of the first update.                                            *)
LEMMA SaveBeforeInv ==
    ASSUME ClockInv, SaveBefore
    PROVE  ClockInv'
  <1> USE ClockAssumption DEF ClockInv, image
  <1>1. ClockTypeOK'
    BY DEF SaveBefore, Saved, ClockTypeOK, Updates
  <1>2. OffIsQuiet'
    BY DEF SaveBefore, OffIsQuiet
  <1>3. SyncedClockIsTrue'
    BY DEF SaveBefore, SyncedClockIsTrue
  <1>4. TimesArePlausible'
    BY DEF SaveBefore, Saved, TimesArePlausible, ClockTypeOK, Updates, UpdateIsRecent,
      OffIsQuiet
  <1>5. UpdateIsRecent'
    BY DEF SaveBefore, UpdateIsRecent
  <1>6. RestartIsRecent'
    BY DEF SaveBefore, Saved, RestartIsRecent, ClockTypeOK, Updates, Restarts,
      UpdateIsRecent
  <1>7. PartedIsSaved'
    BY DEF SaveBefore, PartedIsSaved, OffIsQuiet
  <1> QED
    BY <1>1, <1>2, <1>3, <1>4, <1>5, <1>6, <1>7

(* The clock takes the server's time, not older than the update has run      *)
(* (core:149-182).                                                           *)
LEMMA SetClockInv ==
    ASSUME ClockInv, SetClock
    PROVE  ClockInv'
  <1> USE ClockAssumption DEF ClockInv, image
  <1>1. ClockTypeOK'
    BY DEF SetClock, Saved, Overtakes, ClockTypeOK, Updates, Restarts
  <1>2. OffIsQuiet'
    BY DEF SetClock, OffIsQuiet
  <1>3. SyncedClockIsTrue'
    BY DEF SetClock, SyncedClockIsTrue, UpdateIsRecent
  <1>4. TimesArePlausible'
    BY DEF SetClock, Saved, TimesArePlausible, ClockTypeOK, Updates, OffIsQuiet,
      UpdateIsRecent
  <1>5. UpdateIsRecent'
    BY DEF SetClock, UpdateIsRecent, ClockTypeOK, Updates
  <1>6. RestartIsRecent'
    BY DEF SetClock, Saved, Overtakes, RestartIsRecent, ClockTypeOK
  <1>7. PartedIsSaved'
    BY DEF SetClock, PartedIsSaved, OffIsQuiet
  <1> QED
    BY <1>1, <1>2, <1>3, <1>4, <1>5, <1>6, <1>7

(* The clock is marked as synced only after it was set (core:267-276).       *)
LEMMA MarkSyncedInv ==
    ASSUME ClockInv, MarkSynced
    PROVE  ClockInv'
  <1> USE ClockAssumption DEF ClockInv, image
  <1>1. ClockTypeOK'
    BY DEF MarkSynced, Saved, NoUpdate, ClockTypeOK, Updates
  <1>2. OffIsQuiet'
    BY DEF MarkSynced, OffIsQuiet
  <1>3. SyncedClockIsTrue'
    BY DEF MarkSynced, SyncedClockIsTrue, UpdateIsRecent
  <1>4. TimesArePlausible'
    BY DEF MarkSynced, Saved, TimesArePlausible, ClockTypeOK, OffIsQuiet,
      Updates, UpdateIsRecent
  <1>5. UpdateIsRecent'
    BY DEF MarkSynced, NoUpdate, UpdateIsRecent
  <1>6. RestartIsRecent'
    BY DEF MarkSynced, Saved, RestartIsRecent, ClockTypeOK, Updates, Restarts,
      UpdateIsRecent
  <1>7. PartedIsSaved'
    BY DEF MarkSynced, PartedIsSaved, OffIsQuiet
  <1> QED
    BY <1>1, <1>2, <1>3, <1>4, <1>5, <1>6, <1>7

(* The clock falls back by what the update has taken.                        *)
LEMMA ChangeFailsInv ==
    ASSUME ClockInv, ChangeFails
    PROVE  ClockInv'
  <1> USE ClockAssumption DEF ClockInv, image
  <1>1. ClockTypeOK'
    BY DEF ChangeFails, Saved, NoUpdate, ClockTypeOK, Updates
  <1>2. OffIsQuiet'
    BY DEF ChangeFails, OffIsQuiet
  <1>3. SyncedClockIsTrue'
    BY DEF ChangeFails, SyncedClockIsTrue, UpdateIsRecent
  <1>4. TimesArePlausible'
    BY DEF ChangeFails, Saved, TimesArePlausible, ClockTypeOK, Updates,
      OffIsQuiet, UpdateIsRecent
  <1>5. UpdateIsRecent'
    BY DEF ChangeFails, NoUpdate, UpdateIsRecent
  <1>6. RestartIsRecent'
    BY DEF ChangeFails, Saved, RestartIsRecent, ClockTypeOK, Updates, Restarts,
      UpdateIsRecent
  <1>7. PartedIsSaved'
    BY DEF ChangeFails, PartedIsSaved, OffIsQuiet
  <1> QED
    BY <1>1, <1>2, <1>3, <1>4, <1>5, <1>6, <1>7

(* The time is saved at the end of a later synchronisation (core:277-283).   *)
LEMMA SaveAgainInv ==
    ASSUME ClockInv, SaveAgain
    PROVE  ClockInv'
  <1> USE ClockAssumption DEF ClockInv, image
  <1>1. ClockTypeOK'
    BY DEF SaveAgain, Saved, NoUpdate, ClockTypeOK, Updates
  <1>2. OffIsQuiet'
    BY DEF SaveAgain, OffIsQuiet
  <1>3. SyncedClockIsTrue'
    BY DEF SaveAgain, SyncedClockIsTrue
  <1>4. TimesArePlausible'
    BY DEF SaveAgain, Saved, TimesArePlausible, ClockTypeOK, OffIsQuiet,
      UpdateIsRecent
  <1>5. UpdateIsRecent'
    BY DEF SaveAgain, NoUpdate, UpdateIsRecent
  <1>6. RestartIsRecent'
    BY DEF SaveAgain, Saved, RestartIsRecent, ClockTypeOK, Updates, Restarts,
      UpdateIsRecent
  <1>7. PartedIsSaved'
    BY DEF SaveAgain, PartedIsSaved, OffIsQuiet
  <1> QED
    BY <1>1, <1>2, <1>3, <1>4, <1>5, <1>6, <1>7

(* A restart.                                                                *)
LEMMA ReadClockInv ==
    ASSUME ClockInv, ReadClock
    PROVE  ClockInv'
  <1> USE ClockAssumption DEF ClockInv, image
  <1>1. ClockTypeOK'
    BY Records DEF ReadClock, ClockTypeOK
  <1>2. OffIsQuiet'
    BY DEF ReadClock, OffIsQuiet
  <1>3. SyncedClockIsTrue'
    BY DEF ReadClock, SyncedClockIsTrue
  <1>4. TimesArePlausible'
    BY DEF ReadClock, TimesArePlausible
  <1>5. UpdateIsRecent'
    BY DEF ReadClock, UpdateIsRecent
  <1>6. RestartIsRecent'
    BY DEF ReadClock, NoRestart, RestartIsRecent, ClockTypeOK, TimesArePlausible
  <1>7. PartedIsSaved'
    BY DEF ReadClock, PartedIsSaved
  <1> QED
    BY <1>1, <1>2, <1>3, <1>4, <1>5, <1>6, <1>7

(* A restart saves the time that it has read before                          *)
(* (timecontroller.cpp:132-133).                                             *)
LEMMA SaveLastInv ==
    ASSUME ClockInv, SaveLast
    PROVE  ClockInv'
  <1> USE ClockAssumption DEF ClockInv, image
  <1>1. ClockTypeOK'
    BY DEF SaveLast, ClockTypeOK, TimesArePlausible, Updates, Restarts
  <1>2. OffIsQuiet'
    BY DEF SaveLast, OffIsQuiet
  <1>3. SyncedClockIsTrue'
    BY DEF SaveLast, SyncedClockIsTrue
  <1>4. TimesArePlausible'
    BY DEF SaveLast, TimesArePlausible, RestartIsRecent
  <1>5. UpdateIsRecent'
    BY DEF SaveLast, UpdateIsRecent
  <1>6. RestartIsRecent'
    <2> USE DEF SaveLast, RestartIsRecent, ClockTypeOK, Updates, Restarts
    <2>1. CASE /\ saved' = restart.ts
               /\ restart' = [restart EXCEPT !.place = "saved", !.kept = TRUE]
      BY <2>1
    <2>2. CASE saved' = saved /\ restart' = [restart EXCEPT !.place = "saved"]
      BY <2>2
    <2> QED
      BY <2>1
  <1>7. PartedIsSaved'
    BY DEF SaveLast, PartedIsSaved, OffIsQuiet
  <1> QED
    BY <1>1, <1>2, <1>3, <1>4, <1>5, <1>6, <1>7

(* A restart leaves the clock to what was saved (api.cpp:106-109).           *)
LEMMA RestartAnkerInv ==
    ASSUME ClockInv, RestartAnker
    PROVE  ClockInv'
  <1> USE ClockAssumption DEF ClockInv, image
  <1>1. ClockTypeOK'
    BY OffType DEF RestartAnker
  <1>2. OffIsQuiet'
    BY DEF RestartAnker, Off, NoUpdate, NoRestart, OffIsQuiet
  <1>3. SyncedClockIsTrue'
    BY DEF RestartAnker, Off, SyncedClockIsTrue
  <1>4. TimesArePlausible'
    BY OffPlausible DEF RestartAnker
  <1>5. UpdateIsRecent'
    BY BootType DEF RestartAnker, Off, NoUpdate, UpdateIsRecent
  <1>6. RestartIsRecent'
    BY DEF RestartAnker, Off, NoRestart, RestartIsRecent
  <1>7. PartedIsSaved'
    BY DEF RestartAnker, Off, PartedIsSaved, ClockTypeOK, Restarts,
      RestartIsRecent
  <1> QED
    BY <1>1, <1>2, <1>3, <1>4, <1>5, <1>6, <1>7

(* A power cut leaves what was saved at any time before.                     *)
LEMMA LosePowerInv ==
    ASSUME ClockInv, LosePower
    PROVE  ClockInv'
  <1> USE ClockAssumption DEF ClockInv, image
  <1>1. ClockTypeOK'
    BY OffType DEF LosePower
  <1>2. OffIsQuiet'
    BY DEF LosePower, Off, NoUpdate, NoRestart, OffIsQuiet
  <1>3. SyncedClockIsTrue'
    BY DEF LosePower, Off, SyncedClockIsTrue
  <1>4. TimesArePlausible'
    BY OffPlausible DEF LosePower
  <1>5. UpdateIsRecent'
    BY BootType DEF LosePower, Off, NoUpdate, UpdateIsRecent
  <1>6. RestartIsRecent'
    BY DEF LosePower, Off, NoRestart, RestartIsRecent
  <1>7. PartedIsSaved'
    BY DEF LosePower, PartedIsSaved
  <1> QED
    BY <1>1, <1>2, <1>3, <1>4, <1>5, <1>6, <1>7


(* The invariant holds when the device is switched on first,                 *)
LEMMA ClockInitInv == ClockInit => ClockInv
  <1> SUFFICES ASSUME ClockInit PROVE ClockInv
    OBVIOUS
  <1> USE ClockAssumption DEF ClockInit
  <1>1. ClockTypeOK
    <2>1. build \in 0 .. MaxTime /\ 0 \in 0 .. MaxTime
      OBVIOUS
    <2> QED
      BY <2>1, Records DEF ClockTypeOK
  <1>2. /\ OffIsQuiet /\ SyncedClockIsTrue /\ TimesArePlausible
        /\ UpdateIsRecent /\ RestartIsRecent /\ PartedIsSaved
    BY DEF OffIsQuiet, SyncedClockIsTrue, TimesArePlausible, UpdateIsRecent,
      RestartIsRecent, PartedIsSaved, NoUpdate, NoRestart
  <1> QED
    BY <1>1, <1>2 DEF ClockInv

(* SNTP goes on and off with the network.                                    *)
LEMMA SntpInv ==
    ASSUME ClockInv, StartSntp \/ StopSntp
    PROVE  ClockInv'
  <1> USE DEF ClockInv, image, StartSntp, StopSntp
  <1>1. ClockTypeOK'
    BY DEF ClockTypeOK
  <1>2. OffIsQuiet' /\ SyncedClockIsTrue' /\ TimesArePlausible'
    BY DEF OffIsQuiet, SyncedClockIsTrue, TimesArePlausible
  <1>3. UpdateIsRecent' /\ RestartIsRecent' /\ PartedIsSaved'
    BY DEF UpdateIsRecent, RestartIsRecent, PartedIsSaved
  <1> QED
    BY <1>1, <1>2, <1>3

(* while nothing happens,                                                    *)
LEMMA ClockStutterInv ==
    ASSUME ClockInv, UNCHANGED clockVars
    PROVE  ClockInv'
  BY DEF ClockInv, clockVars, ClockTypeOK, OffIsQuiet, SyncedClockIsTrue,
    TimesArePlausible, UpdateIsRecent, RestartIsRecent, PartedIsSaved

(* and after each step.                                                      *)
LEMMA ClockNextInv == ClockInv /\ [ClockNext]_clockVars => ClockInv'
  BY TickInv, InitTimestampInv, BlindInv, SntpInv, ReceiveFirstInv,
    ReceiveAgainInv, SaveBeforeInv, SetClockInv, MarkSyncedInv, ChangeFailsInv,
    SaveAgainInv, ReadClockInv, SaveLastInv, RestartAnkerInv, LosePowerInv,
    ClockStutterInv
  DEF ClockNext

------------------------------------------------------------------------------
(* What every step leaves true: the types, how old what an update and a      *)
(* restart hold may be, and that the clock a restart saved is not lost.      *)
THEOREM ClockInvariance == ClockSpec => []ClockInv
  BY ClockInitInv, ClockNextInv, PTL DEF ClockSpec

(* A clock marked synced is the true time but for the seconds of an update   *)
(* (timecontroller_core.cpp:261-284).                                        *)
THEOREM SyncedIsTrue == ClockSpec => []SyncedClockIsTrue
  <1>1. ClockInv => SyncedClockIsTrue
    BY DEF ClockInv
  <1> QED
    BY ClockInvariance, <1>1, PTL

(* Neither the clock nor the saved time is ahead of the true time, a synced  *)
(* clock is not before the date of the image that runs, and no time is       *)
(* before the oldest image that ran unless a start found the storage shut    *)
(* (timecontroller_core.cpp:238-288, timecontroller.cpp:129-139).            *)
THEOREM TimesPlausible == ClockSpec => []TimesArePlausible
  <1>1. ClockInv => TimesArePlausible
    BY DEF ClockInv
  <1> QED
    BY ClockInvariance, <1>1, PTL

(* Only a start powers the Anker on.                                         *)
LEMMA OnlyAStart ==
    ASSUME ClockNext, ~powered, powered'
    PROVE  InitTimestamp \/ InitTimestampBlind
  BY DEF ClockNext, Tick, StartSntp, StopSntp, ReceiveFirst, ReceiveAgain,
    SaveBefore, SetClock, MarkSynced, ChangeFails, SaveAgain, ReadClock,
    SaveLast, RestartAnker, LosePower, Off

(* A restart that saved the time does not set the clock back but for the     *)
(* seconds a restart and an update may take (api.cpp:106-109), unless SNTP   *)
(* set the clock after the restart had read it.                              *)
THEOREM RestartKeepsTime == ClockSpec => RestartKeepsTheTime
  <1>1. ASSUME ClockInv, [ClockNext]_clockVars, ~powered, powered', ~blind'
        PROVE  parted <= clock' + 2 * Slack
    <2>1. InitTimestamp
      BY <1>1, OnlyAStart DEF clockVars, InitTimestampBlind
    <2>2. saved # NotSaved => clock' = saved
      BY <1>1, <2>1 DEF InitTimestamp
    <2>3. parted \in Nat /\ clock' \in Nat
      BY <1>1, <2>1, ClockAssumption
      DEF ClockInv, ClockTypeOK, InitTimestamp, Start, Loaded
    <2>4. parted # 0 => saved # NotSaved /\ parted <= saved + 2 * Slack
      BY <1>1 DEF ClockInv, PartedIsSaved
    <2> QED
      BY <2>2, <2>3, <2>4, ClockAssumption
  <1>2. ClockInv /\ [ClockNext]_clockVars =>
          [~powered /\ powered' /\ ~blind' => parted <= clock' + 2 * Slack]_clockVars
    BY <1>1
  <1> QED
    BY ClockInvariance, <1>2, PTL DEF ClockSpec, RestartKeepsTheTime
==============================================================================
