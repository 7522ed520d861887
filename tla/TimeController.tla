--------------------------- MODULE TimeController ----------------------------
(* The clock of an Anker: set at start from the time saved in the            *)
(* non-volatile storage (nvstorageman.cpp), set by SNTP, whose callback runs *)
(* in the task of lwIP, and saved before a restart that another task makes.  *)
(* Every access to the storage may fail, and its result is mostly ignored;   *)
(* the power may fail at any time. SNTP is the only source of the time, so   *)
(* its priority is always high enough (277); the timezone, the callbacks and *)
(* the pair of timestamps only sync_timestamps reads are left out.           *)
EXTENDS Naturals

CONSTANTS
    Builds,    \* the dates the firmware images were built (254)
    MaxTime,   \* bound: the last second looked at
    Slack,     \* bound: seconds an update or a restart takes at most
    NotSaved   \* no time is saved yet

ASSUME ClockAssumption ==
    /\ {MaxTime, Slack} \subseteq Nat
    /\ Builds \subseteq 1 .. MaxTime
    /\ NotSaved \notin Nat

VARIABLES
    now,             \* the true time
    build,           \* the date of the image that runs, or boots next
    oldest,          \* history: the least date of the images that ran
    powered,         \* the device is initialised and runs
    clock,           \* what gettimeofday returns
    saved,           \* _tc_localts in the non-volatile storage
    ts_sync_status,  \* the clock was set by SNTP
    sntp,            \* esp_sntp_enabled
    update,          \* timecontroller_core_handle_rtc_update in the lwIP task
    restart,         \* api_restart_anker in a task that has installed an image
    parted,          \* history: the clock at the last restart saving it, or 0
    blind            \* history: a start could not open the storage

clockVars == <<now, build, oldest, powered, clock, saved, ts_sync_status, sntp,
               update, restart, parted, blind>>

image == <<build, oldest>>

NoUpdate == [place |-> "idle", ts |-> 0, temp |-> 0, late |-> 0]
NoRestart == [place |-> "no", ts |-> 0, late |-> 0, overtaken |-> FALSE, kept |-> FALSE]

ClockInit ==
    /\ build \in Builds
    /\ oldest = build
    /\ now = build
    /\ powered = FALSE
    /\ clock = 0
    /\ saved = NotSaved
    /\ ts_sync_status = FALSE
    /\ sntp = FALSE
    /\ update = NoUpdate
    /\ restart = NoRestart
    /\ parted = 0
    /\ blind = FALSE

(* nvsm_set_u32, which stores the value or not; nobody reacts to its result. *)
Saved(ts) == {saved, ts}

(* Seconds pass, but few of them during an update or a restart.              *)
Tick ==
    /\ now < MaxTime
    /\ update.place # "idle" => update.late < Slack
    /\ restart.place # "no" => restart.late < Slack
    /\ now' = now + 1
    /\ clock' = IF powered THEN clock + 1 ELSE clock
    /\ update' = IF update.place = "idle" THEN update ELSE [update EXCEPT !.late = @ + 1]
    /\ restart' = IF restart.place = "no" THEN restart ELSE [restart EXCEPT !.late = @ + 1]
    /\ UNCHANGED <<image, powered, saved, ts_sync_status, sntp, parted, blind>>

------------------------------------------------------------------------------
(* init_timestamp. A storage that cannot be opened reports a success and     *)
(* leaves the zero of timestamp_init; any other failure is answered by the   *)
(* build date, and so is a time that was never saved.                        *)
Loaded ==
    IF saved = NotSaved THEN {build} ELSE {build, saved}

Start(ts) ==
    /\ ~powered
    /\ powered' = TRUE
    /\ clock' = ts
    /\ saved' \in Saved(ts)
    /\ UNCHANGED <<now, image, ts_sync_status, sntp, update, restart, parted>>

InitTimestamp ==
    /\ \E ts \in Loaded : Start(ts)
    /\ blind' = (blind \/ (saved # NotSaved /\ clock' # saved))

InitTimestampBlind ==
    /\ Start(0)
    /\ blind' = TRUE

------------------------------------------------------------------------------
(* SNTP: internet_connection_state_changed starts and stops it.              *)

StartSntp ==
    /\ powered
    /\ ~sntp
    /\ sntp' = TRUE
    /\ UNCHANGED <<now, image, powered, clock, saved, ts_sync_status, update, restart, parted, blind>>

StopSntp ==
    /\ sntp
    /\ sntp' = FALSE
    /\ UNCHANGED <<now, image, powered, clock, saved, ts_sync_status, update, restart, parted, blind>>

(* A server answers with the time or, being unset itself, with an old date.  *)
Answers == {0, now}

(* Mutant: whatever the server says.                                         *)
IsPlausibleAlways(ts) == ts \in Nat

IsPlausible(ts) == ts >= build

(* sntp_sync_time, the clock not synced yet: the time before is saved, ...   *)
ReceiveFirst(ts) ==
    /\ sntp
    /\ update.place = "idle"
    /\ IsPlausible(ts)
    /\ ~ts_sync_status
    /\ update' = [place |-> "first", ts |-> ts, temp |-> clock, late |-> 0]
    /\ UNCHANGED <<now, image, powered, clock, saved, ts_sync_status, sntp, restart, parted, blind>>

SaveBefore ==
    /\ update.place = "first"
    /\ saved' \in Saved(update.temp)
    /\ update' = [update EXCEPT !.place = "setting"]
    /\ UNCHANGED <<now, image, powered, clock, ts_sync_status, sntp, restart, parted, blind>>

Overtakes == IF restart.place = "no" THEN restart ELSE [restart EXCEPT !.overtaken = TRUE]

(* ... once more by handle_change_to_rtc, which then sets the clock, ...     *)
SetClock ==
    /\ update.place = "setting"
    /\ saved' \in Saved(clock)
    /\ clock' = update.ts
    /\ update' = [update EXCEPT !.place = "set"]
    /\ restart' = Overtakes
    /\ UNCHANGED <<now, image, powered, ts_sync_status, sntp, parted, blind>>

(* Mutant: the time before is saved after the clock was set.                 *)
MarkSyncedSavingBefore ==
    /\ update.place = "set"
    /\ saved' \in Saved(update.temp)
    /\ ts_sync_status' = TRUE
    /\ update' = NoUpdate
    /\ UNCHANGED <<now, image, powered, clock, sntp, restart, parted, blind>>

(* ... and the new time is saved before the clock is marked synced.          *)
MarkSynced ==
    /\ update.place = "set"
    /\ saved' \in Saved(update.ts)
    /\ ts_sync_status' = TRUE
    /\ update' = NoUpdate
    /\ UNCHANGED <<now, image, powered, clock, sntp, restart, parted, blind>>

(* Mutant: the result of handle_change_to_rtc is not looked at.              *)
ChangeFailsUnnoticed ==
    /\ update.place = "setting"
    /\ clock' = update.temp
    /\ saved' \in Saved(update.temp)
    /\ ts_sync_status' = TRUE
    /\ update' = NoUpdate
    /\ UNCHANGED <<now, image, powered, sntp, restart, parted, blind>>

(* Without memory for the second reading the clock is set to the first one.  *)
ChangeFails ==
    /\ update.place = "setting"
    /\ clock' = update.temp
    /\ saved' \in Saved(update.temp)
    /\ update' = NoUpdate
    /\ UNCHANGED <<now, image, powered, ts_sync_status, sntp, restart, parted, blind>>

(* The clock synced already: it is set, and then saved.                      *)
ReceiveAgain(ts) ==
    /\ sntp
    /\ update.place = "idle"
    /\ IsPlausible(ts)
    /\ ts_sync_status
    /\ clock' = ts
    /\ update' = [place |-> "again", ts |-> ts, temp |-> 0, late |-> 0]
    /\ restart' = Overtakes
    /\ UNCHANGED <<now, image, powered, saved, ts_sync_status, sntp, parted, blind>>

SaveAgain ==
    /\ update.place = "again"
    /\ saved' \in Saved(update.ts)
    /\ update' = NoUpdate
    /\ UNCHANGED <<now, image, powered, clock, ts_sync_status, sntp, restart, parted, blind>>

------------------------------------------------------------------------------
(* api_restart_anker: timecontroller_update_last_timestamp reads the clock   *)
(* and then saves what it read.                                              *)

ReadClock ==
    /\ powered
    /\ restart.place = "no"
    /\ restart' = [NoRestart EXCEPT !.place = "saving", !.ts = clock]
    /\ UNCHANGED <<now, image, powered, clock, saved, ts_sync_status, sntp, update, parted, blind>>

SaveLast ==
    /\ restart.place = "saving"
    /\ \/ saved' = restart.ts /\ restart' = [restart EXCEPT !.place = "saved", !.kept = TRUE]
       \/ UNCHANGED saved /\ restart' = [restart EXCEPT !.place = "saved"]
    /\ UNCHANGED <<now, image, powered, clock, ts_sync_status, sntp, update, parted, blind>>

(* The image that boots next may be another one, built by now: the one just  *)
(* installed, for which api_restart_anker is called (updater.cpp:988,        *)
(* hawkbit_client.cpp:1284-1290), or the one before, to which the bootloader *)
(* goes back.                                                                *)
Boot ==
    /\ build' \in {b \in Builds : b <= now}
    /\ oldest' = IF build' < oldest THEN build' ELSE oldest

Off ==
    /\ Boot
    /\ powered' = FALSE
    /\ clock' = 0
    /\ ts_sync_status' = FALSE
    /\ sntp' = FALSE
    /\ update' = NoUpdate
    /\ restart' = NoRestart
    /\ UNCHANGED <<now, saved, blind>>

RestartAnker ==
    /\ restart.place = "saved"
    /\ parted' = IF restart.kept /\ ~restart.overtaken THEN clock ELSE 0
    /\ Off

LosePower ==
    /\ powered
    /\ parted' = 0
    /\ Off

ClockNext ==
    \/ Tick
    \/ InitTimestamp \/ InitTimestampBlind
    \/ StartSntp \/ StopSntp
    \/ \E ts \in Answers : ReceiveFirst(ts) \/ ReceiveAgain(ts)
    \/ SaveBefore \/ SetClock \/ MarkSynced \/ ChangeFails \/ SaveAgain
    \/ ReadClock \/ SaveLast \/ RestartAnker
    \/ LosePower

ClockSpec == ClockInit /\ [][ClockNext]_clockVars

------------------------------------------------------------------------------
(* The type of the state.                                                    *)
Updates ==
    [place : {"idle", "first", "setting", "set", "again"},
     ts : 0 .. MaxTime, temp : 0 .. MaxTime, late : 0 .. Slack]

Restarts ==
    [place : {"no", "saving", "saved"}, ts : 0 .. MaxTime, late : 0 .. Slack,
     overtaken : BOOLEAN, kept : BOOLEAN]

ClockTypeOK ==
    /\ now \in 0 .. MaxTime
    /\ build \in Builds /\ oldest \in Builds
    /\ powered \in BOOLEAN
    /\ clock \in 0 .. MaxTime
    /\ saved \in 0 .. MaxTime \cup {NotSaved}
    /\ ts_sync_status \in BOOLEAN
    /\ sntp \in BOOLEAN
    /\ update \in Updates
    /\ restart \in Restarts
    /\ parted \in 0 .. MaxTime
    /\ blind \in BOOLEAN

(* A clock marked synced is the true time, but for the seconds an update may *)
(* take: whatever fails on the way (core:152-170, 267-272), the mark is set  *)
(* only once the clock is (core:273), and no later update makes it untrue.   *)
SyncedClockIsTrue ==
    ts_sync_status => clock <= now /\ now <= clock + Slack

(* Neither the clock nor the saved time is ever ahead of the true time; a    *)
(* clock marked synced is not before the date of the image that runs, and as *)
(* long as no start found the storage shut, no time is before the date of    *)
(* the oldest image that ran: which a failed update, a start after it, a     *)
(* late save or the restart into another image could make it (253-288,       *)
(* 338-355). A storage that cannot be opened reports a success for what it   *)
(* did not read (nvstorageman.cpp:123-190), and 1970 is taken for the time.  *)
TimesArePlausible ==
    /\ powered => clock <= now
    /\ saved # NotSaved => saved <= now
    /\ ts_sync_status => build <= clock
    /\ ~blind => /\ powered => oldest <= clock
                 /\ saved # NotSaved => oldest <= saved

(* A restart that saves the time (api.cpp:106-109) does not set the clock    *)
(* back, even in the midst of an update, but for the seconds both may take:  *)
(* except when SNTP sets the clock after the restart has read it, for then   *)
(* the time before is saved over the new one (timecontroller.cpp:129-139).   *)
RestartKeepsTheTime ==
    [][~powered /\ powered' /\ ~blind' => parted <= clock' + 2 * Slack]_clockVars

------------------------------------------------------------------------------
(* The inductive invariant.                                                  *)

(* A device that is off runs nothing and shows no time.                      *)
OffIsQuiet ==
    ~powered => /\ clock = 0 /\ ~ts_sync_status /\ ~sntp
                /\ update.place = "idle" /\ restart.place = "no"

(* The image that runs is built by now, and is not older than the oldest.    *)
(* What an update holds is as old as the seconds it has taken: the server's  *)
(* time (core:261-275), and the clock's until it is set (154-160).           *)
UpdateIsRecent ==
    /\ oldest <= build /\ build <= now
    /\ update.place # "idle" => build <= update.ts
    /\ update.place \in {"first", "setting"} =>
           /\ now = update.ts + update.late
           /\ clock = update.temp + update.late
           /\ ~blind => oldest <= update.temp
    /\ update.place \in {"set", "again"} =>
           update.ts <= clock /\ clock <= update.ts + update.late
    /\ update.place = "set" => clock <= now /\ now <= clock + Slack
    /\ ts_sync_status => update.place \in {"idle", "again"}

(* What a restart has read is as old as the seconds it has taken, unless     *)
(* SNTP set the clock since; what is saved then may have been read by an     *)
(* update begun before (timecontroller.cpp:129-139).                         *)
RestartIsRecent ==
    /\ restart.place # "no" =>
           /\ restart.ts <= now
           /\ ~blind => oldest <= restart.ts
           /\ ~restart.overtaken => clock <= restart.ts + restart.late
    /\ restart.kept =>
           /\ restart.place = "saved"
           /\ saved # NotSaved
           /\ ~restart.overtaken => clock <= saved + Slack + restart.late

(* The clock a restart has saved is not lost while the device is off.        *)
PartedIsSaved ==
    ~powered /\ parted # 0 => saved # NotSaved /\ parted <= saved + 2 * Slack

ClockInv ==
    /\ ClockTypeOK
    /\ OffIsQuiet
    /\ SyncedClockIsTrue
    /\ TimesArePlausible
    /\ UpdateIsRecent
    /\ RestartIsRecent
    /\ PartedIsSaved
==============================================================================
