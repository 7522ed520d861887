----------------------------- MODULE UpdateSession ---------------------------
(* The session in which a C-Anker updates the P-Ankers around it:            *)
(* handle_p_anker_updates with the rounds of communicate_with_p_ankers for   *)
(* discovery, joining and confirmation (updater.cpp:206-279, 282-358,        *)
(* 412-501, 643-702, 1154-1256). The transfer between them is what           *)
(* FirmwareTransfer implements, the rollout. Datagrams may be lost in every  *)
(* round, an Anker may lose its network at any time, and the session may end *)
(* at any exit of the code.                                                  *)
EXTENDS Naturals, FiniteSets

CONSTANTS
    NumAnkers,       \* P-Ankers in reach
    MaxToUpdate,     \* MAX_P_ANKER_TO_UPDATE
    DiscoverRounds,  \* SET_P_ANKER_INTO_AP_MODE_MAX_RETRIES
    ApRetries,       \* MAX_AP_CREATE_RETRIES
    JoinRounds,      \* MAX_AP_JOINED_ACK_GET_RETRIES
    ConfirmRounds    \* MAX_RETRIES_ACKS_UPDATED_P_ANKERS

ASSUME SessionAssumption ==
    /\ NumAnkers \in Nat
    /\ {MaxToUpdate, DiscoverRounds, ApRetries, JoinRounds, ConfirmRounds} \subseteq Nat \ {0}

VARIABLES
    \* the C-Anker's hawkBit task
    pc,           \* where the session is
    round,        \* the counter of its current loop
    found,        \* p_ankers, the answers of the last discovery round
    toInvite,     \* those the loop over them has not come to
    numAcked,     \* num_acknowledged
    joined,       \* joined_p_ankers, the answers of the last joining round
    dropped,      \* Ankers not on that list, or kicked from it
    outcome,      \* of the transfer
    stranded,     \* one is left that the transfer no longer looks at (579)
    confirmed,    \* p_ankers[i]->acknowledged in the confirmation
    numAnswered, numCorrect,
    filled,       \* slots of ack_p_ankers that were ever written
    ap,           \* its access point: "closed", "asked" for, "open"
    cnt,          \* what the caller is told
    \* the P-Ankers
    at,           \* "home", "invited", on the "ap", "leaving" it, "starting"
    firmware,     \* what it boots, as FirmwareRollout has it
    \* the network
    inbox,        \* confirmations on their way
    \* history
    heard,        \* Ankers counted in numAnswered
    again         \* one of them was counted twice

listVars == <<found, toInvite, numAcked, joined>>
confirmVars == <<confirmed, numAnswered, numCorrect, filled, heard, again>>
cVars == <<pc, round, cnt, listVars, confirmVars, ap>>
rolloutVars == <<firmware, dropped, outcome>>
transferVars == <<rolloutVars, stranded>>
vars == <<cVars, transferVars, at, inbox>>

Ankers == 1..NumAnkers

Rollout == INSTANCE FirmwareRollout WITH NumListed <- NumAnkers, kicked <- dropped

Remaining == joined \ dropped

RunsNew(a) == firmware[a] \in {"trial", "new"}

(* The access point may be open since an earlier session.                    *)
Init ==
    /\ pc = "discover"
    /\ round = 0
    /\ found = {} /\ toInvite = {} /\ joined = {}
    /\ numAcked = 0
    /\ dropped = {}
    /\ outcome = "running"
    /\ confirmed = {}
    /\ numAnswered = 0 /\ numCorrect = 0 /\ filled = 0
    /\ ap \in {"closed", "open"}
    /\ cnt = [to_update |-> 0, joined |-> 0, updated |-> 0]
    /\ at = [a \in Ankers |-> "home"]
    /\ firmware = [a \in Ankers |-> "old"]
    /\ stranded = FALSE
    /\ inbox = {}
    /\ heard = {} /\ again = FALSE

------------------------------------------------------------------------------
(* Mutant: the round takes every answer.                                     *)
AnswersUnbounded(place, max) ==
    SUBSET {a \in Ankers : at[a] = place /\ ~RunsNew(a)}

(* What a round of GET_VERSION pings brings: any of the Ankers that poll on  *)
(* the network and have another version, up to the number asked for.         *)
Answers(place, max) ==
    {got \in SUBSET {a \in Ankers : at[a] = place /\ ~RunsNew(a)} :
        Cardinality(got) <= max}

(* Every round starts a new list.                                            *)
Discover ==
    /\ pc = "discover"
    /\ \E got \in Answers("home", MaxToUpdate) :
         /\ found' = got
         /\ toInvite' = got
         /\ pc' = IF Cardinality(got) = MaxToUpdate \/ round + 1 = DiscoverRounds
                  THEN "invite" ELSE "discover"
    /\ round' = round + 1
    /\ UNCHANGED <<numAcked, joined, cnt, confirmVars, ap, transferVars, at, inbox>>

(* send_update_ping_info_direct: not connected or not heard, acknowledged,   *)
(* or the Anker goes and its acknowledgement is lost.                        *)
Invite(a) ==
    /\ pc = "invite"
    /\ a \in toInvite
    /\ toInvite' = toInvite \ {a}
    /\ \/ UNCHANGED <<at, numAcked>>
       \/ /\ at[a] = "home"
          /\ at' = [at EXCEPT ![a] = "invited"]
          /\ numAcked' \in {numAcked, numAcked + 1}
    /\ UNCHANGED <<pc, round, found, joined, cnt, confirmVars, ap, transferVars, inbox>>


InvitedAll == toInvite = {}

(* The exit of handle_p_anker_updates. If the access point was opened the    *)
(* C-Anker goes back to the default network, and the access point restarts   *)
(* under the same name (see Wifi): whom that throws off may GoHome.          *)
Finish(result) == pc' = result

EndInvite ==
    /\ pc = "invite"
    /\ InvitedAll
    /\ round' = 0
    /\ IF numAcked = 0
       THEN Finish("failed") /\ UNCHANGED cnt
       ELSE /\ pc' = "open"
            /\ cnt' = [cnt EXCEPT !.to_update = Cardinality(found)]
    /\ UNCHANGED <<listVars, confirmVars, ap, transferVars, at, inbox>>

OpenAp ==
    /\ pc = "open"
    /\ pc' = "join"
    /\ round' = 0
    /\ ap' = "open"
    /\ UNCHANGED <<listVars, cnt, confirmVars, transferVars, at, inbox>>

(* The request is refused, or not answered in time and stays with the WiFi   *)
(* task, which may carry it out later.                                       *)
OpenApFails ==
    /\ pc = "open"
    /\ round' = round + 1
    /\ pc' = IF round + 1 = ApRetries THEN "failed" ELSE pc
    /\ ap' \in IF ap = "closed" THEN {"closed", "asked"} ELSE {ap}
    /\ UNCHANGED <<listVars, cnt, confirmVars, transferVars, at, inbox>>

OpensLate ==
    /\ ap = "asked"
    /\ ap' = "open"
    /\ UNCHANGED <<pc, round, cnt, listVars, confirmVars, transferVars, at, inbox>>

JoinRound ==
    /\ pc = "join"
    /\ round' = round + 1
    /\ \E got \in Answers("ap", numAcked) :
         /\ joined' = got
         /\ \/ /\ Cardinality(got) < numAcked /\ round + 1 < JoinRounds
               /\ UNCHANGED <<pc, cnt, dropped>>
            \/ /\ Cardinality(got) = numAcked \/ round + 1 = JoinRounds
               /\ got # {}
               /\ pc' = "transfer"
               /\ cnt' = [cnt EXCEPT !.joined = Cardinality(got)]
               /\ dropped' = Ankers \ got
            \/ /\ got = {} /\ round + 1 = JoinRounds
               /\ Finish("failed")
               /\ UNCHANGED <<cnt, dropped>>
    /\ UNCHANGED <<found, toInvite, numAcked, confirmVars, ap, firmware, outcome,
                   stranded, at, inbox>>

------------------------------------------------------------------------------
(* The transfer, as FirmwareRollout has it. Kicking one may strand another,  *)
(* and with it the transfer (FirmwareTransfer): it may still fail.           *)

Kick(a) ==
    /\ pc = "transfer"
    /\ a \in Remaining
    /\ Rollout!Kick(a)
    /\ IF Remaining = {a} THEN ~stranded /\ UNCHANGED stranded
       ELSE stranded' \in {stranded, TRUE}
    /\ UNCHANGED <<cVars, at, inbox>>

(* The clean-up frees a slot for each Anker that joined. If one was kicked,  *)
(* there may be one that no round filled, and freeing it may end in a        *)
(* restart.                                                                  *)
TransferSucceeds ==
    /\ pc = "transfer"
    /\ ~stranded
    /\ Rollout!Succeed
    /\ round' = 0
    /\ numAcked' = Cardinality(Remaining)
    /\ \/ pc' = "confirm"
       \/ Remaining # joined /\ Finish("crashed")
    /\ UNCHANGED <<found, toInvite, joined, cnt, confirmVars, ap, stranded, at, inbox>>

TransferFails ==
    /\ pc = "transfer"
    /\ Rollout!Abort
    /\ Finish("failed")
    /\ UNCHANGED <<round, listVars, cnt, confirmVars, ap, stranded, at, inbox>>

------------------------------------------------------------------------------
(* The confirmation.                                                         *)

Confirms(got, a) == [from |-> a, ok |-> TRUE] \in got

From(got) == {m.from : m \in got}

(* One answer of an Anker is taken in a round, of as many Ankers as joined;  *)
(* the others stay in the socket or are dropped.                             *)
Retrieved ==
    {got \in SUBSET inbox :
        Cardinality(From(got)) = Cardinality(got) /\ Cardinality(got) <= Cardinality(joined)}

(* Mutant: the kicked are counted.                                           *)
CountedKicked(got) == (joined \ confirmed) \cap From(got)

(* Ankers that are still asked about and answered in this round.             *)
Counted(got) == (Remaining \ confirmed) \cap From(got)

EndConfirm(correct, slots) ==
    \/ /\ Finish("done")
       /\ cnt' = [cnt EXCEPT !.updated = correct]
    \/ /\ slots < Cardinality(joined)
       /\ Finish("crashed")
       /\ UNCHANGED cnt

(* Slots of ack_p_ankers no round has filled are freed all the same.         *)
ConfirmRound ==
    /\ pc = "confirm"
    /\ \E got \in Retrieved :
         LET ok == {a \in Counted(got) : Confirms(got, a)}
             answered == numAnswered + Cardinality(Counted(got))
             slots == IF Cardinality(got) > filled THEN Cardinality(got) ELSE filled
         IN  /\ confirmed' = confirmed \cup ok
             /\ numAnswered' = answered
             /\ numCorrect' = numCorrect + Cardinality(ok)
             /\ filled' = slots
             /\ again' = (again \/ heard \cap Counted(got) # {})
             /\ heard' = heard \cup Counted(got)
             /\ inbox' \in {inbox \ got, {}}
             /\ IF answered = numAcked \/ round + 1 = ConfirmRounds
                THEN EndConfirm(numCorrect + Cardinality(ok), slots)
                ELSE UNCHANGED <<pc, cnt>>
    /\ round' = round + 1
    /\ UNCHANGED <<listVars, ap, transferVars, at>>

(* communicate_with_p_ankers gets no socket.                                 *)
ConfirmFails ==
    /\ pc = "confirm"
    /\ round = 0
    /\ Finish("failed")
    /\ UNCHANGED <<round, cnt, listVars, confirmVars, ap, transferVars, at, inbox>>

------------------------------------------------------------------------------
(* The P-Ankers.                                                             *)

Move(a, from, to) == at[a] = from /\ at' = [at EXCEPT ![a] = to]

Join(a) ==
    /\ ap = "open"
    /\ Move(a, "invited", "ap")
    /\ UNCHANGED <<cVars, transferVars, inbox>>

(* The whole image is set to boot, and an Anker restarts into it.            *)
Install(a) ==
    /\ pc = "transfer"
    /\ ~RunsNew(a)
    /\ Move(a, "ap", "starting")
    /\ Rollout!Install(a)
    /\ UNCHANGED <<cVars, stranded, inbox>>

(* It loses power, or an image on trial does not start: the bootloader goes  *)
(* back to the old one unless the new one was marked valid.                  *)
Restart(a) ==
    /\ at' = [at EXCEPT ![a] = "starting"]
    /\ IF firmware[a] = "trial" THEN Rollout!Revert(a) ELSE UNCHANGED rolloutVars
    /\ UNCHANGED <<cVars, stranded, inbox>>

(* An image that runs on trial is marked valid.                              *)
Mark(a) == IF firmware[a] = "trial" THEN Rollout!Verify(a) ELSE UNCHANGED rolloutVars

(* updater_start at the first address of the default network marks the image *)
(* that runs valid, which may fail; then the Anker goes to the access point  *)
(* if its update.stat says INSTALLED, whatever it runs. The file is not      *)
(* state: it may not have been saved, and not have been erased.              *)
Start(a) ==
    /\ at[a] = "starting"
    /\ at' \in {[at EXCEPT ![a] = place] : place \in {"home", "invited"}}
    /\ Mark(a) \/ UNCHANGED rolloutVars
    /\ UNCHANGED <<cVars, stranded, inbox>>

Send(a, ok) == inbox' \in {inbox, inbox \cup {[from |-> a, ok |-> ok]}}

(* Mutant: an image that could not be marked valid is confirmed.             *)
VouchUnmarked(a) ==
    \/ Send(a, FALSE) /\ UNCHANGED rolloutVars
    \/ Send(a, RunsNew(a)) /\ (Mark(a) \/ UNCHANGED rolloutVars)

(* Its running image is valid, can be marked so now, or there is an error.   *)
(* An old one is answered for with its version, which the C-Anker compares.  *)
Vouch(a) ==
    \/ Send(a, FALSE) /\ UNCHANGED rolloutVars
    \/ Send(a, RunsNew(a)) /\ Mark(a)

(* GET_UPDATE_VERSION_ACK: it answers once and leaves for the default        *)
(* network.                                                                  *)
Confirm(a) ==
    /\ pc = "confirm"
    /\ Move(a, "ap", "leaving")
    /\ Vouch(a)
    /\ UNCHANGED <<cVars, stranded>>

(* Before it has left it gets an address of the access point once more,      *)
(* which starts its polling again.                                           *)
StayOn(a) ==
    /\ ap = "open"
    /\ Move(a, "leaving", "ap")
    /\ UNCHANGED <<cVars, transferVars, inbox>>

(* It leaves, is thrown off, or does not find the access point.              *)
GoHome(a) ==
    /\ at[a] \in {"invited", "ap", "leaving"}
    /\ at' = [at EXCEPT ![a] = "home"]
    /\ UNCHANGED <<cVars, transferVars, inbox>>

CAnkerNext ==
    \/ Discover \/ EndInvite \/ OpenAp \/ OpenApFails \/ JoinRound
    \/ ConfirmRound \/ ConfirmFails
    \/ \E a \in Ankers : Invite(a)

Next ==
    \/ CAnkerNext
    \/ OpensLate
    \/ TransferSucceeds \/ TransferFails
    \/ \E a \in Ankers : \/ Kick(a)
                         \/ Join(a) \/ Install(a) \/ Restart(a) \/ Start(a)
                         \/ Confirm(a) \/ StayOn(a) \/ GoHome(a)

(* The C-Anker's loops run on, and the transfer ends unless it is stranded   *)
(* (FirmwareTransferLive).                                                   *)
Spec ==
    /\ Init
    /\ [][Next]_vars
    /\ WF_vars(CAnkerNext)
    /\ WF_vars(~stranded /\ (TransferSucceeds \/ TransferFails))

------------------------------------------------------------------------------
(* The type of the state.                                                    *)
TypeOK ==
    /\ pc \in {"discover", "invite", "open", "join", "transfer", "confirm",
                "done", "failed", "crashed"}
    /\ round \in Nat
    /\ found \subseteq Ankers /\ toInvite \subseteq found
    /\ numAcked \in 0..MaxToUpdate
    /\ joined \subseteq Ankers /\ dropped \subseteq Ankers
    /\ outcome \in {"running", "done", "failed"}
    /\ confirmed \subseteq joined
    /\ numAnswered \in Nat /\ numCorrect \in 0..MaxToUpdate /\ filled \in 0..MaxToUpdate
    /\ ap \in {"closed", "asked", "open"}
    /\ cnt \in [to_update : 0..MaxToUpdate, joined : 0..MaxToUpdate, updated : 0..MaxToUpdate]
    /\ at \in [Ankers -> {"home", "invited", "ap", "leaving", "starting"}]
    /\ firmware \in [Ankers -> {"old", "trial", "new", "reverted"}]
    /\ stranded \in BOOLEAN
    /\ inbox \subseteq [from : Ankers, ok : BOOLEAN]
    /\ heard \subseteq joined /\ again \in BOOLEAN

(* What the caller reports to the server, cnt_to_update, cnt_joined and      *)
(* cnt_updated of handle_p_anker_updates: no Anker is reported as updated    *)
(* unless it joined, was not kicked and runs the new firmware, which it can  *)
(* no longer lose; and each count is part of the one before.                 *)
CountsAreTrue ==
    /\ cnt.updated <= cnt.joined
    /\ cnt.joined <= cnt.to_update
    /\ cnt.updated <= Cardinality({a \in Remaining : firmware[a] = "new"})

(* The confirmation is cut short (num_answered == *num_acknowledged) only if *)
(* every Anker left has been heard: nobody's answer is missed because        *)
(* somebody else's was counted for it, unless an Anker answered twice, which *)
(* the code counts twice when the first answer was a failure.                *)
EndsEarlyOnlyIfAllAnswered ==
    pc = "done" /\ round < ConfirmRounds => Remaining \subseteq heard \/ again


------------------------------------------------------------------------------
(* The inductive invariant.                                                  *)

Over == {"confirm", "done", "failed", "crashed"}

(* Each list is part of the one before. Before the transfer num_acknowledged *)
(* counts the Ankers invited, after it those still on the list.              *)
ListsShrink ==
    /\ Cardinality(found) <= MaxToUpdate
    /\ numAcked + Cardinality(toInvite) <= Cardinality(found)
    /\ Cardinality(joined) <= MaxToUpdate
    /\ pc = "discover" => numAcked = 0
    /\ pc \notin Over => Cardinality(joined) <= numAcked
    /\ pc = "confirm" => numAcked = Cardinality(Remaining)

(* Only an Anker whose new image is there to stay is confirmed.              *)
ConfirmedIsValid ==
    /\ \A m \in inbox : m.ok => firmware[m.from] = "new"
    /\ \A a \in confirmed : firmware[a] = "new"

(* The confirmation counts Ankers that are left.                             *)
AnswersAreCounted ==
    /\ pc \notin Over => confirmed = {} /\ heard = {} /\ numAnswered = 0
    /\ confirmed \subseteq Remaining
    /\ heard \subseteq Remaining
    /\ numCorrect = Cardinality(confirmed)
    /\ again \/ numAnswered = Cardinality(heard)

(* What the caller is told is what the lists were when they were complete.   *)
CountsAreOfLists ==
    /\ cnt.updated <= cnt.joined
    /\ cnt.joined <= cnt.to_update
    /\ cnt.updated <= Cardinality(confirmed)
    /\ pc # "done" => cnt.updated = 0
    /\ pc \in {"discover", "invite", "open", "join"} => cnt.joined = 0
    /\ pc \in {"transfer", "confirm"} => cnt.joined = Cardinality(joined)
    /\ pc \in {"open", "join", "transfer", "confirm"} =>
           cnt.to_update = Cardinality(found)

SessionInv ==
    /\ TypeOK
    /\ ListsShrink
    /\ ConfirmedIsValid
    /\ AnswersAreCounted
    /\ CountsAreOfLists
    /\ EndsEarlyOnlyIfAllAnswered

==============================================================================
