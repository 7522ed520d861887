--------------------------- MODULE FirmwareRollout ---------------------------
(* What a firmware rollout from the C-Anker to the P-Ankers promises,        *)
(* whatever the network, the flash or the power does. An Anker boots its old *)
(* firmware or the complete new one, which is on trial until it is marked    *)
(* valid: only then it is there to stay, before that the bootloader may go   *)
(* back. An Anker that was given up stays given up, and the C-Anker reports  *)
(* success only if somebody is left and everybody left has been set to boot  *)
(* the new firmware.                                                         *)
EXTENDS Naturals

CONSTANTS NumListed,  \* P-Ankers the C-Anker counts on (its list)
          NumAnkers   \* P-Ankers that hear the broadcasts, the listed ones first

VARIABLES firmware,  \* firmware[p]: what Anker p boots: "old", "trial", "new", or
                     \* "reverted", the old firmware after a trial
          kicked,    \* listed Ankers given up
          outcome    \* what the C-Anker knows of the rollout

vars == <<firmware, kicked, outcome>>

Ankers == 1..NumAnkers
Listed == 1..NumListed

Init ==
    /\ firmware = [p \in Ankers |-> "old"]
    /\ kicked = {}
    /\ outcome = "running"

Install(p) ==
    /\ firmware' = [firmware EXCEPT ![p] = "trial"]
    /\ UNCHANGED <<kicked, outcome>>

Verify(p) ==
    /\ firmware[p] = "trial"
    /\ firmware' = [firmware EXCEPT ![p] = "new"]
    /\ UNCHANGED <<kicked, outcome>>

Revert(p) ==
    /\ firmware[p] = "trial"
    /\ firmware' = [firmware EXCEPT ![p] = "reverted"]
    /\ UNCHANGED <<kicked, outcome>>

Kick(p) ==
    /\ outcome = "running"
    /\ kicked' = kicked \cup {p}
    /\ UNCHANGED <<firmware, outcome>>

Succeed ==
    /\ outcome = "running"
    /\ Listed \ kicked # {}
    /\ \A p \in Listed \ kicked : firmware[p] # "old"
    /\ outcome' = "done"
    /\ UNCHANGED <<firmware, kicked>>

Abort ==
    /\ outcome = "running"
    /\ outcome' = "failed"
    /\ UNCHANGED <<firmware, kicked>>

Next ==
    \/ \E p \in Ankers : Install(p) \/ Verify(p) \/ Revert(p)
    \/ \E p \in Listed : Kick(p)
    \/ Succeed
    \/ Abort

Spec == Init /\ [][Next]_vars
==============================================================================
