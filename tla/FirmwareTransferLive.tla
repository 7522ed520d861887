------------------------- MODULE FirmwareTransferLive ------------------------
(* The transfer when only finitely many things go wrong: every loss,         *)
(* duplication, late datagram, flash or socket error and restart is taken    *)
(* from a budget, and what goes well keeps happening. The tasks are pinned   *)
(* FreeRTOS tasks that block only in calls with a timeout, so each one's     *)
(* next step is eventually taken (weak fairness per task).                   *)
EXTENDS FirmwareTransfer

CONSTANT MaxFaults  \* how many things may go wrong in one transfer

VARIABLE faults     \* how many did

liveVars == <<vars, faults>>

(* Nothing is on its way, so a round that ends now is not cut short.         *)
Quiet == acks = {} /\ \A p \in Ankers : data[p] = {}

CAnkerGoes ==
    \/ SendChunk
    \/ FinishTransfer
    \/ \E a \in acks : ReceiveAck(a, acks \ {a})
    \/ Quiet /\ RetrieveTimeout
    \/ SkipKicked
    \/ JudgeCorrect
    \/ JudgeFailed
    \/ AllKicked
    \/ RetryChunk
    \/ NextChunk

PAnkerGoes(p) ==
    \/ \E m \in data[p] :
         LET left == data[p] \ {m}
         IN  \/ AckResend(p, m, left)
             \/ m.seq > pSeq[p] /\ RefuseChunk(p, m, left)
             \/ WriteChunk(p, m, left)
             \/ InstallImage(p, m, left)
             \/ ~CanWrite(p) /\ FlashFails(p, m, left)
    \/ RestartInstalled(p, "INSTALLED")
    \/ StartUpdater(p, TRUE, TRUE)
    \/ Rejoin(p, TRUE)

Fault ==
    \/ ReadFails
    \/ SendFails
    \/ \E a \in acks : ReceiveAck(a, acks)
    \/ ~Quiet /\ RetrieveTimeout
    \/ \E p \in Ankers :
         \/ \E m \in data[p] :
              \/ HandlerStep(p, m, data[p])
              \/ m.seq <= pSeq[p] /\ RefuseChunk(p, m, data[p] \ {m})
              \/ CanWrite(p) /\ FlashFails(p, m, data[p] \ {m})
         \/ RestartInstalled(p, status[p])
         \/ \E marked, read \in BOOLEAN :
              ~(marked /\ read) /\ StartUpdater(p, marked, read)
         \/ Rejoin(p, FALSE)
         \/ RestartPolling(p)
         \/ LosePower(p)
    \/ NetworkStep

LiveInit == Init /\ faults = 0

GoesWell(step) == step /\ UNCHANGED faults

LiveNext ==
    \/ GoesWell(CAnkerGoes)
    \/ \E p \in Ankers : GoesWell(PAnkerGoes(p))
    \/ Fault /\ faults < MaxFaults /\ faults' = faults + 1

LiveSpec ==
    /\ LiveInit
    /\ [][LiveNext]_liveVars
    /\ WF_liveVars(GoesWell(CAnkerGoes))
    /\ \A p \in Ankers : WF_liveVars(GoesWell(PAnkerGoes(p)))

------------------------------------------------------------------------------
(* With finitely many faults the transfer ends, in success or in failure,    *)
(* unless kicking left an Anker where the judging loop does not look         *)
(* (updater.cpp:530-635).                                                    *)
EndsUnlessStranded == <>(Over \/ Stranded)
==============================================================================
