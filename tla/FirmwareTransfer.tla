--------------------------- MODULE FirmwareTransfer --------------------------
(* The firmware transfer of updater.cpp: the C-Anker's SEND_UPDATE_FILE loop *)
(* with the retrieval of acknowledgements, the firmware branch of the        *)
(* P-Anker's UDP task, and the restarts of a P-Anker around it, over a UDP   *)
(* network that loses, duplicates, delays and reorders.                      *)
(* Serials are list indices: the C-Anker's list is 1..NumListed (the code's  *)
(* p_ankers[0..]), and Ankers NumListed+1..NumAnkers sit on the C-Anker's AP *)
(* without being on its list (they missed the join round).                   *)
EXTENDS Naturals, Sequences, FiniteSets

CONSTANTS
    NumListed,       \* *num_p_ankers, at most MAX_P_ANKER_TO_UPDATE
    NumAnkers,       \* all P-Ankers on the access point
    PartitionSize,   \* running_partition->size
    DataMaxLen,      \* DATA_MAX_LEN
    MaxReadFails,    \* MAX_PARTITION_READ_FAILS
    MaxSendFails,    \* MAX_SEND_FIRMWARE_BROADCAST_FAILS
    MaxAllAcksFails, \* MAX_RETRIEVE_FIRMWARE_ALL_ACKS_FAILS
    MaxFailsToKick,  \* MAX_RETRIEVE_FIRMWARE_ACKS_FAILS_TO_KICK_ANKER
    AckMailbox,      \* datagrams the C-Anker's socket queues before it drops
    DataMailbox      \* datagrams a P-Anker's socket queues before it drops

(* partition.csv gives 0x100000 bytes to each app partition and 1400 does    *)
(* not divide that: were the size a multiple, is_last would never be set.    *)
ASSUME TransferAssumption ==
    /\ NumListed \in Nat \ {0}
    /\ NumAnkers \in Nat
    /\ NumListed <= NumAnkers
    /\ PartitionSize \in Nat \ {0}
    /\ DataMaxLen \in Nat \ {0}
    /\ \A s \in 0..PartitionSize : s * DataMaxLen # PartitionSize
    /\ MaxReadFails \in Nat
    /\ MaxSendFails \in Nat
    /\ MaxAllAcksFails \in Nat
    /\ MaxFailsToKick \in Nat \ {0}
    /\ AckMailbox \in Nat
    /\ DataMailbox \in Nat

VARIABLES
    \* the C-Anker's hawkbit task, in communicate_with_p_ankers
    pc,            \* where the loop is: "send", "collect", "judge", "done", "failed"
    offset, seq,
    readFails, sendFails, allAcksFails,
    failCnt,       \* p_ankers[i]->fail_cnt
    remaining,     \* num_remaining_p_ankers
    answer,        \* ack_p_ankers: what each serial answered in this round
    i,             \* the index of the judging loop
    numCorrect,    \* num_correct_answered
    \* the P-Ankers
    mode,          \* "polling", "installing", "booting", "joining", "offline"
    pSeq,          \* the UDP task's seq
    ota,           \* update_handle: "none", "open", "ended"
    image,         \* pieces written to the next update partition
    bootImage,     \* pieces of the partition set as boot, <<>> for the old firmware
    otaState,      \* of the boot image: "valid", "new", or "pending" once it has run
    fallback,      \* what the bootloader goes back to
    reverted,      \* history: Ankers whose bootloader has gone back
    status,        \* the file update.stat: "INSTALLED", or "other" (or no file)
    \* the network
    data,          \* data[p]: firmware datagrams on their way to p
    acks           \* acknowledgements on their way to the C-Anker

cVars == <<pc, offset, seq, readFails, sendFails, allAcksFails, failCnt,
           remaining, answer, i, numCorrect>>
bootVars == <<bootImage, otaState, fallback, reverted>>
pVars == <<mode, pSeq, ota, image, bootVars, status>>
netVars == <<data, acks>>
vars == <<cVars, pVars, netVars>>

Ankers == 1..NumAnkers
Listed == 1..NumListed

------------------------------------------------------------------------------
(* Chunks, messages and images. A piece of firmware is known by its place in *)
(* the partition.                                                            *)

IsLastAt(off) == off + DataMaxLen > PartitionSize

LenAt(off) == IF IsLastAt(off) THEN PartitionSize - off ELSE DataMaxLen

Chunk == [seq |-> seq, offset |-> offset, len |-> LenAt(offset),
          last |-> IsLastAt(offset)]

Piece(m) == [offset |-> m.offset, len |-> m.len]

(* The image is the firmware's first pieces, without hole or repetition.     *)
IsPrefixImage(img) ==
    \A k \in 1..Len(img) : /\ img[k].offset = (k - 1) * DataMaxLen
                           /\ img[k].len = LenAt(img[k].offset)

IsComplete(img) ==
    /\ img # <<>>
    /\ IsPrefixImage(img)
    /\ IsLastAt(img[Len(img)].offset)

(* ACK_TYPE_RCVD_BINARY_DATA and ACK_TYPE_GENERAL_ERROR; "OTHER" stands for  *)
(* SEQ_ERROR, HASH_ERROR and a late VERSION, which the C-Anker treats alike. *)
(* It reads the sequence number of RCVD only; the others carry 0 here.       *)
AckTypes == {"RCVD", "GENERAL_ERROR", "OTHER"}

AckMsg(p, type, s) == [from |-> p, type |-> type, seq |-> s]

Deliver(box, m, size) == IF Cardinality(box) < size THEN box \cup {m} ELSE box

(* communicate_with_p_ankers has returned: its acknowledgement socket is     *)
(* closed.                                                                   *)
Over == pc \in {"done", "failed"}

SendAck(p, type, s) ==
    acks' = IF Over THEN {} ELSE Deliver(acks, AckMsg(p, type, s), AckMailbox)

StopTransfer(result) ==
    /\ pc' = result
    /\ acks' = {}

------------------------------------------------------------------------------
TypeOK ==
    /\ pc \in {"send", "collect", "judge", "done", "failed"}
    /\ offset \in 0..PartitionSize
    /\ seq \in Nat
    /\ readFails \in 0..MaxReadFails
    /\ sendFails \in 0..MaxSendFails
    /\ allAcksFails \in 0..MaxAllAcksFails
    /\ failCnt \in [Listed -> 0..MaxFailsToKick]
    /\ remaining \in 0..NumListed
    /\ answer \in [Ankers -> {"none", "ok", "error"}]
    /\ i \in 1..(NumListed + 1)
    /\ numCorrect \in Nat
    /\ mode \in [Ankers -> {"polling", "installing", "booting", "joining", "offline"}]
    /\ pSeq \in [Ankers -> Nat]
    /\ ota \in [Ankers -> {"none", "open", "ended"}]
    /\ image \in [Ankers -> Seq([offset : Nat, len : Nat])]
    /\ bootImage \in [Ankers -> Seq([offset : Nat, len : Nat])]
    /\ otaState \in [Ankers -> {"valid", "new", "pending"}]
    /\ fallback \in [Ankers -> Seq([offset : Nat, len : Nat])]
    /\ reverted \subseteq Ankers
    /\ status \in [Ankers -> {"other", "INSTALLED"}]
    /\ data \in [Ankers -> SUBSET [seq : Nat, offset : Nat, len : Nat, last : BOOLEAN]]
    /\ acks \subseteq [from : Ankers, type : AckTypes, seq : Nat]

(* An answer to a late GET_VERSION ping of the join rounds may already be in *)
(* flight when the transfer opens its socket on the same port.               *)
Init ==
    /\ pc = "send"
    /\ offset = 0
    /\ seq = 0
    /\ readFails = 0
    /\ sendFails = 0
    /\ allAcksFails = 0
    /\ failCnt = [p \in Listed |-> 0]
    /\ remaining = NumListed
    /\ answer = [p \in Ankers |-> "none"]
    /\ i = 1
    /\ numCorrect = 0
    /\ mode = [p \in Ankers |-> "polling"]
    /\ pSeq = [p \in Ankers |-> 0]
    /\ ota = [p \in Ankers |-> "none"]
    /\ image = [p \in Ankers |-> <<>>]
    /\ bootImage = [p \in Ankers |-> <<>>]
    /\ otaState = [p \in Ankers |-> "valid"]
    /\ fallback = [p \in Ankers |-> <<>>]
    /\ reverted = {}
    /\ status = [p \in Ankers |-> "other"]
    /\ data = [p \in Ankers |-> {}]
    /\ acks \in {{AckMsg(p, "OTHER", 0) : p \in late} : late \in SUBSET Ankers}

------------------------------------------------------------------------------
(* The C-Anker's loop: read, broadcast.                                      *)

ReadFails ==
    /\ pc = "send"
    /\ offset < PartitionSize
    /\ IF readFails < MaxReadFails
         THEN readFails' = readFails + 1 /\ UNCHANGED <<pc, acks>>
         ELSE StopTransfer("failed") /\ UNCHANGED readFails
    /\ UNCHANGED <<offset, seq, sendFails, allAcksFails, failCnt, remaining,
                   answer, i, numCorrect, pVars, data>>

SendFails ==
    /\ pc = "send"
    /\ offset < PartitionSize
    /\ readFails' = 0
    /\ IF sendFails < MaxSendFails
         THEN sendFails' = sendFails + 1 /\ UNCHANGED <<pc, acks>>
         ELSE StopTransfer("failed") /\ UNCHANGED sendFails
    /\ UNCHANGED <<offset, seq, allAcksFails, failCnt, remaining, answer, i,
                   numCorrect, pVars, data>>

(* The broadcast reaches the sockets of the Ankers that poll; the retrieval  *)
(* of its acknowledgements starts from an empty list.                        *)
SendChunk ==
    /\ pc = "send"
    /\ offset < PartitionSize
    /\ pc' = "collect"
    /\ readFails' = 0
    /\ sendFails' = 0
    /\ answer' = [p \in Ankers |-> "none"]
    /\ data' = [p \in Ankers |-> IF mode[p] = "polling"
                                   THEN Deliver(data[p], Chunk, DataMailbox)
                                   ELSE data[p]]
    /\ UNCHANGED <<offset, seq, allAcksFails, failCnt, remaining, i,
                   numCorrect, pVars, acks>>

FinishTransfer ==
    /\ pc = "send"
    /\ offset >= PartitionSize
    /\ StopTransfer("done")
    /\ UNCHANGED <<offset, seq, readFails, sendFails, allAcksFails, failCnt,
                   remaining, answer, i, numCorrect, pVars, data>>

------------------------------------------------------------------------------
(* retrieve_update_ping_ack for firmware data, and what the loop makes of an *)
(* empty list.                                                               *)

Answered(got) == {p \in Ankers : got[p] # "none"}

EndRetrieve(got, left) ==
    /\ answer' = got
    /\ IF Answered(got) # {}
         THEN /\ pc' = "judge"
              /\ allAcksFails' = 0
              /\ acks' = left
         ELSE IF allAcksFails < MaxAllAcksFails
         THEN /\ pc' = "send"
              /\ allAcksFails' = allAcksFails + 1
              /\ acks' = left
         ELSE /\ StopTransfer("failed")
              /\ UNCHANGED allAcksFails

KeepCollecting(got, left) ==
    /\ answer' = got
    /\ acks' = left
    /\ UNCHANGED <<pc, allAcksFails>>

Verdict(a) == IF a.type = "RCVD" THEN "ok" ELSE "error"

(* Mutant: an acknowledgement of an earlier chunk counts.                    *)
NeverOutdated(a) == FALSE

IsOutdated(a) == a.type = "RCVD" /\ a.seq # seq

(* One recvfrom: an acknowledgement of an Anker already in the list or of    *)
(* another chunk is skipped, one of another type ends the round, any other   *)
(* is entered, and the round ends when as many as remain have answered.      *)
ReceiveAck(a, left) ==
    /\ pc = "collect"
    /\ a \in acks
    /\ left \in {acks, acks \ {a}}
    /\ LET got == [answer EXCEPT ![a.from] = Verdict(a)]
       IN  \/ /\ answer[a.from] # "none" \/ IsOutdated(a)
              /\ KeepCollecting(answer, left)
           \/ /\ answer[a.from] = "none"
              /\ a.type = "OTHER"
              /\ EndRetrieve(answer, left)
           \/ /\ answer[a.from] = "none"
              /\ a.type # "OTHER"
              /\ ~IsOutdated(a)
              /\ IF Cardinality(Answered(got)) = remaining
                   THEN EndRetrieve(got, left)
                   ELSE KeepCollecting(got, left)
    /\ UNCHANGED <<offset, seq, readFails, sendFails, failCnt, remaining, i,
                   numCorrect, pVars, data>>

(* The round's second is over, whatever is still in flight.                  *)
RetrieveTimeout ==
    /\ pc = "collect"
    /\ EndRetrieve(answer, acks)
    /\ UNCHANGED <<offset, seq, readFails, sendFails, failCnt, remaining, i,
                   numCorrect, pVars, data>>

------------------------------------------------------------------------------
(* The judging loop, one Anker of the list per step. Its bound is the number *)
(* of Ankers that remain, which kicking lowers. The round's answers and the  *)
(* loop's counters are dead once the round is over; they are reset there.    *)

IsKicked(p) == failCnt[p] >= MaxFailsToKick

Unkicked == {p \in Listed : ~IsKicked(p)}

SkipKicked ==
    /\ pc = "judge"
    /\ i <= remaining
    /\ IsKicked(i)
    /\ i' = i + 1
    /\ UNCHANGED <<pc, offset, seq, readFails, sendFails, allAcksFails,
                   failCnt, remaining, answer, numCorrect, pVars, netVars>>

(* Mutant: the judging loop does not skip kicked Ankers.                     *)
JudgeCorrectUnkicks ==
    /\ pc = "judge"
    /\ i <= remaining
    /\ answer[i] = "ok"
    /\ numCorrect' = numCorrect + 1
    /\ failCnt' = [failCnt EXCEPT ![i] = 0]
    /\ i' = i + 1
    /\ UNCHANGED <<pc, offset, seq, readFails, sendFails, allAcksFails,
                   remaining, answer, pVars, netVars>>

JudgeCorrect ==
    /\ pc = "judge"
    /\ i <= remaining
    /\ ~IsKicked(i)
    /\ answer[i] = "ok"
    /\ numCorrect' = numCorrect + 1
    /\ failCnt' = [failCnt EXCEPT ![i] = 0]
    /\ i' = i + 1
    /\ UNCHANGED <<pc, offset, seq, readFails, sendFails, allAcksFails,
                   remaining, answer, pVars, netVars>>

(* Mutant: a missing answer is not a failure.                                *)
JudgeFailedForgiving ==
    /\ pc = "judge"
    /\ i <= remaining
    /\ ~IsKicked(i)
    /\ answer[i] # "ok"
    /\ failCnt' = [failCnt EXCEPT ![i] = IF answer[i] = "error" THEN @ + 1 ELSE @]
    /\ remaining' = IF failCnt'[i] < MaxFailsToKick THEN remaining ELSE remaining - 1
    /\ i' = i + 1
    /\ UNCHANGED <<pc, offset, seq, readFails, sendFails, allAcksFails,
                   answer, numCorrect, pVars, netVars>>

JudgeFailed ==
    /\ pc = "judge"
    /\ i <= remaining
    /\ ~IsKicked(i)
    /\ answer[i] # "ok"
    /\ failCnt' = [failCnt EXCEPT ![i] = @ + 1]
    /\ remaining' = IF failCnt[i] + 1 < MaxFailsToKick
                      THEN remaining ELSE remaining - 1
    /\ i' = i + 1
    /\ UNCHANGED <<pc, offset, seq, readFails, sendFails, allAcksFails,
                   answer, numCorrect, pVars, netVars>>

Judged == pc = "judge" /\ i > remaining

AllKicked ==
    /\ Judged
    /\ remaining = 0
    /\ StopTransfer("failed")
    /\ UNCHANGED <<offset, seq, readFails, sendFails, allAcksFails, failCnt,
                   remaining, answer, i, numCorrect, pVars, data>>

(* Mutant: one correct answer is enough.                                     *)
RoundFailedIfNoneCorrect == numCorrect = 0

(* Mutant: whoever answered is counted, on the list or not.                  *)
RoundFailedCountingAll == Cardinality({p \in Ankers : answer[p] = "ok"}) # remaining

RoundFailed == numCorrect # remaining

EndRound ==
    /\ pc' = "send"
    /\ answer' = [p \in Ankers |-> "none"]
    /\ i' = 1
    /\ numCorrect' = 0

RetryChunk ==
    /\ Judged
    /\ remaining # 0
    /\ RoundFailed
    /\ EndRound
    /\ UNCHANGED <<offset, seq, readFails, sendFails, allAcksFails, failCnt,
                   remaining, pVars, netVars>>

NextChunk ==
    /\ Judged
    /\ remaining # 0
    /\ ~RoundFailed
    /\ EndRound
    /\ offset' = offset + LenAt(offset)
    /\ seq' = seq + 1
    /\ UNCHANGED <<readFails, sendFails, allAcksFails, failCnt, remaining,
                   pVars, netVars>>

------------------------------------------------------------------------------
(* The P-Anker's UDP task: one firmware datagram per handler. left is what   *)
(* the network still holds afterwards, with m in it when m was duplicated.   *)

Receives(p, m, left) ==
    /\ mode[p] = "polling"
    /\ m \in data[p]
    /\ left \in {data[p], data[p] \ {m}}
    /\ data' = [data EXCEPT ![p] = left]

(* Mutant: the chunk the task waits for is taken for a resend.               *)
AckResendInclusive(p, m, left) ==
    /\ Receives(p, m, left)
    /\ m.seq <= pSeq[p]
    /\ SendAck(p, "RCVD", m.seq)
    /\ UNCHANGED <<cVars, pVars>>

(* A chunk of an earlier round is acknowledged again, not written again.     *)
AckResend(p, m, left) ==
    /\ Receives(p, m, left)
    /\ m.seq < pSeq[p]
    /\ SendAck(p, "RCVD", m.seq)
    /\ UNCHANGED <<cVars, pVars>>

(* A chunk ahead of the Anker, or one whose hash does not match.             *)
RefuseChunk(p, m, left) ==
    /\ Receives(p, m, left)
    /\ SendAck(p, "OTHER", 0)
    /\ UNCHANGED <<cVars, pVars>>

(* Mutant: a new transfer does not erase the partition.                      *)
ImageNotErased(p) == image[p]

(* esp_ota_begin, called for chunk 0 only, erases the update partition and   *)
(* gives a new handle. It refuses as long as the running image is pending.   *)
ImageToWrite(p) == IF pSeq[p] = 0 THEN <<>> ELSE image[p]

CanBegin(p) == otaState[p] # "pending"

CanWrite(p) == IF pSeq[p] = 0 THEN CanBegin(p) ELSE ota[p] = "open"

WriteChunk(p, m, left) ==
    /\ Receives(p, m, left)
    /\ m.seq = pSeq[p]
    /\ CanWrite(p)
    /\ ~m.last
    /\ image' = [image EXCEPT ![p] = Append(ImageToWrite(p), Piece(m))]
    /\ ota' = [ota EXCEPT ![p] = "open"]
    /\ pSeq' = [pSeq EXCEPT ![p] = @ + 1]
    /\ SendAck(p, "RCVD", m.seq)
    /\ UNCHANGED <<cVars, mode, bootVars, status>>

(* esp_ota_set_boot_partition: the image that runs is the one to go back to. *)
SetBoot(p, img) ==
    /\ bootImage' = [bootImage EXCEPT ![p] = img]
    /\ otaState' = [otaState EXCEPT ![p] = "new"]
    /\ fallback' = [fallback EXCEPT ![p] = bootImage[p]]
    /\ UNCHANGED reverted

(* Mutant: a failure to set the boot partition is ignored.                   *)
InstallImageUnchecked(p, m, left) ==
    /\ Receives(p, m, left)
    /\ m.seq = pSeq[p]
    /\ CanWrite(p)
    /\ m.last
    /\ image' = [image EXCEPT ![p] = Append(ImageToWrite(p), Piece(m))]
    /\ ota' = [ota EXCEPT ![p] = "ended"]
    /\ UNCHANGED bootVars \/ SetBoot(p, image'[p])
    /\ mode' = [mode EXCEPT ![p] = "installing"]
    /\ SendAck(p, "RCVD", m.seq)
    /\ UNCHANGED <<cVars, pSeq, status>>

(* The last chunk: written, the image ended and set as boot image, the       *)
(* acknowledgement sent, before the status file is written.                  *)
InstallImage(p, m, left) ==
    /\ Receives(p, m, left)
    /\ m.seq = pSeq[p]
    /\ CanWrite(p)
    /\ m.last
    /\ image' = [image EXCEPT ![p] = Append(ImageToWrite(p), Piece(m))]
    /\ ota' = [ota EXCEPT ![p] = "ended"]
    /\ SetBoot(p, image'[p])
    /\ mode' = [mode EXCEPT ![p] = "installing"]
    /\ SendAck(p, "RCVD", m.seq)
    /\ UNCHANGED <<cVars, pSeq, status>>

(* One of the esp_ota calls fails: esp_ota_begin before it erased anything,  *)
(* esp_ota_write, or, for the last chunk, esp_ota_end, which frees the       *)
(* handle all the same, or esp_ota_set_boot_partition after it.              *)
FlashFails(p, m, left) ==
    /\ Receives(p, m, left)
    /\ m.seq = pSeq[p]
    /\ \/ /\ pSeq[p] = 0
          /\ UNCHANGED <<image, ota>>
       \/ /\ pSeq[p] = 0 => CanBegin(p)
          /\ image' = [image EXCEPT ![p] = ImageToWrite(p)]
          /\ ota' = [ota EXCEPT ![p] = IF pSeq[p] = 0 THEN "open" ELSE @]
       \/ /\ m.last
          /\ CanWrite(p)
          /\ image' = [image EXCEPT ![p] = Append(ImageToWrite(p), Piece(m))]
          /\ ota' = [ota EXCEPT ![p] = "ended"]
    /\ SendAck(p, "GENERAL_ERROR", 0)
    /\ UNCHANGED <<cVars, mode, pSeq, bootVars, status>>

------------------------------------------------------------------------------
(* Restarts of a P-Anker or of its UDP task: the task's seq and handle and   *)
(* whatever its socket held are gone, the partition is as it was.            *)

LoseTask(p) ==
    /\ pSeq' = [pSeq EXCEPT ![p] = 0]
    /\ ota' = [ota EXCEPT ![p] = "none"]
    /\ data' = [data EXCEPT ![p] = {}]

(* The bootloader starts an image that was set to boot once; if that was     *)
(* never marked valid, it goes back at the next start.                       *)
Bootloader(p) ==
    /\ otaState' = [otaState EXCEPT ![p] = IF @ = "new" THEN "pending" ELSE "valid"]
    /\ IF otaState[p] = "pending"
         THEN /\ bootImage' = [bootImage EXCEPT ![p] = fallback[p]]
              /\ reverted' = reverted \cup {p}
         ELSE UNCHANGED <<bootImage, reverted>>
    /\ UNCHANGED fallback

Restart(p) ==
    /\ LoseTask(p)
    /\ Bootloader(p)
    /\ mode' = [mode EXCEPT ![p] = "booting"]

(* The status file is written, or the write fails, and the Anker restarts.   *)
RestartInstalled(p, found) ==
    /\ mode[p] = "installing"
    /\ found \in {"INSTALLED", status[p]}
    /\ status' = [status EXCEPT ![p] = found]
    /\ Restart(p)
    /\ UNCHANGED <<cVars, image, acks>>

LosePower(p) ==
    /\ Restart(p)
    /\ UNCHANGED <<cVars, image, status, acks>>

(* updater_start, the first time since the restart: a pending image is       *)
(* marked valid, which may fail, and the status file is read, unless it or   *)
(* the state of the image cannot be. With status INSTALLED the Anker goes    *)
(* back to the C-Anker's AP, else it erases the file and polls on the        *)
(* default AP.                                                               *)
StartUpdater(p, marked, read) ==
    /\ mode[p] = "booting"
    /\ otaState' = [otaState EXCEPT ![p] = IF marked THEN "valid" ELSE @]
    /\ LET installed == read /\ status[p] = "INSTALLED"
       IN  /\ mode' = [mode EXCEPT ![p] = IF installed THEN "joining" ELSE "offline"]
           /\ status' = [status EXCEPT ![p] = IF read /\ ~installed THEN "other" ELSE @]
    /\ UNCHANGED <<cVars, pSeq, ota, image, bootImage, fallback, reverted, netVars>>

(* wifi_connect_to_ap: joined and polling, or given up after the retries.    *)
Rejoin(p, joined) ==
    /\ mode[p] = "joining"
    /\ mode' = [mode EXCEPT ![p] = IF joined THEN "polling" ELSE "offline"]
    /\ UNCHANGED <<cVars, pSeq, ota, image, bootVars, status, netVars>>

(* The WiFi link drops and comes back: the polling tasks are stopped and     *)
(* started again.                                                            *)
RestartPolling(p) ==
    /\ mode[p] = "polling"
    /\ LoseTask(p)
    /\ UNCHANGED <<cVars, mode, image, bootVars, status, acks>>

LoseData(p, m) ==
    /\ m \in data[p]
    /\ data' = [data EXCEPT ![p] = @ \ {m}]
    /\ UNCHANGED <<cVars, pVars, acks>>

LoseAck(a) ==
    /\ a \in acks
    /\ acks' = acks \ {a}
    /\ UNCHANGED <<cVars, pVars, data>>

------------------------------------------------------------------------------
CAnkerStep ==
    \/ ReadFails
    \/ SendFails
    \/ SendChunk
    \/ FinishTransfer
    \/ \E a \in acks : \E left \in {acks, acks \ {a}} : ReceiveAck(a, left)
    \/ RetrieveTimeout
    \/ SkipKicked
    \/ JudgeCorrect
    \/ JudgeFailed
    \/ AllKicked
    \/ RetryChunk
    \/ NextChunk

HandlerStep(p, m, left) ==
    \/ AckResend(p, m, left)
    \/ RefuseChunk(p, m, left)
    \/ WriteChunk(p, m, left)
    \/ InstallImage(p, m, left)
    \/ FlashFails(p, m, left)

PAnkerStep(p) ==
    \/ \E m \in data[p] : \E left \in {data[p], data[p] \ {m}} : HandlerStep(p, m, left)
    \/ \E found \in {"INSTALLED", status[p]} : RestartInstalled(p, found)
    \/ \E marked, read \in BOOLEAN : StartUpdater(p, marked, read)
    \/ \E joined \in BOOLEAN : Rejoin(p, joined)
    \/ RestartPolling(p)
    \/ LosePower(p)

NetworkStep ==
    \/ \E p \in Ankers : \E m \in data[p] : LoseData(p, m)
    \/ \E a \in acks : LoseAck(a)

Next ==
    \/ CAnkerStep
    \/ \E p \in Ankers : PAnkerStep(p)
    \/ NetworkStep

Spec == Init /\ [][Next]_vars

------------------------------------------------------------------------------
(* Properties.                                                               *)

(* An Anker's update partition holds exactly the chunks before the one its   *)
(* task waits for, in order, however datagrams were duplicated, reordered or *)
(* lost and tasks restarted (updater.cpp:941-988).                           *)
WrittenImageMatchesSeq ==
    \A p \in Ankers :
        pSeq[p] > 0 /\ ota[p] = "open" =>
            IsPrefixImage(image[p]) /\ Len(image[p]) = pSeq[p]

(* No Anker is ever set to boot, or goes back to, an image that is part of   *)
(* the new firmware but not the whole (updater.cpp:973-983).                 *)
BootsOnlyCompleteImage ==
    \A p \in Ankers : \A img \in {bootImage[p], fallback[p]} :
        img # <<>> => IsComplete(img)

(* An Anker boots the new firmware, or its bootloader has gone back from it  *)
(* because the power failed before it was marked valid (updater.cpp:980,     *)
(* 1328-1340).                                                               *)
HasInstalled(p) == IsComplete(bootImage[p]) \/ p \in reverted

(* Whatever restart the Anker went through, a status file that says          *)
(* INSTALLED was written by an Anker set to boot the new firmware: on it the *)
(* restarted Anker goes back to the C-Anker's AP, the reverted one as well   *)
(* (updater.cpp:979-987, 1352).                                              *)
StatusFileTellsTruth ==
    \A p \in Ankers : status[p] = "INSTALLED" => HasInstalled(p)

(* An acknowledgement of the last chunk, in flight or counted in a round, is *)
(* that of an Anker that was set to boot the new firmware; if it does not    *)
(* boot it any more, it has reverted (updater.cpp:364-373, 941-945, 984).    *)
LastAckMeansInstalled ==
    /\ \A a \in acks :
         a.type = "RCVD" /\ IsLastAt(a.seq * DataMaxLen) => HasInstalled(a.from)
    /\ \A p \in Ankers :
         pc \in {"collect", "judge"} /\ answer[p] = "ok" /\ IsLastAt(offset)
             => HasInstalled(p)

(* num_remaining_p_ankers is the number of listed Ankers that are not kicked,*)
(* while the loop that lowers it is also bounded by it (updater.cpp:579-621).*)
RemainingCountsUnkicked == remaining = Cardinality(Unkicked)

(* The loop's offset and sequence number agree: until the end of the         *)
(* partition chunk seq starts at seq * DATA_MAX_LEN (updater.cpp:530-535,    *)
(* 633-634).                                                                 *)
OffsetMatchesSeq ==
    /\ offset < PartitionSize => offset = seq * DataMaxLen
    /\ pc \in {"collect", "judge"} => offset < PartitionSize
    /\ pc = "done" => offset >= PartitionSize

(* Each firmware datagram in flight carries the piece its sequence number    *)
(* stands for, whenever it was sent (updater.cpp:549).                       *)
DataMatchesSeq ==
    \A p \in Ankers : \A m \in data[p] :
        /\ m.offset = m.seq * DataMaxLen
        /\ m.offset < PartitionSize
        /\ m.len = LenAt(m.offset)
        /\ m.last = IsLastAt(m.offset)

(* An Anker's task never counts past the last chunk: it restarts instead     *)
(* (updater.cpp:969-991).                                                    *)
NeverPastLast ==
    \A p \in Ankers : \A s \in 0..(pSeq[p] - 1) : ~IsLastAt(s * DataMaxLen)

(* Between setting the boot partition and restarting the Anker boots the new *)
(* firmware (updater.cpp:980-988), and so it does while that is on trial.    *)
InstallingBootsNew ==
    \A p \in Ankers :
        mode[p] = "installing" \/ otaState[p] # "valid" => IsComplete(bootImage[p])

(* The judging loop's counter counts the unkicked Ankers it has passed that  *)
(* acknowledged, and its bound never falls below an index it has passed      *)
(* unless that Anker is kicked (updater.cpp:578-621).                        *)
PassedCorrect == {k \in 1..(i - 1) : answer[k] = "ok" /\ ~IsKicked(k)}

RoundCount ==
    /\ pc = "judge" =>
         /\ numCorrect = Cardinality(PassedCorrect)
         /\ \A k \in 1..(i - 1) : k > remaining => IsKicked(k)
    /\ pc \in {"send", "collect"} => i = 1 /\ numCorrect = 0

(* Past the end of the partition each Anker left has the new firmware.       *)
EndMeansInstalled ==
    pc \in {"send", "done"} /\ offset >= PartitionSize
        => /\ Unkicked # {}
           /\ \A p \in Unkicked : HasInstalled(p)

(* The inductive invariant. What an Anker stores and acknowledges:           *)
FlashInv ==
    /\ OffsetMatchesSeq
    /\ DataMatchesSeq
    /\ NeverPastLast
    /\ WrittenImageMatchesSeq
    /\ BootsOnlyCompleteImage
    /\ InstallingBootsNew
    /\ StatusFileTellsTruth
    /\ LastAckMeansInstalled

(* and what the C-Anker concludes from the answers it counts.                *)
IInv ==
    /\ TypeOK
    /\ FlashInv
    /\ RemainingCountsUnkicked
    /\ RoundCount
    /\ EndMeansInstalled

(* The C-Anker compares two counters to go on to the next chunk; it does so  *)
(* only when each Anker not kicked has acknowledged the chunk in this round  *)
(* (updater.cpp:628-634).                                                    *)
AdvanceOnlyWhenAllAcked ==
    [][seq' # seq => \A p \in Unkicked : answer[p] = "ok"]_vars

(* The function succeeds only with an Anker left, and each Anker left was    *)
(* set to boot the whole new firmware and boots it, unless it has reverted   *)
(* since (updater.cpp:636-641).                                              *)
DoneMeansInstalled ==
    pc = "done" => /\ Unkicked # {}
                   /\ \A p \in Unkicked : HasInstalled(p)

(* The transfer implements the rollout's promise: images switch from old to  *)
(* new only as a whole, and back only while not marked valid, kicked Ankers  *)
(* stay kicked, success is not claimed too early (updater.cpp:502-642,       *)
(* 938-992, 1328-1340).                                                      *)
Firmware(p) ==
    IF bootImage[p] = <<>> THEN IF p \in reverted THEN "reverted" ELSE "old"
    ELSE IF ~IsComplete(bootImage[p]) THEN "broken"
    ELSE IF otaState[p] = "valid" THEN "new" ELSE "trial"

Rollout == INSTANCE FirmwareRollout WITH
    firmware <- [p \in Ankers |-> Firmware(p)],
    kicked <- Listed \ Unkicked,
    outcome <- IF Over THEN pc ELSE "running"

RolloutSpec == Rollout!Spec

(* An Anker that is not kicked has an index the judging loop no longer       *)
(* reaches, because an Anker before it in the list was kicked.               *)
Stranded == \E p \in Unkicked : p > remaining

(* Once an Anker is stranded the transfer never gets past its chunk: the     *)
(* stranded Anker is counted among those that remain, and never among those  *)
(* that answered (updater.cpp:579-631).                                      *)
StrandedNeverAdvances == [][seq' # seq => ~Stranded]_vars
==============================================================================
