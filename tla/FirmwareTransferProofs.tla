------------------------ MODULE FirmwareTransferProofs -----------------------
(* Proofs about FirmwareTransfer, for every number of Ankers, partition and  *)
(* chunk size, retry limit and mailbox size.                                 *)
EXTENDS FirmwareTransfer, FiniteSetTheorems, TLAPS

------------------------------------------------------------------------------
(* What the helper operators return.                                         *)

(* Delivering to a mailbox adds at most the message (the network).           *)
LEMMA DeliverType ==
    ASSUME NEW S, NEW box \in SUBSET S, NEW m \in S, NEW size
    PROVE  Deliver(box, m, size) \in SUBSET S
  BY DEF Deliver

(* The next offset stays inside the partition (updater.cpp:531-535, 633).    *)
LEMMA LenAtType ==
    ASSUME NEW off \in 0..PartitionSize
    PROVE  /\ LenAt(off) \in Nat
           /\ off + LenAt(off) \in 0..PartitionSize
           /\ IsLastAt(off) \in BOOLEAN
  BY TransferAssumption DEF LenAt, IsLastAt

(* A chunk is a datagram of the declared type (updater.cpp:531-535, 181-186).*)
LEMMA ChunkType ==
    ASSUME TypeOK
    PROVE  Chunk \in [seq : Nat, offset : Nat, len : Nat, last : BOOLEAN]
  BY LenAtType DEF Chunk, TypeOK

(* The end of a retrieval keeps the round's variables typed                  *)
(* (updater.cpp:563-576).                                                    *)
LEMMA EndRetrieveType ==
    ASSUME TypeOK,
           NEW got \in [Ankers -> {"none", "ok", "error"}],
           NEW left \in SUBSET [from : Ankers, type : AckTypes, seq : Nat],
           EndRetrieve(got, left)
    PROVE  /\ answer' \in [Ankers -> {"none", "ok", "error"}]
           /\ pc' \in {"send", "judge", "failed"}
           /\ allAcksFails' \in 0..MaxAllAcksFails
           /\ acks' \subseteq [from : Ankers, type : AckTypes, seq : Nat]
  BY TransferAssumption DEF EndRetrieve, StopTransfer, TypeOK

(* An Anker's acknowledgement keeps the C-Anker's mailbox typed              *)
(* (updater.cpp:705-739).                                                    *)
LEMMA SendAckType ==
    ASSUME TypeOK, NEW p \in Ankers, NEW type \in AckTypes, NEW s \in Nat,
           SendAck(p, type, s)
    PROVE  acks' \subseteq [from : Ankers, type : AckTypes, seq : Nat]
  <1> DEFINE AckSet == [from : Ankers, type : AckTypes, seq : Nat]
  <1>1. AckMsg(p, type, s) \in AckSet
    BY DEF AckMsg
  <1>2. acks \in SUBSET AckSet
    BY DEF TypeOK
  <1>3. Deliver(acks, AckMsg(p, type, s), AckMailbox) \in SUBSET AckSet
    BY <1>1, <1>2, DeliverType
  <1> QED
    BY <1>3 DEF SendAck

(* Receiving a datagram keeps the mailboxes typed (updater.cpp:921).         *)
LEMMA ReceivesType ==
    ASSUME TypeOK, NEW p \in Ankers, NEW m, NEW left, Receives(p, m, left)
    PROVE  /\ m \in [seq : Nat, offset : Nat, len : Nat, last : BOOLEAN]
           /\ data' \in [Ankers -> SUBSET [seq : Nat, offset : Nat, len : Nat, last : BOOLEAN]]
           /\ Piece(m) \in [offset : Nat, len : Nat]
  BY DEF Receives, TypeOK, Piece

------------------------------------------------------------------------------
(* Type correctness.                                                         *)

(* A step of the C-Anker's loop keeps every variable in its type             *)
(* (updater.cpp:282-409, 530-641).                                           *)
LEMMA CAnkerStepType == TypeOK /\ CAnkerStep => TypeOK'
  <1> SUFFICES ASSUME TypeOK, CAnkerStep
               PROVE  TypeOK'
    OBVIOUS
  <1>1. CASE ReadFails
    BY <1>1, TransferAssumption DEF ReadFails, StopTransfer, TypeOK, pVars, bootVars, netVars
  <1>2. CASE SendFails
    BY <1>2, TransferAssumption DEF SendFails, StopTransfer, TypeOK, pVars, bootVars, netVars
  <1>3. CASE SendChunk
    <2> DEFINE DataSet == [seq : Nat, offset : Nat, len : Nat, last : BOOLEAN]
    <2>1. ASSUME NEW p \in Ankers
          PROVE  Deliver(data[p], Chunk, DataMailbox) \in SUBSET DataSet
      <3>1. Chunk \in DataSet /\ data[p] \in SUBSET DataSet
        BY ChunkType DEF TypeOK
      <3> HIDE DEF DataSet
      <3> QED
        BY <3>1, DeliverType
    <2>2. data' \in [Ankers -> SUBSET DataSet]
      BY <1>3, <2>1 DEF SendChunk, TypeOK
    <2> QED
      BY <1>3, <2>2, TransferAssumption DEF SendChunk, TypeOK, pVars, bootVars
  <1>4. CASE FinishTransfer
    BY <1>4 DEF FinishTransfer, StopTransfer, TypeOK, pVars, bootVars
  <1>5. ASSUME NEW a \in acks, NEW left \in {acks, acks \ {a}}, ReceiveAck(a, left)
        PROVE  TypeOK'
    <2> DEFINE got == [answer EXCEPT ![a.from] = Verdict(a)]
               AckSet == [from : Ankers, type : AckTypes, seq : Nat]
    <2>1. got \in [Ankers -> {"none", "ok", "error"}] /\ answer \in [Ankers -> {"none", "ok", "error"}]
      BY DEF TypeOK, Verdict
    <2>2. left \in SUBSET AckSet
      BY DEF TypeOK
    <2>3. \/ KeepCollecting(answer, left) \/ KeepCollecting(got, left)
          \/ EndRetrieve(answer, left) \/ EndRetrieve(got, left)
      BY <1>5 DEF ReceiveAck
    <2>4. /\ answer' \in [Ankers -> {"none", "ok", "error"}]
          /\ pc' \in {"send", "collect", "judge", "failed"}
          /\ allAcksFails' \in 0..MaxAllAcksFails
          /\ acks' \subseteq AckSet
      <3>1. CASE KeepCollecting(answer, left) \/ KeepCollecting(got, left)
        BY <1>5, <3>1, <2>1, <2>2 DEF KeepCollecting, ReceiveAck, TypeOK
      <3>2. CASE EndRetrieve(answer, left) \/ EndRetrieve(got, left)
        BY <3>2, <2>1, <2>2, EndRetrieveType
      <3> QED
        BY <2>3, <3>1, <3>2
    <2> QED
      BY <1>5, <2>4 DEF ReceiveAck, TypeOK, pVars, bootVars
  <1>6. CASE RetrieveTimeout
    <2>1. EndRetrieve(answer, acks) /\ answer \in [Ankers -> {"none", "ok", "error"}]
      BY <1>6 DEF RetrieveTimeout, TypeOK
    <2>2. acks \in SUBSET [from : Ankers, type : AckTypes, seq : Nat]
      BY DEF TypeOK
    <2>3. /\ answer' \in [Ankers -> {"none", "ok", "error"}]
          /\ pc' \in {"send", "judge", "failed"}
          /\ allAcksFails' \in 0..MaxAllAcksFails
          /\ acks' \subseteq [from : Ankers, type : AckTypes, seq : Nat]
      BY <2>1, <2>2, EndRetrieveType
    <2> QED
      BY <1>6, <2>3 DEF RetrieveTimeout, TypeOK, pVars, bootVars
  <1>7. CASE SkipKicked
    BY <1>7, TransferAssumption DEF SkipKicked, TypeOK, pVars, bootVars, netVars
  <1>8. CASE JudgeCorrect
    <2>1. failCnt' \in [Listed -> 0..MaxFailsToKick] /\ i' \in 1..(NumListed + 1)
          /\ numCorrect' \in Nat
      BY <1>8, TransferAssumption DEF JudgeCorrect, TypeOK, Listed
    <2> QED
      BY <1>8, <2>1 DEF JudgeCorrect, TypeOK, pVars, bootVars, netVars
  <1>9. CASE JudgeFailed
    <2>1. /\ failCnt' \in [Listed -> 0..MaxFailsToKick] /\ i' \in 1..(NumListed + 1)
          /\ remaining' \in 0..NumListed
      BY <1>9, TransferAssumption DEF JudgeFailed, IsKicked, TypeOK, Listed
    <2> QED
      BY <1>9, <2>1 DEF JudgeFailed, TypeOK, pVars, bootVars, netVars
  <1>10. CASE AllKicked
    BY <1>10 DEF AllKicked, StopTransfer, TypeOK, pVars, bootVars
  <1>11. CASE RetryChunk
    BY <1>11, TransferAssumption DEF RetryChunk, EndRound, TypeOK, pVars, bootVars, netVars
  <1>12. CASE NextChunk
    <2>1. offset + LenAt(offset) \in 0..PartitionSize
      BY LenAtType DEF TypeOK
    <2> QED
      BY <1>12, <2>1, TransferAssumption DEF NextChunk, EndRound, TypeOK, pVars, bootVars, netVars
  <1> QED
    BY <1>1, <1>2, <1>3, <1>4, <1>5, <1>6, <1>7, <1>8, <1>9, <1>10, <1>11, <1>12
       DEF CAnkerStep

(* A handler of the P-Anker's UDP task keeps every variable in its type      *)
(* (updater.cpp:938-992).                                                    *)
LEMMA HandlerStepType ==
    ASSUME TypeOK, NEW p \in Ankers, NEW m, NEW left, HandlerStep(p, m, left)
    PROVE  TypeOK'
  <1> DEFINE AckSet == [from : Ankers, type : AckTypes, seq : Nat]
             DataSet == [seq : Nat, offset : Nat, len : Nat, last : BOOLEAN]
             PieceSet == [offset : Nat, len : Nat]
  <1>1. Receives(p, m, left)
    BY DEF HandlerStep, AckResend, RefuseChunk, WriteChunk, InstallImage, FlashFails
  <1>2. m \in DataSet /\ data' \in [Ankers -> SUBSET DataSet] /\ Piece(m) \in PieceSet
    BY <1>1, ReceivesType
  <1>3. ImageToWrite(p) \in Seq(PieceSet) /\ image[p] \in Seq(PieceSet)
    BY DEF ImageToWrite, TypeOK
  <1>4. Append(ImageToWrite(p), Piece(m)) \in Seq(PieceSet)
    BY <1>2, <1>3
  <1>10. /\ image \in [Ankers -> Seq(PieceSet)]
         /\ bootImage \in [Ankers -> Seq(PieceSet)]
         /\ fallback \in [Ankers -> Seq(PieceSet)]
    BY DEF TypeOK
  <1> HIDE DEF PieceSet
  <1>5. CASE AckResend(p, m, left)
    <2>1. acks' \subseteq AckSet
      BY <1>5, <1>2, SendAckType DEF AckResend, AckTypes
    <2> QED
      BY <1>5, <1>2, <2>1 DEF AckResend, TypeOK, cVars, pVars, bootVars
  <1>6. CASE RefuseChunk(p, m, left)
    <2>1. acks' \subseteq AckSet
      BY <1>6, SendAckType DEF RefuseChunk, AckTypes
    <2> QED
      BY <1>6, <1>2, <2>1 DEF RefuseChunk, TypeOK, cVars, pVars, bootVars
  <1>7. CASE WriteChunk(p, m, left)
    <2>1. acks' \subseteq AckSet
      BY <1>7, <1>2, SendAckType DEF WriteChunk, AckTypes
    <2>2. image' \in [Ankers -> Seq(PieceSet)]
      BY <1>7, <1>4, <1>10 DEF WriteChunk
    <2>3. pSeq' \in [Ankers -> Nat] /\ ota' \in [Ankers -> {"none", "open", "ended"}]
      BY <1>7 DEF WriteChunk, TypeOK
    <2> QED
      BY <1>7, <1>2, <2>1, <2>2, <2>3 DEF WriteChunk, TypeOK, cVars, bootVars, PieceSet
  <1>8. CASE InstallImage(p, m, left)
    <2>1. acks' \subseteq AckSet
      BY <1>8, <1>2, SendAckType DEF InstallImage, AckTypes
    <2>2. image' \in [Ankers -> Seq(PieceSet)]
      BY <1>8, <1>4, <1>10 DEF InstallImage
    <2>3. /\ bootImage' \in [Ankers -> Seq(PieceSet)]
          /\ fallback' \in [Ankers -> Seq(PieceSet)]
      BY <1>8, <2>2, <1>10 DEF InstallImage, SetBoot
    <2>4. /\ otaState' \in [Ankers -> {"valid", "new", "pending"}]
          /\ reverted' \subseteq Ankers
      BY <1>8 DEF InstallImage, SetBoot, TypeOK
    <2> QED
      BY <1>8, <1>2, <2>1, <2>2, <2>3, <2>4 DEF InstallImage, TypeOK, cVars, PieceSet
  <1>9. CASE FlashFails(p, m, left)
    <2>1. acks' \subseteq AckSet
      BY <1>9, SendAckType DEF FlashFails, AckTypes
    <2>2. image' \in [Ankers -> Seq(PieceSet)]
      BY <1>9, <1>3, <1>4, <1>10 DEF FlashFails
    <2>3. ota' \in [Ankers -> {"none", "open", "ended"}]
      BY <1>9 DEF FlashFails, TypeOK
    <2> QED
      BY <1>9, <1>2, <2>1, <2>2, <2>3 DEF FlashFails, TypeOK, cVars, bootVars, PieceSet
  <1> QED
    BY <1>5, <1>6, <1>7, <1>8, <1>9 DEF HandlerStep

(* So does a step of a P-Anker, restarts included (updater.cpp:849-1050,     *)
(* 1293-1374).                                                               *)
LEMMA PAnkerStepType ==
    ASSUME TypeOK, NEW p \in Ankers, PAnkerStep(p)
    PROVE  TypeOK'
  <1>1. ASSUME NEW m \in data[p], NEW left \in {data[p], data[p] \ {m}},
               HandlerStep(p, m, left)
        PROVE  TypeOK'
    BY <1>1, HandlerStepType
  <1>2. ASSUME Restart(p), UNCHANGED <<cVars, image, acks>>,
               status' \in [Ankers -> {"other", "INSTALLED"}]
        PROVE  TypeOK'
    <2> DEFINE Images == Seq([offset : Nat, len : Nat])
    <2>1. otaState' \in [Ankers -> {"valid", "new", "pending"}]
      BY <1>2 DEF Restart, Bootloader, TypeOK
    <2>4. /\ bootImage \in [Ankers -> Images] /\ fallback \in [Ankers -> Images]
          /\ reverted \subseteq Ankers
      BY DEF TypeOK
    <2> HIDE DEF Images
    <2>5. /\ bootImage' \in [Ankers -> Images] /\ fallback' \in [Ankers -> Images]
          /\ reverted' \subseteq Ankers
      BY <1>2, <2>4 DEF Restart, Bootloader
    <2>2. mode' \in [Ankers -> {"polling", "installing", "booting", "joining", "offline"}]
      BY <1>2 DEF Restart, TypeOK
    <2>3. /\ pSeq' \in [Ankers -> Nat]
          /\ ota' \in [Ankers -> {"none", "open", "ended"}]
          /\ data' \in [Ankers -> SUBSET [seq : Nat, offset : Nat, len : Nat, last : BOOLEAN]]
      BY <1>2 DEF Restart, LoseTask, TypeOK
    <2> QED
      BY <1>2, <2>1, <2>2, <2>3, <2>5 DEF TypeOK, cVars, Images
  <1>3. ASSUME NEW found \in {"INSTALLED", status[p]}, RestartInstalled(p, found)
        PROVE  TypeOK'
    <2>1. status' \in [Ankers -> {"other", "INSTALLED"}]
      BY <1>3 DEF RestartInstalled, TypeOK
    <2> QED
      BY <1>2, <1>3, <2>1 DEF RestartInstalled
  <1>4. CASE LosePower(p)
    BY <1>2, <1>4 DEF LosePower, TypeOK
  <1>5. ASSUME NEW marked \in BOOLEAN, NEW read \in BOOLEAN, StartUpdater(p, marked, read)
        PROVE  TypeOK'
    <2>1. /\ otaState' \in [Ankers -> {"valid", "new", "pending"}]
          /\ mode' \in [Ankers -> {"polling", "installing", "booting", "joining", "offline"}]
          /\ status' \in [Ankers -> {"other", "INSTALLED"}]
      BY <1>5 DEF StartUpdater, TypeOK
    <2> QED
      BY <1>5, <2>1 DEF StartUpdater, TypeOK, cVars, netVars
  <1>6. ASSUME NEW joined \in BOOLEAN, Rejoin(p, joined)
        PROVE  TypeOK'
    BY <1>6 DEF Rejoin, TypeOK, cVars, bootVars, netVars
  <1>7. CASE RestartPolling(p)
    BY <1>7 DEF RestartPolling, LoseTask, TypeOK, cVars, bootVars
  <1> QED
    BY <1>1, <1>3, <1>4, <1>5, <1>6, <1>7 DEF PAnkerStep

(* The loss of a datagram keeps every variable in its type.                  *)
LEMMA NetworkStepType == TypeOK /\ NetworkStep => TypeOK'
  <1> SUFFICES ASSUME TypeOK, NetworkStep
               PROVE  TypeOK'
    OBVIOUS
  <1>1. ASSUME NEW p \in Ankers, NEW m \in data[p], LoseData(p, m)
        PROVE  TypeOK'
    BY <1>1 DEF LoseData, TypeOK, cVars, pVars, bootVars
  <1>2. ASSUME NEW a \in acks, LoseAck(a)
        PROVE  TypeOK'
    BY <1>2 DEF LoseAck, TypeOK, cVars, pVars, bootVars
  <1> QED
    BY <1>1, <1>2 DEF NetworkStep

(* The transfer starts with every variable in its type (updater.cpp:503-519).*)
LEMMA InitType == Init => TypeOK
  <1> SUFFICES ASSUME Init
               PROVE  TypeOK
    OBVIOUS
  <1>1. acks \subseteq [from : Ankers, type : AckTypes, seq : Nat]
    BY DEF Init, AckMsg, AckTypes
  <1> QED
    BY <1>1, TransferAssumption DEF Init, TypeOK

(* Every variable of the transfer keeps its type (updater.cpp:282-409,       *)
(* 502-642, 849-1050).                                                       *)
THEOREM TypeCorrect == Spec => []TypeOK
  <1>1. TypeOK /\ [Next]_vars => TypeOK'
    <2> SUFFICES ASSUME TypeOK, [Next]_vars
                 PROVE  TypeOK'
      OBVIOUS
    <2>1. CASE CAnkerStep
      BY <2>1, CAnkerStepType
    <2>2. ASSUME NEW p \in Ankers, PAnkerStep(p)
          PROVE  TypeOK'
      BY <2>2, PAnkerStepType
    <2>3. CASE NetworkStep
      BY <2>3, NetworkStepType
    <2>4. CASE UNCHANGED vars
      BY <2>4 DEF vars, cVars, pVars, bootVars, netVars, TypeOK
    <2> QED
      BY <2>1, <2>2, <2>3, <2>4 DEF Next
  <1> QED
    BY InitType, <1>1, PTL DEF Spec

------------------------------------------------------------------------------
(* What the Ankers store and acknowledge: FlashInv is inductive.             *)

(* A datagram with the next sequence number extends the image by its next    *)
(* piece (updater.cpp:964-968).                                              *)
LEMMA AppendPiece ==
    ASSUME NEW img \in Seq([offset : Nat, len : Nat]), IsPrefixImage(img),
           NEW m \in [seq : Nat, offset : Nat, len : Nat, last : BOOLEAN],
           m.offset = Len(img) * DataMaxLen, m.len = LenAt(m.offset)
    PROVE  LET new == Append(img, Piece(m))
           IN  /\ IsPrefixImage(new)
               /\ Len(new) = Len(img) + 1
               /\ new # <<>>
               /\ new[Len(new)].offset = m.offset
  <1> DEFINE new == Append(img, Piece(m))
  <1>1. Piece(m) \in [offset : Nat, len : Nat]
    BY DEF Piece
  <1>2. /\ Len(new) = Len(img) + 1
        /\ \A k \in 1..Len(img) : new[k] = img[k]
        /\ new[Len(img) + 1] = Piece(m)
    BY <1>1
  <1>3. ASSUME NEW k \in 1..Len(new)
        PROVE  new[k].offset = (k - 1) * DataMaxLen /\ new[k].len = LenAt(new[k].offset)
    <2>1. CASE k \in 1..Len(img)
      BY <2>1, <1>2 DEF IsPrefixImage
    <2>2. CASE k = Len(img) + 1
      <3>1. k - 1 = Len(img) /\ new[k] = Piece(m)
        BY <2>2, <1>2
      <3> QED
        BY <3>1 DEF Piece
    <2> QED
      BY <2>1, <2>2, <1>2
  <1>4. new # <<>>
    <2>1. Len(new) # 0
      BY <1>2
    <2> HIDE DEF new
    <2> QED
      BY <2>1
  <1>5. IsPrefixImage(new)
    BY <1>3 DEF IsPrefixImage
  <1> HIDE DEF new
  <1>6. new[Len(new)].offset = m.offset
    BY <1>2 DEF Piece
  <1> QED
    BY <1>2, <1>4, <1>5, <1>6 DEF new

(* The image a handler writes to is the chunks before the Anker's seq        *)
(* (updater.cpp:950-963).                                                    *)
LEMMA ImageToWriteIsPrefix ==
    ASSUME TypeOK, WrittenImageMatchesSeq, NEW p \in Ankers, CanWrite(p)
    PROVE  /\ ImageToWrite(p) \in Seq([offset : Nat, len : Nat])
           /\ IsPrefixImage(ImageToWrite(p))
           /\ Len(ImageToWrite(p)) = pSeq[p]
  <1>1. CASE pSeq[p] = 0
    BY <1>1 DEF ImageToWrite, IsPrefixImage
  <1>2. CASE pSeq[p] # 0
    <2>1. pSeq[p] > 0 /\ ota[p] = "open"
      BY <1>2 DEF CanWrite, TypeOK
    <2> QED
      BY <1>2, <2>1 DEF ImageToWrite, WrittenImageMatchesSeq, TypeOK
  <1> QED
    BY <1>1, <1>2

(* Writing the chunk the Anker waits for gives the next prefix, which is the *)
(* whole firmware when the chunk is the last (updater.cpp:964-984).          *)
LEMMA WriteNextChunk ==
    ASSUME TypeOK, FlashInv, NEW p \in Ankers, NEW m \in data[p],
           m.seq = pSeq[p], CanWrite(p)
    PROVE  LET new == Append(ImageToWrite(p), Piece(m))
           IN  /\ IsPrefixImage(new)
               /\ Len(new) = pSeq[p] + 1
               /\ m.last => IsComplete(new)
  <1> DEFINE old == ImageToWrite(p)
             new == Append(old, Piece(m))
  <1>1. /\ old \in Seq([offset : Nat, len : Nat])
        /\ IsPrefixImage(old)
        /\ Len(old) = pSeq[p]
    BY ImageToWriteIsPrefix DEF FlashInv
  <1>2. m \in [seq : Nat, offset : Nat, len : Nat, last : BOOLEAN]
    BY DEF TypeOK
  <1>3. /\ m.offset = Len(old) * DataMaxLen
        /\ m.len = LenAt(m.offset)
        /\ m.last = IsLastAt(m.offset)
    BY <1>1 DEF FlashInv, DataMatchesSeq
  <1> HIDE DEF old
  <1>4. /\ IsPrefixImage(new)
        /\ Len(new) = Len(old) + 1
        /\ new # <<>>
        /\ new[Len(new)].offset = m.offset
    BY <1>1, <1>2, <1>3, AppendPiece
  <1>5. m.last => IsComplete(new)
    BY <1>3, <1>4 DEF IsComplete
  <1> QED
    BY <1>1, <1>4, <1>5 DEF old

(* The last chunk leaves the whole firmware as boot image, and the image     *)
(* that ran to go back to (updater.cpp:969-983).                             *)
LEMMA InstallImageBoots ==
    ASSUME TypeOK, FlashInv, NEW p \in Ankers, NEW m \in data[p], NEW left,
           InstallImage(p, m, left)
    PROVE  /\ IsComplete(bootImage'[p])
           /\ fallback'[p] = bootImage[p]
           /\ otaState'[p] = "new"
           /\ \A q \in Ankers \ {p} :
                 /\ bootImage'[q] = bootImage[q]
                 /\ fallback'[q] = fallback[q]
                 /\ otaState'[q] = otaState[q]
           /\ UNCHANGED reverted
  <1>1. m.last /\ m.seq = pSeq[p] /\ CanWrite(p)
    BY DEF InstallImage
  <1>2. IsComplete(Append(ImageToWrite(p), Piece(m)))
    BY <1>1, WriteNextChunk
  <1>3. image'[p] = Append(ImageToWrite(p), Piece(m))
    BY DEF InstallImage, TypeOK
  <1>4. SetBoot(p, image'[p])
    BY DEF InstallImage
  <1> QED
    BY <1>2, <1>3, <1>4 DEF SetBoot, TypeOK

(* Each step of a P-Anker leaves its boot images alone, installs, restarts   *)
(* or marks the image that runs valid (updater.cpp:980, 1328-1340).          *)
LEMMA BootStep ==
    ASSUME NEW p \in Ankers, PAnkerStep(p)
    PROVE  \/ UNCHANGED bootVars
           \/ \E m \in data[p] :
                 \E left \in {data[p], data[p] \ {m}} : InstallImage(p, m, left)
           \/ Bootloader(p)
           \/ \E marked, read \in BOOLEAN : StartUpdater(p, marked, read)
  <1>1. ASSUME NEW m \in data[p], NEW left \in {data[p], data[p] \ {m}},
               HandlerStep(p, m, left)
        PROVE  UNCHANGED bootVars \/ InstallImage(p, m, left)
    BY <1>1 DEF HandlerStep, AckResend, RefuseChunk, WriteChunk, FlashFails, pVars
  <1>2. CASE \E found \in {"INSTALLED", status[p]} : RestartInstalled(p, found)
    BY <1>2 DEF RestartInstalled, Restart
  <1>3. CASE LosePower(p)
    BY <1>3 DEF LosePower, Restart
  <1>4. CASE (\E joined \in BOOLEAN : Rejoin(p, joined)) \/ RestartPolling(p)
    BY <1>4 DEF Rejoin, RestartPolling
  <1> QED
    BY <1>1, <1>2, <1>3, <1>4 DEF PAnkerStep

(* An Anker set to boot the new firmware stays one that was, even when its   *)
(* bootloader goes back (updater.cpp:980, 1328-1340).                        *)
LEMMA InstalledStays ==
    ASSUME TypeOK, FlashInv, NEW p \in Ankers, PAnkerStep(p),
           NEW q \in Ankers, HasInstalled(q)
    PROVE  HasInstalled(q)'
  <1>1. CASE UNCHANGED bootVars
    BY <1>1 DEF bootVars, HasInstalled
  <1>2. ASSUME NEW m \in data[p], NEW left, InstallImage(p, m, left)
        PROVE  HasInstalled(q)'
    BY <1>2, InstallImageBoots DEF HasInstalled
  <1>3. CASE Bootloader(p)
    <2>1. CASE otaState[p] = "pending" /\ q = p
      BY <1>3, <2>1 DEF Bootloader, HasInstalled
    <2>2. CASE otaState[p] = "pending" /\ q # p
      BY <1>3, <2>2 DEF Bootloader, HasInstalled, TypeOK
    <2>3. CASE otaState[p] # "pending"
      BY <1>3, <2>3 DEF Bootloader, HasInstalled
    <2> QED
      BY <2>1, <2>2, <2>3
  <1>4. CASE \E marked, read \in BOOLEAN : StartUpdater(p, marked, read)
    BY <1>4 DEF StartUpdater, HasInstalled
  <1> QED
    BY <1>1, <1>2, <1>3, <1>4, BootStep

(* Nothing an acknowledgement says is taken back while the C-Anker waits:    *)
(* who was set to boot the new firmware stays one that was (updater.cpp:984).*)
LEMMA LastAckKept ==
    ASSUME LastAckMeansInstalled, UNCHANGED cVars,
           \A q \in Ankers : HasInstalled(q) => HasInstalled(q)',
           \A a \in acks' : \/ a \in acks
                            \/ a.type # "RCVD"
                            \/ ~IsLastAt(a.seq * DataMaxLen)
                            \/ HasInstalled(a.from)',
           acks \subseteq [from : Ankers, type : AckTypes, seq : Nat]
    PROVE  LastAckMeansInstalled'
  <1>1. ASSUME NEW a \in acks', a.type = "RCVD", IsLastAt(a.seq * DataMaxLen)
        PROVE  HasInstalled(a.from)'
    BY <1>1 DEF LastAckMeansInstalled
  <1>2. ASSUME NEW q \in Ankers, pc \in {"collect", "judge"}, answer[q] = "ok",
               IsLastAt(offset)
        PROVE  HasInstalled(q)'
    BY <1>2 DEF LastAckMeansInstalled
  <1> QED
    BY <1>1, <1>2 DEF LastAckMeansInstalled, cVars, IsLastAt

(* A handler of the UDP task preserves FlashInv (updater.cpp:938-992).       *)
LEMMA HandlerStepFlash ==
    ASSUME TypeOK, FlashInv, NEW p \in Ankers, NEW m, NEW left,
           HandlerStep(p, m, left)
    PROVE  FlashInv'
  <1>1. Receives(p, m, left) /\ UNCHANGED cVars
    BY DEF HandlerStep, AckResend, RefuseChunk, WriteChunk, InstallImage, FlashFails
  <1>2. m \in data[p] /\ m \in [seq : Nat, offset : Nat, len : Nat, last : BOOLEAN]
    BY <1>1 DEF Receives, TypeOK
  <1>3. m.offset = m.seq * DataMaxLen /\ m.last = IsLastAt(m.seq * DataMaxLen)
    BY <1>2 DEF FlashInv, DataMatchesSeq
  <1>4. OffsetMatchesSeq'
    BY <1>1 DEF FlashInv, OffsetMatchesSeq, cVars
  <1>5. DataMatchesSeq'
    <2>1. \A q \in Ankers : data'[q] \subseteq data[q]
      BY <1>1 DEF Receives, TypeOK
    <2> QED
      BY <2>1 DEF FlashInv, DataMatchesSeq, LenAt, IsLastAt
  <1>6. acks \subseteq [from : Ankers, type : AckTypes, seq : Nat]
    BY DEF TypeOK
  <1>7. ASSUME UNCHANGED pVars,
               NEW type, NEW s, SendAck(p, type, s),
               type # "RCVD" \/ ~IsLastAt(s * DataMaxLen)
        PROVE  FlashInv'
    <2>1. \A a \in acks' : \/ a \in acks
                           \/ a.type # "RCVD"
                           \/ ~IsLastAt(a.seq * DataMaxLen)
      BY <1>7 DEF SendAck, Deliver, AckMsg
    <2>2. LastAckMeansInstalled'
      BY <1>1, <1>6, <1>7, <2>1, LastAckKept DEF FlashInv, pVars, bootVars, HasInstalled
    <2> QED
      BY <1>4, <1>5, <1>7, <2>2
         DEF FlashInv, pVars, bootVars, NeverPastLast, WrittenImageMatchesSeq,
             BootsOnlyCompleteImage, InstallingBootsNew, StatusFileTellsTruth, HasInstalled
  <1>8. CASE AckResend(p, m, left)
    <2>1. ~IsLastAt(m.seq * DataMaxLen)
      BY <1>8, <1>2 DEF AckResend, FlashInv, NeverPastLast, TypeOK
    <2> QED
      BY <1>7, <1>8, <2>1 DEF AckResend
  <1>9. CASE RefuseChunk(p, m, left)
    BY <1>7, <1>9 DEF RefuseChunk
  <1>10. CASE WriteChunk(p, m, left)
    <2>1. ~IsLastAt(m.seq * DataMaxLen) /\ m.seq = pSeq[p] /\ CanWrite(p)
      BY <1>10, <1>3 DEF WriteChunk
    <2>2. /\ IsPrefixImage(Append(ImageToWrite(p), Piece(m)))
          /\ Len(Append(ImageToWrite(p), Piece(m))) = pSeq[p] + 1
      BY <1>2, <2>1, WriteNextChunk
    <2>3. /\ image'[p] = Append(ImageToWrite(p), Piece(m))
          /\ pSeq'[p] = pSeq[p] + 1
          /\ \A q \in Ankers \ {p} :
                image'[q] = image[q] /\ pSeq'[q] = pSeq[q] /\ ota'[q] = ota[q]
      BY <1>10 DEF WriteChunk, TypeOK
    <2>4. WrittenImageMatchesSeq'
      BY <2>2, <2>3 DEF FlashInv, WrittenImageMatchesSeq, IsPrefixImage, LenAt, IsLastAt
    <2>5. NeverPastLast'
      <3>1. ASSUME NEW s \in 0..pSeq[p]
            PROVE  ~IsLastAt(s * DataMaxLen)
        <4>1. s \in 0..(pSeq[p] - 1) \/ s = pSeq[p]
          BY DEF TypeOK
        <4> QED
          BY <4>1, <2>1 DEF FlashInv, NeverPastLast
      <3>2. \A s \in 0..(pSeq'[p] - 1) : s \in 0..pSeq[p]
        BY <2>3 DEF TypeOK
      <3> QED
        BY <2>3, <3>1, <3>2 DEF FlashInv, NeverPastLast, IsLastAt
    <2>6. LastAckMeansInstalled'
      <3>1. \A a \in acks' : \/ a \in acks
                             \/ a.type # "RCVD"
                             \/ ~IsLastAt(a.seq * DataMaxLen)
        BY <1>10, <2>1 DEF WriteChunk, SendAck, Deliver, AckMsg
      <3> QED
        BY <1>1, <1>6, <1>10, <3>1, LastAckKept DEF FlashInv, WriteChunk, bootVars, HasInstalled
    <2> QED
      BY <1>4, <1>5, <1>10, <2>4, <2>5, <2>6
         DEF FlashInv, WriteChunk, BootsOnlyCompleteImage, InstallingBootsNew,
             StatusFileTellsTruth, bootVars, HasInstalled
  <1>11. CASE InstallImage(p, m, left)
    <2>1. /\ IsComplete(bootImage'[p]) /\ fallback'[p] = bootImage[p]
          /\ \A q \in Ankers \ {p} :
                /\ bootImage'[q] = bootImage[q] /\ fallback'[q] = fallback[q]
                /\ otaState'[q] = otaState[q]
          /\ UNCHANGED reverted
      BY <1>2, <1>11, InstallImageBoots
    <2>2. /\ \A q \in Ankers \ {p} :
                image'[q] = image[q] /\ ota'[q] = ota[q] /\ mode'[q] = mode[q]
          /\ ota'[p] = "ended"
      BY <1>11 DEF InstallImage, TypeOK
    <2>3. \A q \in Ankers : HasInstalled(q) => HasInstalled(q)'
      BY <2>1 DEF HasInstalled
    <2>4. LastAckMeansInstalled'
      <3>1. \A a \in acks' : a \in acks \/ a.from = p
        BY <1>11 DEF InstallImage, SendAck, Deliver, AckMsg
      <3>2. HasInstalled(p)'
        BY <2>1 DEF HasInstalled
      <3> QED
        BY <1>1, <1>6, <2>3, <3>1, <3>2, LastAckKept DEF FlashInv
    <2>5. NeverPastLast'
      BY <1>11 DEF InstallImage, FlashInv, NeverPastLast
    <2>6. WrittenImageMatchesSeq'
      BY <1>11, <2>2 DEF InstallImage, FlashInv, WrittenImageMatchesSeq
    <2>7. BootsOnlyCompleteImage'
      BY <2>1 DEF FlashInv, BootsOnlyCompleteImage
    <2>8. InstallingBootsNew'
      BY <2>1, <2>2 DEF FlashInv, InstallingBootsNew
    <2>9. StatusFileTellsTruth'
      BY <1>11, <2>3 DEF InstallImage, FlashInv, StatusFileTellsTruth
    <2> QED
      BY <1>4, <1>5, <2>4, <2>5, <2>6, <2>7, <2>8, <2>9 DEF FlashInv
  <1>12. CASE FlashFails(p, m, left)
    <2>1. /\ UNCHANGED <<mode, pSeq, bootVars, status>>
          /\ \A q \in Ankers \ {p} : image'[q] = image[q] /\ ota'[q] = ota[q]
      BY <1>12 DEF FlashFails, TypeOK
    <2>2. pSeq[p] > 0 /\ ota'[p] = "open" => image'[p] = image[p] /\ ota[p] = "open"
      BY <1>12 DEF FlashFails, ImageToWrite, TypeOK
    <2>3. WrittenImageMatchesSeq'
      BY <2>1, <2>2 DEF FlashInv, WrittenImageMatchesSeq
    <2>4. LastAckMeansInstalled'
      <3>1. \A a \in acks' : a \in acks \/ a.type # "RCVD"
        BY <1>12 DEF FlashFails, SendAck, Deliver, AckMsg
      <3> QED
        BY <1>1, <1>6, <2>1, <3>1, LastAckKept DEF FlashInv, bootVars, HasInstalled
    <2> QED
      BY <1>4, <1>5, <2>1, <2>3, <2>4
         DEF FlashInv, NeverPastLast, BootsOnlyCompleteImage, InstallingBootsNew,
             StatusFileTellsTruth, bootVars, HasInstalled
  <1> QED
    BY <1>8, <1>9, <1>10, <1>11, <1>12 DEF HandlerStep

(* A restart of an Anker or of its polling preserves FlashInv: what the task *)
(* forgets is not claimed afterwards (updater.cpp:984-988, 1293-1374).       *)
LEMMA PAnkerStepFlash ==
    ASSUME TypeOK, FlashInv, NEW p \in Ankers, PAnkerStep(p)
    PROVE  FlashInv'
  <1>1. ASSUME NEW m \in data[p], NEW left \in {data[p], data[p] \ {m}},
               HandlerStep(p, m, left)
        PROVE  FlashInv'
    BY <1>1, HandlerStepFlash
  <1>2. \A q \in Ankers : HasInstalled(q) => HasInstalled(q)'
    BY InstalledStays
  <1>3. ASSUME UNCHANGED <<cVars, image, acks>>, LoseTask(p),
               BootsOnlyCompleteImage', InstallingBootsNew', StatusFileTellsTruth'
        PROVE  FlashInv'
    <2>1. /\ pSeq'[p] = 0 /\ data'[p] = {}
          /\ \A q \in Ankers \ {p} :
                pSeq'[q] = pSeq[q] /\ ota'[q] = ota[q] /\ data'[q] = data[q]
      BY <1>3 DEF LoseTask, TypeOK
    <2>2. OffsetMatchesSeq'
      BY <1>3 DEF FlashInv, OffsetMatchesSeq, cVars
    <2>3. DataMatchesSeq'
      BY <2>1 DEF FlashInv, DataMatchesSeq, LenAt, IsLastAt
    <2>4. NeverPastLast'
      BY <2>1 DEF FlashInv, NeverPastLast, IsLastAt
    <2>5. WrittenImageMatchesSeq'
      BY <1>3, <2>1 DEF FlashInv, WrittenImageMatchesSeq, IsPrefixImage, LenAt, IsLastAt
    <2>6. acks \subseteq [from : Ankers, type : AckTypes, seq : Nat]
      BY DEF TypeOK
    <2>7. LastAckMeansInstalled'
      BY <1>2, <1>3, <2>6, LastAckKept DEF FlashInv
    <2> QED
      BY <1>3, <2>2, <2>3, <2>4, <2>5, <2>7 DEF FlashInv
  <1>4. ASSUME UNCHANGED <<cVars, image, acks>>, Restart(p), StatusFileTellsTruth'
        PROVE  FlashInv'
    <2>1. /\ bootImage'[p] \in {bootImage[p], fallback[p]}
          /\ \A q \in Ankers \ {p} : bootImage'[q] = bootImage[q] /\ otaState'[q] = otaState[q]
          /\ otaState'[p] # "valid" => bootImage'[p] = bootImage[p] /\ otaState[p] # "valid"
          /\ UNCHANGED fallback
      BY <1>4 DEF Restart, Bootloader, TypeOK
    <2>2. /\ mode'[p] = "booting"
          /\ \A q \in Ankers \ {p} : mode'[q] = mode[q]
      BY <1>4 DEF Restart, TypeOK
    <2>3. BootsOnlyCompleteImage'
      BY <2>1 DEF FlashInv, BootsOnlyCompleteImage
    <2>4. InstallingBootsNew'
      BY <2>1, <2>2 DEF FlashInv, InstallingBootsNew
    <2> QED
      BY <1>3, <1>4, <2>3, <2>4 DEF Restart
  <1>5. ASSUME NEW found \in {"INSTALLED", status[p]}, RestartInstalled(p, found)
        PROVE  FlashInv'
    <2>1. HasInstalled(p)
      BY <1>5 DEF RestartInstalled, FlashInv, InstallingBootsNew, HasInstalled
    <2>2. \A q \in Ankers : status'[q] = status[q] \/ q = p
      BY <1>5 DEF RestartInstalled, TypeOK
    <2>3. StatusFileTellsTruth'
      BY <1>2, <2>1, <2>2 DEF FlashInv, StatusFileTellsTruth
    <2> QED
      BY <1>4, <1>5, <2>3 DEF RestartInstalled
  <1>6. CASE LosePower(p)
    <2>1. StatusFileTellsTruth'
      BY <1>2, <1>6 DEF LosePower, FlashInv, StatusFileTellsTruth
    <2> QED
      BY <1>4, <1>6, <2>1 DEF LosePower
  <1>7. ASSUME UNCHANGED <<cVars, pSeq, ota, image, bootImage, fallback, reverted, netVars>>,
               mode'[p] # "installing",
               \A q \in Ankers : q # p => mode'[q] = mode[q],
               \A q \in Ankers : otaState'[q] \in {otaState[q], "valid"},
               \A q \in Ankers : status'[q] \in {status[q], "other"}
        PROVE  FlashInv'
    <2>1. InstallingBootsNew'
      BY <1>7 DEF FlashInv, InstallingBootsNew
    <2>2. StatusFileTellsTruth'
      BY <1>7 DEF FlashInv, StatusFileTellsTruth, HasInstalled
    <2> QED
      BY <1>7, <2>1, <2>2
         DEF FlashInv, cVars, netVars, OffsetMatchesSeq, DataMatchesSeq,
             NeverPastLast, WrittenImageMatchesSeq, BootsOnlyCompleteImage,
             LastAckMeansInstalled, HasInstalled, IsLastAt, LenAt
  <1>8. ASSUME NEW marked \in BOOLEAN, NEW read \in BOOLEAN, StartUpdater(p, marked, read)
        PROVE  FlashInv'
    <2>1. mode'[p] # "installing" /\ \A q \in Ankers : q # p => mode'[q] = mode[q]
      BY <1>8 DEF StartUpdater, TypeOK
    <2>2. \A q \in Ankers : otaState'[q] \in {otaState[q], "valid"}
      BY <1>8 DEF StartUpdater, TypeOK
    <2>3. \A q \in Ankers : status'[q] \in {status[q], "other"}
      BY <1>8 DEF StartUpdater, TypeOK
    <2> QED
      BY <1>7, <1>8, <2>1, <2>2, <2>3 DEF StartUpdater
  <1>9. ASSUME NEW joined \in BOOLEAN, Rejoin(p, joined)
        PROVE  FlashInv'
    <2>1. mode'[p] # "installing" /\ \A q \in Ankers : q # p => mode'[q] = mode[q]
      BY <1>9 DEF Rejoin, TypeOK
    <2> QED
      BY <1>7, <1>9, <2>1 DEF Rejoin, bootVars
  <1>10. CASE RestartPolling(p)
    BY <1>3, <1>10 DEF RestartPolling, FlashInv, BootsOnlyCompleteImage,
                       InstallingBootsNew, StatusFileTellsTruth, bootVars, HasInstalled
  <1> QED
    BY <1>1, <1>5, <1>6, <1>8, <1>9, <1>10 DEF PAnkerStep

(* The C-Anker's steps preserve FlashInv: it sends the chunk its seq stands  *)
(* for, and enters only an acknowledgement of it (updater.cpp:364-380,       *)
(* 530-635).                                                                 *)
LEMMA CAnkerStepFlash == TypeOK /\ FlashInv /\ CAnkerStep => FlashInv'
  <1> SUFFICES ASSUME TypeOK, FlashInv, CAnkerStep
               PROVE  FlashInv'
    OBVIOUS
  <1>1. UNCHANGED pVars
    BY DEF CAnkerStep, ReadFails, SendFails, SendChunk, FinishTransfer, ReceiveAck,
           RetrieveTimeout, SkipKicked, JudgeCorrect, JudgeFailed, AllKicked,
           RetryChunk, NextChunk
  <1>2. /\ NeverPastLast' /\ WrittenImageMatchesSeq' /\ BootsOnlyCompleteImage'
        /\ InstallingBootsNew' /\ StatusFileTellsTruth'
    BY <1>1 DEF pVars, bootVars, HasInstalled, FlashInv, NeverPastLast, WrittenImageMatchesSeq,
                BootsOnlyCompleteImage, InstallingBootsNew, StatusFileTellsTruth
  <1>3. ASSUME OffsetMatchesSeq', DataMatchesSeq', LastAckMeansInstalled'
        PROVE  FlashInv'
    BY <1>2, <1>3 DEF FlashInv
  <1>4. ASSUME UNCHANGED <<offset, seq, data, answer>>, acks' \subseteq acks,
               pc' \in {pc, "failed"} \/ (pc = "judge" /\ pc' = "send")
                 \/ (pc = "send" /\ offset >= PartitionSize /\ pc' = "done")
        PROVE  FlashInv'
    <2>1. OffsetMatchesSeq'
      BY <1>4 DEF FlashInv, OffsetMatchesSeq
    <2>2. DataMatchesSeq'
      BY <1>4 DEF FlashInv, DataMatchesSeq, LenAt, IsLastAt
    <2>3. LastAckMeansInstalled'
      BY <1>1, <1>4 DEF FlashInv, LastAckMeansInstalled, pVars, bootVars, HasInstalled
    <2> QED
      BY <1>3, <2>1, <2>2, <2>3
  <1>5. CASE ReadFails
    BY <1>4, <1>5 DEF ReadFails, StopTransfer
  <1>6. CASE SendFails
    BY <1>4, <1>6 DEF SendFails, StopTransfer
  <1>7. CASE FinishTransfer
    BY <1>4, <1>7 DEF FinishTransfer, StopTransfer
  <1>8. CASE SkipKicked
    BY <1>4, <1>8 DEF SkipKicked, netVars
  <1>9. CASE JudgeCorrect
    BY <1>4, <1>9 DEF JudgeCorrect, netVars
  <1>10. CASE JudgeFailed
    BY <1>4, <1>10 DEF JudgeFailed, netVars
  <1>11. CASE AllKicked
    BY <1>4, <1>11 DEF AllKicked, StopTransfer
  <1>12. CASE SendChunk
    <2>1. /\ Chunk.seq = seq /\ Chunk.offset = offset
          /\ Chunk.len = LenAt(offset) /\ Chunk.last = IsLastAt(offset)
      BY DEF Chunk
    <2>2. \A q \in Ankers : data'[q] \subseteq data[q] \cup {Chunk}
      BY <1>12 DEF SendChunk, Deliver, TypeOK
    <2>3. offset = seq * DataMaxLen /\ offset < PartitionSize
      BY <1>12 DEF SendChunk, FlashInv, OffsetMatchesSeq
    <2>4. DataMatchesSeq'
      BY <2>1, <2>2, <2>3 DEF FlashInv, DataMatchesSeq, LenAt, IsLastAt
    <2>5. OffsetMatchesSeq'
      BY <1>12 DEF SendChunk, FlashInv, OffsetMatchesSeq
    <2>6. LastAckMeansInstalled'
      BY <1>1, <1>12 DEF SendChunk, FlashInv, LastAckMeansInstalled, pVars, bootVars, HasInstalled
    <2> QED
      BY <1>3, <2>4, <2>5, <2>6
  <1>13. ASSUME pc = "collect", UNCHANGED <<offset, seq, data>>,
                NEW got, EndRetrieve(got, acks) \/ KeepCollecting(got, acks)
                         \/ \E left \in SUBSET acks :
                               EndRetrieve(got, left) \/ KeepCollecting(got, left),
                \A q \in Ankers : got[q] = "ok" /\ IsLastAt(offset)
                                   => HasInstalled(q)
         PROVE  FlashInv'
    <2>1. answer' = got /\ pc' \in {"send", "judge", "failed", "collect"} /\ acks' \subseteq acks
      BY <1>13 DEF EndRetrieve, KeepCollecting, StopTransfer
    <2>2. OffsetMatchesSeq'
      BY <1>13, <2>1 DEF FlashInv, OffsetMatchesSeq
    <2>3. DataMatchesSeq'
      BY <1>13 DEF FlashInv, DataMatchesSeq, LenAt, IsLastAt
    <2>4. LastAckMeansInstalled'
      BY <1>1, <1>13, <2>1 DEF FlashInv, LastAckMeansInstalled, pVars, bootVars, HasInstalled, IsLastAt
    <2> QED
      BY <1>3, <2>2, <2>3, <2>4
  <1>14. ASSUME NEW a \in acks, NEW left \in {acks, acks \ {a}}, ReceiveAck(a, left)
         PROVE  FlashInv'
    <2> DEFINE got == [answer EXCEPT ![a.from] = Verdict(a)]
    <2>1. /\ pc = "collect" /\ UNCHANGED <<offset, seq, data>> /\ left \in SUBSET acks
      BY <1>14 DEF ReceiveAck
    <2>2. ASSUME NEW q \in Ankers, answer[q] = "ok", IsLastAt(offset)
          PROVE  HasInstalled(q)
      BY <2>1, <2>2 DEF FlashInv, LastAckMeansInstalled
    <2>3. CASE KeepCollecting(answer, left) \/ EndRetrieve(answer, left)
      BY <1>13, <2>1, <2>2, <2>3
    <2>4. CASE /\ ~IsOutdated(a)
               /\ KeepCollecting(got, left) \/ EndRetrieve(got, left)
      <3>1. ASSUME NEW q \in Ankers, got[q] = "ok", IsLastAt(offset)
            PROVE  HasInstalled(q)
        <4>1. CASE q # a.from
          BY <2>2, <3>1, <4>1 DEF TypeOK
        <4>2. CASE q = a.from
          <5>1. a.type = "RCVD"
            BY <3>1, <4>2 DEF TypeOK, Verdict
          <5>2. a.seq * DataMaxLen = offset
            BY <2>1, <2>4, <5>1 DEF IsOutdated, FlashInv, OffsetMatchesSeq
          <5> QED
            BY <3>1, <4>2, <5>1, <5>2 DEF FlashInv, LastAckMeansInstalled
        <4> QED
          BY <4>1, <4>2
      <3> HIDE DEF got
      <3> QED
        BY <1>13, <2>1, <2>4, <3>1
    <2> QED
      BY <1>14, <2>3, <2>4 DEF ReceiveAck
  <1>15. CASE RetrieveTimeout
    <2>1. /\ pc = "collect" /\ UNCHANGED <<offset, seq, data>>
          /\ EndRetrieve(answer, acks)
      BY <1>15 DEF RetrieveTimeout
    <2>2. \A q \in Ankers : answer[q] = "ok" /\ IsLastAt(offset) => HasInstalled(q)
      BY <2>1 DEF FlashInv, LastAckMeansInstalled
    <2> QED
      BY <1>13, <2>1, <2>2
  <1>16. ASSUME pc' = "send", UNCHANGED <<data, acks>>, OffsetMatchesSeq'
         PROVE  FlashInv'
    <2>1. DataMatchesSeq'
      BY <1>16 DEF FlashInv, DataMatchesSeq, LenAt, IsLastAt
    <2>2. LastAckMeansInstalled'
      BY <1>1, <1>16 DEF FlashInv, LastAckMeansInstalled, pVars, bootVars, HasInstalled, IsLastAt
    <2> QED
      BY <1>3, <1>16, <2>1, <2>2
  <1>17. CASE RetryChunk
    BY <1>16, <1>17 DEF RetryChunk, EndRound, netVars, FlashInv, OffsetMatchesSeq
  <1>18. CASE NextChunk
    <2>1. /\ pc' = "send" /\ UNCHANGED <<data, acks>>
          /\ offset' = offset + LenAt(offset) /\ seq' = seq + 1
      BY <1>18 DEF NextChunk, EndRound, netVars
    <2>2. offset = seq * DataMaxLen /\ offset \in Nat /\ seq \in Nat
      BY <1>18 DEF NextChunk, Judged, FlashInv, OffsetMatchesSeq, TypeOK
    <2>3. (seq + 1) * DataMaxLen = seq * DataMaxLen + DataMaxLen
      BY <2>2, TransferAssumption
    <2>4. offset' < PartitionSize => offset' = seq' * DataMaxLen
      BY <2>1, <2>2, <2>3, TransferAssumption DEF LenAt, IsLastAt
    <2>5. OffsetMatchesSeq'
      BY <2>1, <2>4 DEF OffsetMatchesSeq
    <2> QED
      BY <1>16, <2>1, <2>5
  <1> QED
    BY <1>5, <1>6, <1>7, <1>8, <1>9, <1>10, <1>11, <1>12, <1>14, <1>15, <1>17, <1>18
       DEF CAnkerStep

(* Losing a datagram preserves FlashInv.                                     *)
LEMMA NetworkStepFlash == TypeOK /\ FlashInv /\ NetworkStep => FlashInv'
  <1> SUFFICES ASSUME TypeOK, FlashInv, NetworkStep
               PROVE  FlashInv'
    OBVIOUS
  <1>1. /\ UNCHANGED <<cVars, pVars>>
        /\ acks' \subseteq acks
        /\ \A q \in Ankers : data'[q] \subseteq data[q]
    BY DEF NetworkStep, LoseData, LoseAck, TypeOK
  <1>2. DataMatchesSeq'
    BY <1>1 DEF FlashInv, DataMatchesSeq, LenAt, IsLastAt
  <1>3. LastAckMeansInstalled'
    BY <1>1 DEF FlashInv, LastAckMeansInstalled, cVars, pVars, bootVars, IsLastAt, HasInstalled
  <1> QED
    BY <1>1, <1>2, <1>3
       DEF FlashInv, cVars, pVars, bootVars, OffsetMatchesSeq, NeverPastLast, WrittenImageMatchesSeq,
           BootsOnlyCompleteImage, InstallingBootsNew, StatusFileTellsTruth, HasInstalled

------------------------------------------------------------------------------
(* The C-Anker's counters mean what they are used for.                       *)

(* The sets that the loop's two counters count are finite (updater.cpp:518,  *)
(* 578).                                                                     *)
LEMMA CountedSetsFinite ==
    ASSUME TypeOK
    PROVE  IsFiniteSet(Unkicked) /\ IsFiniteSet(PassedCorrect)
  <1>1. IsFiniteSet(Listed)
    BY FS_Interval, TransferAssumption DEF Listed
  <1>2. Unkicked \in SUBSET Listed
    BY DEF Unkicked
  <1>3. i - 1 \in Int
    BY DEF TypeOK
  <1>4. IsFiniteSet(1..(i - 1)) /\ PassedCorrect \in SUBSET (1..(i - 1))
    BY <1>3, FS_Interval DEF PassedCorrect
  <1> QED
    BY <1>1, <1>2, <1>4, FS_Subset

(* Each step of the loop keeps the counters true, the kick of an Anker       *)
(* included (updater.cpp:579-631).                                           *)
LEMMA CAnkerStepCounts ==
    TypeOK /\ RemainingCountsUnkicked /\ RoundCount /\ CAnkerStep
        => RemainingCountsUnkicked' /\ RoundCount'
  <1> SUFFICES ASSUME TypeOK, RemainingCountsUnkicked, RoundCount, CAnkerStep
               PROVE  RemainingCountsUnkicked' /\ RoundCount'
    OBVIOUS
  <1>1. ASSUME UNCHANGED <<failCnt, remaining>>
        PROVE  RemainingCountsUnkicked'
    BY <1>1 DEF RemainingCountsUnkicked, Unkicked, IsKicked
  <1>2. ASSUME UNCHANGED <<i, numCorrect>>, pc \in {"send", "collect"}
        PROVE  RoundCount'
    <2>1. i' = 1 /\ numCorrect' = 0
      BY <1>2 DEF RoundCount
    <2>2. Cardinality(PassedCorrect') = 0
      BY <2>1, FS_EmptySet DEF PassedCorrect
    <2> QED
      BY <2>1, <2>2 DEF RoundCount
  <1>3. CASE ReadFails \/ SendFails \/ SendChunk \/ FinishTransfer
    BY <1>1, <1>2, <1>3 DEF ReadFails, SendFails, SendChunk, FinishTransfer
  <1>4. CASE \E a \in acks : \E left \in {acks, acks \ {a}} : ReceiveAck(a, left)
    BY <1>1, <1>2, <1>4 DEF ReceiveAck
  <1>5. CASE RetrieveTimeout
    BY <1>1, <1>2, <1>5 DEF RetrieveTimeout
  <1>6. CASE AllKicked
    BY <1>1, <1>6 DEF AllKicked, StopTransfer, RoundCount
  <1>7. CASE RetryChunk
    BY <1>1, <1>7 DEF RetryChunk, EndRound, RoundCount
  <1>8. CASE NextChunk
    BY <1>1, <1>8 DEF NextChunk, EndRound, RoundCount
  <1>9. ASSUME pc = "judge", i <= remaining
        PROVE  /\ i \in Listed /\ i \in Nat
               /\ 1..i = 1..(i - 1) \cup {i} /\ i \notin 1..(i - 1)
               /\ \A k \in 1..(i - 1) : k \in Listed /\ k # i
    BY <1>9, TransferAssumption DEF TypeOK, Listed
  <1>10. CASE SkipKicked
    <2>1. /\ pc = "judge" /\ i <= remaining /\ IsKicked(i) /\ i' = i + 1
          /\ UNCHANGED <<pc, failCnt, remaining, answer, numCorrect>>
      BY <1>10 DEF SkipKicked
    <2>2. i' - 1 = i
      BY <2>1 DEF TypeOK
    <2>3. PassedCorrect' = PassedCorrect
      BY <1>9, <2>1, <2>2 DEF PassedCorrect, IsKicked
    <2>4. \A k \in 1..(i' - 1) : k > remaining => IsKicked(k)'
      BY <1>9, <2>1, <2>2 DEF RoundCount, IsKicked
    <2> QED
      BY <1>1, <2>1, <2>3, <2>4 DEF RoundCount
  <1>11. CASE JudgeCorrect
    <2>1. /\ pc = "judge" /\ i <= remaining /\ ~IsKicked(i) /\ answer[i] = "ok"
          /\ i' = i + 1 /\ numCorrect' = numCorrect + 1
          /\ failCnt' = [failCnt EXCEPT ![i] = 0]
          /\ UNCHANGED <<pc, remaining, answer>>
      BY <1>11 DEF JudgeCorrect
    <2>2. i' - 1 = i
      BY <2>1 DEF TypeOK
    <2>3. /\ failCnt'[i] = 0
          /\ \A k \in Listed : k # i => failCnt'[k] = failCnt[k]
      BY <1>9, <2>1 DEF TypeOK
    <2>4. \A k \in Listed : IsKicked(k)' <=> IsKicked(k)
      BY <2>1, <2>3, TransferAssumption DEF IsKicked
    <2>5. Unkicked' = Unkicked
      BY <2>4 DEF Unkicked
    <2>6. PassedCorrect' = PassedCorrect \cup {i}
      BY <1>9, <2>1, <2>2, <2>4 DEF PassedCorrect
    <2>7. i \notin PassedCorrect
      BY <1>9, <2>1 DEF PassedCorrect
    <2>8. Cardinality(PassedCorrect') = Cardinality(PassedCorrect) + 1
      BY <2>6, <2>7, CountedSetsFinite, FS_AddElement
    <2>9. ASSUME NEW k \in 1..(i' - 1), k > remaining
          PROVE  IsKicked(k)'
      <3>1. k \in 1..(i - 1)
        BY <2>1, <2>2, <2>9 DEF TypeOK
      <3> QED
        BY <1>9, <2>1, <2>4, <2>9, <3>1 DEF RoundCount
    <2> QED
      BY <2>1, <2>5, <2>8, <2>9 DEF RoundCount, RemainingCountsUnkicked
  <1>12. CASE JudgeFailed
    <2>1. /\ pc = "judge" /\ i <= remaining /\ ~IsKicked(i) /\ answer[i] # "ok"
          /\ i' = i + 1
          /\ failCnt' = [failCnt EXCEPT ![i] = @ + 1]
          /\ remaining' = IF failCnt[i] + 1 < MaxFailsToKick
                            THEN remaining ELSE remaining - 1
          /\ UNCHANGED <<pc, answer, numCorrect>>
      BY <1>12 DEF JudgeFailed
    <2>2. i' - 1 = i
      BY <2>1 DEF TypeOK
    <2>3. /\ failCnt'[i] = failCnt[i] + 1
          /\ \A k \in Listed : k # i => failCnt'[k] = failCnt[k]
      BY <1>9, <2>1 DEF TypeOK
    <2>4. \A k \in Listed : k # i => (IsKicked(k)' <=> IsKicked(k))
      BY <2>3 DEF IsKicked
    <2>5. PassedCorrect' = PassedCorrect
      BY <1>9, <2>1, <2>2, <2>4 DEF PassedCorrect
    <2>6. CASE failCnt[i] + 1 < MaxFailsToKick
      <3>1. ~(failCnt'[i] >= MaxFailsToKick)
        BY <1>9, <2>1, <2>3, <2>6, TransferAssumption DEF TypeOK
      <3>2. \A k \in Listed : IsKicked(k)' <=> IsKicked(k)
        BY <2>1, <2>4, <3>1 DEF IsKicked
      <3>3. Unkicked' = Unkicked
        BY <3>2 DEF Unkicked
      <3>4. ASSUME NEW k \in 1..(i' - 1), k > remaining'
            PROVE  IsKicked(k)'
        <4>1. k \in 1..(i - 1) /\ k > remaining
          BY <2>1, <2>2, <2>6, <3>4 DEF TypeOK
        <4> QED
          BY <1>9, <2>1, <3>2, <4>1 DEF RoundCount
      <3> QED
        BY <2>1, <2>5, <2>6, <3>3, <3>4 DEF RoundCount, RemainingCountsUnkicked
    <2>7. CASE ~(failCnt[i] + 1 < MaxFailsToKick)
      <3>1. failCnt'[i] >= MaxFailsToKick
        BY <1>9, <2>1, <2>3, <2>7, TransferAssumption DEF TypeOK
      <3>2. Unkicked' = Unkicked \ {i} /\ i \in Unkicked
        BY <1>9, <2>1, <2>3, <3>1 DEF Unkicked, IsKicked
      <3>3. Cardinality(Unkicked') = Cardinality(Unkicked) - 1
        BY <3>2, CountedSetsFinite, FS_RemoveElement
      <3>4. \A k \in 1..(i' - 1) : k > remaining' => IsKicked(k)'
        BY <1>9, <2>1, <2>2, <2>4, <2>7, <3>1 DEF RoundCount, IsKicked, TypeOK
      <3> QED
        BY <2>1, <2>5, <2>7, <3>3, <3>4 DEF RoundCount, RemainingCountsUnkicked
    <2> QED
      BY <2>6, <2>7
  <1> QED
    BY <1>3, <1>4, <1>5, <1>6, <1>7, <1>8, <1>10, <1>11, <1>12 DEF CAnkerStep

(* When the two counters agree, each Anker not kicked has acknowledged the   *)
(* chunk, and there is one (updater.cpp:623-634).                            *)
LEMMA CountersAgree ==
    ASSUME TypeOK, RemainingCountsUnkicked, RoundCount,
           pc = "judge", i > remaining, remaining # 0, numCorrect = remaining
    PROVE  /\ Unkicked = PassedCorrect
           /\ Unkicked # {}
           /\ \A p \in Unkicked : answer[p] = "ok"
  <1>1. Cardinality(PassedCorrect) = Cardinality(Unkicked)
    BY DEF RemainingCountsUnkicked, RoundCount
  <1>2. \A k \in 1..(i - 1) : k \in Listed
    BY TransferAssumption DEF TypeOK, Listed
  <1>3. PassedCorrect \in SUBSET Unkicked
    BY <1>2 DEF PassedCorrect, Unkicked
  <1>4. Unkicked = PassedCorrect
    BY <1>1, <1>3, CountedSetsFinite, FS_Subset
  <1>5. Unkicked # {}
    BY FS_EmptySet DEF RemainingCountsUnkicked
  <1> QED
    BY <1>4, <1>5 DEF PassedCorrect

(* The chunk after which the loop leaves the partition is sent with is_last: *)
(* this is where the partition size must not be a multiple of the chunk size *)
(* (updater.cpp:531-535, 633).                                               *)
LEMMA LastChunkIsMarked ==
    ASSUME TypeOK, offset = seq * DataMaxLen, offset + LenAt(offset) >= PartitionSize
    PROVE  IsLastAt(offset)
  <1> SUFFICES ASSUME ~IsLastAt(offset)
               PROVE  FALSE
    OBVIOUS
  <1>1. seq \in Nat /\ DataMaxLen \in Nat \ {0} /\ PartitionSize \in Nat
    BY TransferAssumption DEF TypeOK
  <1>2. offset + DataMaxLen = PartitionSize
    BY <1>1 DEF TypeOK, LenAt, IsLastAt
  <1>3. (seq + 1) * DataMaxLen = seq * DataMaxLen + DataMaxLen
    BY <1>1
  <1>4. seq + 1 <= (seq + 1) * DataMaxLen
    BY <1>1
  <1>5. seq + 1 \in 0..PartitionSize /\ (seq + 1) * DataMaxLen = PartitionSize
    BY <1>1, <1>2, <1>3, <1>4
  <1> QED
    BY <1>5, TransferAssumption

(* Every step, of the C-Anker and the network as well, leaves an Anker that  *)
(* was set to boot the new firmware one that was (updater.cpp:980).          *)
LEMMA InstalledKept ==
    ASSUME TypeOK, FlashInv, [Next]_vars, NEW q \in Ankers, HasInstalled(q)
    PROVE  HasInstalled(q)'
  <1>1. CASE UNCHANGED pVars
    BY <1>1 DEF pVars, bootVars, HasInstalled
  <1>2. CASE \E p \in Ankers : PAnkerStep(p)
    BY <1>2, InstalledStays
  <1>3. CAnkerStep \/ NetworkStep \/ UNCHANGED vars => UNCHANGED pVars
    BY DEF vars, CAnkerStep, NetworkStep, ReadFails, SendFails, SendChunk,
           FinishTransfer, ReceiveAck, RetrieveTimeout, SkipKicked, JudgeCorrect,
           JudgeFailed, AllKicked, RetryChunk, NextChunk, LoseData, LoseAck
  <1> QED
    BY <1>1, <1>2, <1>3 DEF Next

(* Leaving the partition means that each Anker left is installed, and stays  *)
(* so (updater.cpp:628-641).                                                 *)
LEMMA EndMeansInstalledKept ==
    ASSUME TypeOK, FlashInv, RemainingCountsUnkicked, RoundCount, EndMeansInstalled,
           [Next]_vars
    PROVE  EndMeansInstalled'
  <1>1. \A p \in Ankers : HasInstalled(p) => HasInstalled(p)'
    BY InstalledKept
  <1>2. \A p \in Listed : p \in Ankers
    BY TransferAssumption DEF Listed, Ankers
  <1>3. ASSUME pc \in {"send", "done"}, UNCHANGED <<offset, failCnt>>
        PROVE  EndMeansInstalled'
    <2>1. Unkicked' = Unkicked /\ \A p \in Unkicked : p \in Ankers
      BY <1>2, <1>3 DEF Unkicked, IsKicked
    <2> QED
      BY <1>1, <1>3, <2>1 DEF EndMeansInstalled
  <1>4. ASSUME pc' \notin {"send", "done"} \/ ~(offset' >= PartitionSize)
        PROVE  EndMeansInstalled'
    BY <1>4 DEF EndMeansInstalled
  <1>15. offset < PartitionSize => ~(offset >= PartitionSize)
    BY TransferAssumption DEF TypeOK
  <1>5. CASE UNCHANGED cVars
    <2>1. CASE pc \in {"send", "done"}
      BY <1>3, <1>5, <2>1 DEF cVars
    <2>2. CASE pc \notin {"send", "done"}
      BY <1>4, <1>5, <2>2 DEF cVars
    <2> QED
      BY <2>1, <2>2
  <1>6. CASE ReadFails \/ SendFails \/ SendChunk \/ FinishTransfer
    BY <1>3, <1>6 DEF ReadFails, SendFails, SendChunk, FinishTransfer
  <1>7. CASE \/ \E a \in acks : \E left \in {acks, acks \ {a}} : ReceiveAck(a, left)
             \/ RetrieveTimeout
    <2>1. pc = "collect" /\ UNCHANGED offset
      BY <1>7 DEF ReceiveAck, RetrieveTimeout
    <2> QED
      BY <1>4, <1>15, <2>1 DEF FlashInv, OffsetMatchesSeq
  <1>8. CASE SkipKicked \/ JudgeCorrect \/ JudgeFailed
    BY <1>4, <1>8 DEF SkipKicked, JudgeCorrect, JudgeFailed
  <1>9. CASE AllKicked
    BY <1>4, <1>9 DEF AllKicked, StopTransfer
  <1>10. CASE RetryChunk
    BY <1>4, <1>10, <1>15 DEF RetryChunk, Judged, FlashInv, OffsetMatchesSeq
  <1>11. CASE NextChunk
    <2>1. /\ pc = "judge" /\ i > remaining /\ remaining # 0 /\ numCorrect = remaining
          /\ offset' = offset + LenAt(offset) /\ UNCHANGED failCnt
      BY <1>11 DEF NextChunk, Judged, RoundFailed
    <2>2. Unkicked # {} /\ \A p \in Unkicked : answer[p] = "ok"
      BY <2>1, CountersAgree
    <2>3. offset = seq * DataMaxLen
      BY <2>1 DEF FlashInv, OffsetMatchesSeq
    <2>4. CASE offset' >= PartitionSize
      <3>1. IsLastAt(offset)
        BY <2>1, <2>3, <2>4, LastChunkIsMarked
      <3>2. \A p \in Unkicked : HasInstalled(p)
        BY <1>2, <2>1, <2>2, <3>1 DEF FlashInv, LastAckMeansInstalled, Unkicked
      <3>3. Unkicked' = Unkicked /\ \A p \in Unkicked : p \in Ankers
        BY <1>2, <2>1 DEF Unkicked, IsKicked
      <3> QED
        BY <1>1, <2>2, <3>2, <3>3 DEF EndMeansInstalled
    <2>5. CASE ~(offset' >= PartitionSize)
      BY <2>5 DEF EndMeansInstalled
    <2> QED
      BY <2>4, <2>5
  <1>12. ASSUME NEW p \in Ankers, PAnkerStep(p)
         PROVE  UNCHANGED cVars
    BY <1>12 DEF PAnkerStep, HandlerStep, AckResend, RefuseChunk, WriteChunk,
                 InstallImage, FlashFails, RestartInstalled, StartUpdater, Rejoin, RestartPolling,
                 LosePower
  <1>13. CASE NetworkStep
    BY <1>5, <1>13 DEF NetworkStep, LoseData, LoseAck
  <1>14. CASE UNCHANGED vars
    BY <1>5, <1>14 DEF vars
  <1> QED
    BY <1>5, <1>6, <1>7, <1>8, <1>9, <1>10, <1>11, <1>12, <1>13, <1>14
       DEF Next, CAnkerStep

------------------------------------------------------------------------------
(* The theorems.                                                             *)

(* The transfer starts in the invariant (updater.cpp:503-519).               *)
LEMMA InitIInv == Init => IInv
  <1> SUFFICES ASSUME Init
               PROVE  IInv
    OBVIOUS
  <1>1. TypeOK
    BY InitType
  <1>2. \A a \in acks : a.type # "RCVD"
    BY DEF Init, AckMsg
  <1>3. FlashInv
    BY <1>2, TransferAssumption
       DEF Init, FlashInv, OffsetMatchesSeq, DataMatchesSeq, NeverPastLast,
           WrittenImageMatchesSeq, BootsOnlyCompleteImage, InstallingBootsNew,
           StatusFileTellsTruth, LastAckMeansInstalled
  <1>4. RemainingCountsUnkicked
    <2>1. Unkicked = 1..NumListed
      BY TransferAssumption DEF Init, Unkicked, IsKicked, Listed
    <2>2. Cardinality(1..NumListed) = NumListed
      BY FS_Interval, TransferAssumption
    <2> QED
      BY <2>1, <2>2 DEF Init, RemainingCountsUnkicked
  <1>5. RoundCount
    BY DEF Init, RoundCount
  <1>6. EndMeansInstalled
    BY TransferAssumption DEF Init, EndMeansInstalled
  <1> QED
    BY <1>1, <1>3, <1>4, <1>5, <1>6 DEF IInv

(* Every step of the C-Anker, of an Anker and of the network preserves it    *)
(* (updater.cpp:282-409, 502-642, 849-1050).                                 *)
LEMMA StepIInv == IInv /\ [Next]_vars => IInv'
  <1> SUFFICES ASSUME IInv, [Next]_vars
               PROVE  IInv'
    OBVIOUS
  <1>1. TypeOK /\ FlashInv /\ RemainingCountsUnkicked /\ RoundCount /\ EndMeansInstalled
    BY DEF IInv
  <1>2. ASSUME TypeOK', FlashInv', RemainingCountsUnkicked', RoundCount'
        PROVE  IInv'
    <2>1. EndMeansInstalled'
      BY <1>1, EndMeansInstalledKept
    <2> QED
      BY <1>2, <2>1 DEF IInv
  <1>3. ASSUME UNCHANGED cVars
        PROVE  RemainingCountsUnkicked' /\ RoundCount'
    BY <1>1, <1>3 DEF cVars, RemainingCountsUnkicked, RoundCount, Unkicked, PassedCorrect,
                      IsKicked
  <1>4. CASE CAnkerStep
    BY <1>1, <1>2, <1>4, CAnkerStepType, CAnkerStepFlash, CAnkerStepCounts
  <1>5. ASSUME NEW p \in Ankers, PAnkerStep(p)
        PROVE  IInv'
    <2>1. UNCHANGED cVars
      BY <1>5 DEF PAnkerStep, HandlerStep, AckResend, RefuseChunk, WriteChunk,
                  InstallImage, FlashFails, RestartInstalled, StartUpdater, Rejoin, RestartPolling,
                  LosePower
    <2> QED
      BY <1>1, <1>2, <1>3, <1>5, <2>1, PAnkerStepType, PAnkerStepFlash
  <1>6. CASE NetworkStep
    <2>1. UNCHANGED cVars
      BY <1>6 DEF NetworkStep, LoseData, LoseAck
    <2> QED
      BY <1>1, <1>2, <1>3, <1>6, <2>1, NetworkStepType, NetworkStepFlash
  <1>7. CASE UNCHANGED vars
    BY <1>7 DEF vars, cVars, pVars, bootVars, netVars, IInv, TypeOK, FlashInv, OffsetMatchesSeq,
                DataMatchesSeq, NeverPastLast, WrittenImageMatchesSeq,
                BootsOnlyCompleteImage, InstallingBootsNew, StatusFileTellsTruth,
                LastAckMeansInstalled, RemainingCountsUnkicked, RoundCount,
                EndMeansInstalled, Unkicked, PassedCorrect, IsKicked, IsLastAt, LenAt,
                HasInstalled
  <1> QED
    BY <1>4, <1>5, <1>6, <1>7 DEF Next

(* The inductive invariant holds of every transfer.                          *)
THEOREM Invariance == Spec => []IInv
  BY InitIInv, StepIInv, PTL DEF Spec

(* A successful transfer leaves at least one Anker, and every Anker it did   *)
(* not kick was set to boot the whole new firmware and does so, unless it    *)
(* lost power before it marked it valid, whatever was lost, repeated or      *)
(* restarted on the way (updater.cpp:502-642, 1328-1340).                    *)
THEOREM DoneIsInstalled == Spec => []DoneMeansInstalled
  <1>1. IInv => DoneMeansInstalled
    BY DEF IInv, FlashInv, OffsetMatchesSeq, EndMeansInstalled, DoneMeansInstalled
  <1> QED
    BY Invariance, <1>1, PTL

(* No Anker ever boots an image with a hole, a repetition or a missing end   *)
(* (updater.cpp:938-992).                                                    *)
THEOREM NoPartialBoot == Spec => []BootsOnlyCompleteImage
  <1>1. IInv => BootsOnlyCompleteImage
    BY DEF IInv, FlashInv
  <1> QED
    BY Invariance, <1>1, PTL

(* What an Anker has written is the prefix of the firmware that its sequence *)
(* number says, whatever was repeated, late or failed (updater.cpp:938-992). *)
THEOREM WrittenIsPrefix == Spec => []WrittenImageMatchesSeq
  <1>1. IInv => WrittenImageMatchesSeq
    BY DEF IInv, FlashInv
  <1> QED
    BY Invariance, <1>1, PTL

(* A status file that says INSTALLED belongs to an Anker that was set to     *)
(* boot the new firmware and does, or whose bootloader has gone back from it *)
(* (updater.cpp:973-988, 1328-1340).                                         *)
THEOREM StatusIsTrue == Spec => []StatusFileTellsTruth
  <1>1. IInv => StatusFileTellsTruth
    BY DEF IInv, FlashInv
  <1> QED
    BY Invariance, <1>1, PTL

(* An acknowledgement of the last chunk, in flight or taken, comes from an   *)
(* Anker that boots the new firmware or has reverted from it (updater.cpp:   *)
(* 940-988, 1328-1340).                                                      *)
THEOREM LastAckIsTrue == Spec => []LastAckMeansInstalled
  <1>1. IInv => LastAckMeansInstalled
    BY DEF IInv, FlashInv
  <1> QED
    BY Invariance, <1>1, PTL

(* num_remaining_p_ankers counts the Ankers not kicked (updater.cpp:579-621).*)
THEOREM RemainingIsTrue == Spec => []RemainingCountsUnkicked
  <1>1. IInv => RemainingCountsUnkicked
    BY DEF IInv
  <1> QED
    BY Invariance, <1>1, PTL

(* The sequence number changes in NextChunk only (updater.cpp:634).          *)
LEMMA OnlyNextChunkAdvances == Next /\ seq' # seq => NextChunk
  <1>1. CAnkerStep /\ seq' # seq => NextChunk
    BY DEF CAnkerStep, ReadFails, SendFails, SendChunk, FinishTransfer, ReceiveAck,
           RetrieveTimeout, SkipKicked, JudgeCorrect, JudgeFailed, AllKicked, RetryChunk
  <1>2. ASSUME NEW p \in Ankers, PAnkerStep(p)
        PROVE  seq' = seq
    BY <1>2 DEF PAnkerStep, HandlerStep, AckResend, RefuseChunk, WriteChunk,
                InstallImage, FlashFails, RestartInstalled, StartUpdater, Rejoin, RestartPolling,
                LosePower, cVars
  <1>3. NetworkStep => seq' = seq
    BY DEF NetworkStep, LoseData, LoseAck, cVars
  <1> QED
    BY <1>1, <1>2, <1>3 DEF Next

(* The C-Anker goes on to the next chunk only when each Anker it has not     *)
(* kicked acknowledged this one in this round (updater.cpp:628-634).         *)
THEOREM AdvanceIsUnanimous == Spec => AdvanceOnlyWhenAllAcked
  <1>1. IInv /\ [Next]_vars => [seq' # seq => \A p \in Unkicked : answer[p] = "ok"]_vars
    <2> SUFFICES ASSUME IInv, Next, seq' # seq
                 PROVE  \A p \in Unkicked : answer[p] = "ok"
      BY DEF vars, cVars
    <2>1. NextChunk
      BY OnlyNextChunkAdvances
    <2>2. pc = "judge" /\ i > remaining /\ remaining # 0 /\ numCorrect = remaining
      BY <2>1 DEF NextChunk, Judged, RoundFailed
    <2> QED
      BY <2>2, CountersAgree DEF IInv
  <1> QED
    BY Invariance, <1>1, PTL DEF Spec, AdvanceOnlyWhenAllAcked

(* Once kicking an Anker left another where the judging loop does not look,  *)
(* the transfer never gets past its chunk (updater.cpp:579-631).             *)
THEOREM StrandedIsStuck == Spec => StrandedNeverAdvances
  <1>1. IInv /\ [Next]_vars => [seq' # seq => ~Stranded]_vars
    <2> SUFFICES ASSUME IInv, Next, Stranded, seq' # seq
                 PROVE  FALSE
      BY DEF vars, cVars
    <2>1. NextChunk
      BY OnlyNextChunkAdvances
    <2>2. pc = "judge" /\ i > remaining /\ remaining # 0 /\ numCorrect = remaining
      BY <2>1 DEF NextChunk, Judged, RoundFailed
    <2>3. Unkicked = PassedCorrect
      BY <2>2, CountersAgree DEF IInv
    <2> QED
      BY <2>2, <2>3 DEF IInv, RoundCount, Stranded, PassedCorrect
  <1> QED
    BY Invariance, <1>1, PTL DEF Spec, StrandedNeverAdvances

(* What the C-Anker's steps are to the rollout: a kick, the end, or nothing  *)
(* (updater.cpp:530-641).                                                    *)
LEMMA CAnkerStepRollout ==
    ASSUME IInv, CAnkerStep
    PROVE  [Rollout!Next]_(Rollout!vars)
  <1> USE DEF Rollout!Ankers, Rollout!Listed
  <1>1. TypeOK /\ UNCHANGED bootVars
    BY DEF IInv, CAnkerStep, ReadFails, SendFails, SendChunk, FinishTransfer, ReceiveAck,
           RetrieveTimeout, SkipKicked, JudgeCorrect, JudgeFailed, AllKicked,
           RetryChunk, NextChunk, pVars, bootVars
  <1>16. UNCHANGED [p \in Ankers |-> Firmware(p)]
    BY <1>1 DEF bootVars, Firmware
  <1>2. ASSUME UNCHANGED failCnt, ~Over, ~Over'
        PROVE  [Rollout!Next]_(Rollout!vars)
    <2>1. Unkicked' = Unkicked
      BY <1>2 DEF Unkicked, IsKicked
    <2> QED
      BY <1>2, <1>16, <2>1 DEF Rollout!vars
  <1>3. ASSUME UNCHANGED failCnt, ~Over, pc' = "failed"
        PROVE  [Rollout!Next]_(Rollout!vars)
    <2>1. Unkicked' = Unkicked /\ Over'
      BY <1>3 DEF Unkicked, IsKicked, Over
    <2>2. Rollout!Abort
      BY <1>3, <1>16, <2>1 DEF Rollout!Abort
    <2> QED
      BY <2>2 DEF Rollout!Next
  <1>4. CASE ReadFails \/ SendFails
    <2>1. pc = "send" /\ pc' \in {"send", "failed"} /\ UNCHANGED failCnt
      BY <1>4 DEF ReadFails, SendFails, StopTransfer
    <2> QED
      BY <1>2, <1>3, <2>1 DEF Over
  <1>5. CASE SendChunk
    BY <1>2, <1>5 DEF SendChunk, Over
  <1>6. CASE \/ \E a \in acks : \E left \in {acks, acks \ {a}} : ReceiveAck(a, left)
             \/ RetrieveTimeout
    <2>1. pc = "collect" /\ UNCHANGED failCnt
      BY <1>6 DEF ReceiveAck, RetrieveTimeout
    <2>2. pc' \in {"collect", "send", "judge", "failed"}
      BY <1>6 DEF ReceiveAck, RetrieveTimeout, EndRetrieve, KeepCollecting, StopTransfer
    <2> QED
      BY <1>2, <1>3, <2>1, <2>2 DEF Over
  <1>7. CASE SkipKicked
    BY <1>2, <1>7 DEF SkipKicked, Over
  <1>8. CASE RetryChunk
    BY <1>2, <1>8 DEF RetryChunk, EndRound, Judged, Over
  <1>9. CASE NextChunk
    BY <1>2, <1>9 DEF NextChunk, EndRound, Judged, Over
  <1>10. CASE AllKicked
    BY <1>3, <1>10 DEF AllKicked, StopTransfer, Judged, Over
  <1>11. CASE FinishTransfer
    <2>1. pc = "send" /\ offset >= PartitionSize /\ pc' = "done" /\ UNCHANGED failCnt
      BY <1>11 DEF FinishTransfer, StopTransfer
    <2>2. Unkicked' = Unkicked /\ Over' /\ ~Over
      BY <2>1 DEF Unkicked, IsKicked, Over
    <2>3. Unkicked # {} /\ \A p \in Unkicked : HasInstalled(p)
      BY <2>1 DEF IInv, EndMeansInstalled
    <2>4. Listed \ (Listed \ Unkicked) = Unkicked
      BY DEF Unkicked
    <2>5. \A p \in Unkicked : p \in Ankers /\ Firmware(p) # "old"
      BY <2>3, TransferAssumption DEF Unkicked, Listed, Ankers, HasInstalled, IsComplete, Firmware
    <2>6. Rollout!Succeed
      BY <1>16, <2>1, <2>2, <2>3, <2>4, <2>5 DEF Rollout!Succeed, Listed
    <2> QED
      BY <2>6 DEF Rollout!Next
  <1>12. ASSUME pc = "judge", i \in Listed, UNCHANGED pc,
                NEW n \in Nat, failCnt' = [failCnt EXCEPT ![i] = n], ~IsKicked(i)
         PROVE  [Rollout!Next]_(Rollout!vars)
    <2>1. \A k \in Listed : k # i => (IsKicked(k)' <=> IsKicked(k))
      BY <1>1, <1>12 DEF IsKicked, TypeOK
    <2>2. failCnt'[i] = n
      BY <1>1, <1>12 DEF TypeOK
    <2>3. CASE n >= MaxFailsToKick
      <3>1. Unkicked' = Unkicked \ {i} /\ i \in Unkicked
        <4>1. \A k \in Listed : IsKicked(k)' <=> (k = i \/ IsKicked(k))
          BY <2>1, <2>2, <2>3 DEF IsKicked
        <4> QED
          BY <1>12, <4>1 DEF Unkicked
      <3>2. Listed \ Unkicked' = (Listed \ Unkicked) \cup {i}
        BY <1>12, <3>1
      <3>3. Rollout!Kick(i)
        BY <1>12, <1>16, <3>2 DEF Rollout!Kick, Over
      <3> QED
        BY <1>12, <3>3 DEF Rollout!Next, Listed
    <2>4. CASE ~(n >= MaxFailsToKick)
      <3>1. \A k \in Listed : IsKicked(k)' <=> IsKicked(k)
        BY <1>12, <2>1, <2>2, <2>4 DEF IsKicked
      <3>2. Unkicked' = Unkicked
        BY <3>1 DEF Unkicked
      <3> QED
        BY <1>12, <1>16, <3>2 DEF Rollout!vars, Over
    <2> QED
      BY <2>3, <2>4
  <1>13. pc = "judge" /\ i <= remaining => i \in Listed
    BY <1>1, TransferAssumption DEF TypeOK, Listed
  <1>14. CASE JudgeCorrect
    BY <1>12, <1>13, <1>14 DEF JudgeCorrect
  <1>15. CASE JudgeFailed
    <2>1. failCnt[i] + 1 \in Nat
      BY <1>1, <1>13, <1>15 DEF JudgeFailed, TypeOK
    <2> QED
      BY <1>12, <1>13, <1>15, <2>1 DEF JudgeFailed
  <1> QED
    BY <1>4, <1>5, <1>6, <1>7, <1>8, <1>9, <1>10, <1>11, <1>14, <1>15 DEF CAnkerStep

(* What a restart and the first updater_start after it are to it: the image  *)
(* on trial stays, is marked valid, or is gone back from (updater.cpp:       *)
(* 1328-1340).                                                               *)
LEMMA BootRollout ==
    ASSUME IInv, NEW p \in Ankers,
           Bootloader(p) \/ \E marked, read \in BOOLEAN : StartUpdater(p, marked, read),
           UNCHANGED <<pc, failCnt>>
    PROVE  [Rollout!Next]_(Rollout!vars)
  <1> USE DEF Rollout!Ankers, Rollout!Listed
  <1> DEFINE fw == [q \in Ankers |-> Firmware(q)]
  <1>1. Unkicked' = Unkicked /\ (Over' <=> Over)
    BY DEF Unkicked, IsKicked, Over
  <1>2. TypeOK /\ BootsOnlyCompleteImage /\ InstallingBootsNew
    BY DEF IInv, FlashInv
  <1>3. \A q \in Ankers : q # p => Firmware(q)' = Firmware(q)
    BY <1>2 DEF Bootloader, StartUpdater, Firmware, TypeOK
  <1>4. \/ Firmware(p)' = Firmware(p)
        \/ Firmware(p) = "trial" /\ Firmware(p)' \in {"new", "reverted"}
    <2>1. CASE otaState[p] = "valid"
      BY <1>2, <2>1 DEF Bootloader, StartUpdater, Firmware, TypeOK
    <2>2. CASE otaState[p] # "valid"
      <3>1. IsComplete(bootImage[p]) /\ bootImage[p] # <<>> /\ Firmware(p) = "trial"
        BY <1>2, <2>2 DEF InstallingBootsNew, IsComplete, Firmware
      <3>2. CASE UNCHANGED bootImage
        <4>1. Firmware(p)' \in {"trial", "new"}
          BY <3>1, <3>2 DEF Firmware
        <4> QED
          BY <3>1, <4>1
      <3>3. CASE Bootloader(p) /\ otaState[p] = "pending"
        <4>1. bootImage'[p] = fallback[p] /\ p \in reverted' /\ otaState'[p] = "valid"
          BY <1>2, <3>3 DEF Bootloader, TypeOK
        <4>2. fallback[p] # <<>> => IsComplete(fallback[p])
          BY <1>2 DEF BootsOnlyCompleteImage
        <4> QED
          BY <3>1, <4>1, <4>2 DEF Firmware
      <3> QED
        BY <3>2, <3>3 DEF Bootloader, StartUpdater
    <2> QED
      BY <2>1, <2>2
  <1>5. CASE Firmware(p)' = Firmware(p)
    <2>1. fw' = fw
      BY <1>3, <1>5
    <2> QED
      BY <1>1, <2>1 DEF Rollout!vars
  <1>6. CASE Firmware(p) = "trial" /\ Firmware(p)' = "new"
    <2>1. fw' = [fw EXCEPT ![p] = "new"]
      BY <1>3, <1>6
    <2>2. Rollout!Verify(p)
      BY <1>1, <1>6, <2>1 DEF Rollout!Verify
    <2> QED
      BY <2>2 DEF Rollout!Next, Ankers
  <1>7. CASE Firmware(p) = "trial" /\ Firmware(p)' = "reverted"
    <2>1. fw' = [fw EXCEPT ![p] = "reverted"]
      BY <1>3, <1>7
    <2>2. Rollout!Revert(p)
      BY <1>1, <1>7, <2>1 DEF Rollout!Revert
    <2> QED
      BY <2>2 DEF Rollout!Next, Ankers
  <1> QED
    BY <1>4, <1>5, <1>6, <1>7

(* What the other steps are to it: an installation, a restart, or nothing    *)
(* (updater.cpp:969-988).                                                    *)
LEMMA OtherStepRollout ==
    ASSUME IInv, \/ \E p \in Ankers : PAnkerStep(p)
                 \/ NetworkStep
                 \/ UNCHANGED vars
    PROVE  [Rollout!Next]_(Rollout!vars)
  <1> USE DEF Rollout!Ankers, Rollout!Listed
  <1>1. UNCHANGED <<pc, failCnt>>
    <2>1. ASSUME NEW p \in Ankers, PAnkerStep(p)
          PROVE  UNCHANGED <<pc, failCnt>>
      BY <2>1 DEF PAnkerStep, HandlerStep, AckResend, RefuseChunk, WriteChunk, InstallImage,
                  FlashFails, RestartInstalled, StartUpdater, Rejoin, RestartPolling,
                  LosePower, cVars
    <2>2. CASE NetworkStep
      BY <2>2 DEF NetworkStep, LoseData, LoseAck, cVars
    <2>3. CASE UNCHANGED vars
      BY <2>3 DEF vars, cVars
    <2> QED
      BY <2>1, <2>2, <2>3
  <1>2. Unkicked' = Unkicked /\ (Over' <=> Over)
    BY <1>1 DEF Unkicked, IsKicked, Over
  <1>3. CASE UNCHANGED bootVars
    BY <1>1, <1>2, <1>3 DEF Rollout!vars, bootVars, Firmware
  <1>4. ASSUME NEW p \in Ankers, NEW m \in data[p], NEW left, InstallImage(p, m, left)
        PROVE  [Rollout!Next]_(Rollout!vars)
    <2> DEFINE fw == [q \in Ankers |-> Firmware(q)]
    <2>1. \A q \in Ankers : q # p => Firmware(q)' = Firmware(q)
      BY <1>4, InstallImageBoots DEF IInv, Firmware
    <2>2. Firmware(p)' = "trial"
      BY <1>4, InstallImageBoots DEF IInv, Firmware, IsComplete
    <2>3. fw' = [fw EXCEPT ![p] = "trial"]
      BY <2>1, <2>2
    <2>4. Rollout!Install(p)
      BY <1>1, <1>2, <2>3 DEF Rollout!Install
    <2> QED
      BY <2>4 DEF Rollout!Next, Ankers
  <1>5. CASE NetworkStep \/ UNCHANGED vars
    BY <1>3, <1>5 DEF NetworkStep, LoseData, LoseAck, vars, pVars
  <1> QED
    BY <1>1, <1>3, <1>4, <1>5, BootStep, BootRollout

(* The transfer implements the rollout it promises: each of its steps is a   *)
(* step of FirmwareRollout or changes nothing there (updater.cpp:502-642,    *)
(* 938-992).                                                                 *)
THEOREM TransferIsRollout == Spec => RolloutSpec
  <1>1. Init => Rollout!Init
    <2> SUFFICES ASSUME Init
                 PROVE  Rollout!Init
      OBVIOUS
    <2>1. Unkicked = Listed
      BY TransferAssumption DEF Init, Unkicked, IsKicked
    <2>2. \A p \in Ankers : Firmware(p) = "old"
      BY DEF Init, Firmware
    <2> QED
      BY <2>1, <2>2 DEF Init, Rollout!Init, Rollout!Ankers, Over, Ankers
  <1>2. IInv /\ [Next]_vars => [Rollout!Next]_(Rollout!vars)
    BY CAnkerStepRollout, OtherStepRollout DEF Next
  <1> QED
    BY Invariance, <1>1, <1>2, PTL DEF Spec, RolloutSpec, Rollout!Spec
==============================================================================
