-------------------------- MODULE DataStorageProofs --------------------------
(* For every set of tasks, files and data: the storage implements the files  *)
(* that are replaced at once, and after a power cut that leaves a temporary  *)
(* file nothing is stored under its name.                                    *)
EXTENDS DataStorage, TLAPS

CallType ==
    /\ call \in [Tasks -> Calls \cup {NoCall}]
    /\ place \in [Tasks -> {"idle", "opening", "writing", "renaming", "erasing",
                            "reading", "refused"}]
    /\ answer \in [Tasks -> {"none", "ok", "error"}]
    /\ excused \subseteq Tasks

CallInv == CallType /\ PlaceFitsCall /\ FirstMountedAndChecked /\ RivalsAreExcused

Fits(p, c) ==
    \/ p = "opening" /\ Writes(c)
    \/ p = "erasing" /\ c.type = "erase"
    \/ p \in {"reading", "refused"} /\ c.type = "read"

(* The content behind the descriptor and in the temporary file of a task.    *)
WholeFor(t) ==
    /\ place[t] = "writing" /\ call[t].type = "write" => handle[t] = <<>>
    /\ place[t] = "renaming" /\ t \notin excused =>
           \/ temp[call[t].file] = Absent
           \/ File!Stored(call[t], temp[call[t].file])

------------------------------------------------------------------------------
(* What the operations have in common: a call begins, ...                    *)
LEMMA BeginInv ==
    ASSUME StorageInv, NEW t \in Tasks, NEW c \in Calls, NEW p, Fits(p, c),
           Begin(t, c, p), UNCHANGED <<leaked, mounted, checked>>
    PROVE  CallInv'
  <1> USE DEF StorageInv, TypeOK, Begin
  <1>1. c # NoCall
    BY StorageAssumption
  <1>2. CallType'
    BY DEF CallType, Fits, Rivals
  <1>3. PlaceFitsCall'
    BY <1>1 DEF PlaceFitsCall, Fits, Writes
  <1>4. FirstMountedAndChecked'
    BY DEF FirstMountedAndChecked
  <1>5. RivalsAreExcused'
    BY DEF RivalsAreExcused, Rivals, Writes
  <1> QED
    BY <1>2, <1>3, <1>4, <1>5 DEF CallInv

(* ... goes on, ...                                                          *)
LEMMA AdvanceInv ==
    ASSUME StorageInv, NEW t \in Tasks, NEW p \in {"writing", "renaming"},
           place[t] \in {"opening", "writing"}, Advance(t, p),
           excused' \in {excused, excused \cup {t}},
           UNCHANGED <<leaked, mounted, checked>>
    PROVE  CallInv'
  <1> USE DEF StorageInv, TypeOK, Advance
  <1>1. CallType'
    BY DEF CallType
  <1>2. PlaceFitsCall'
    BY DEF PlaceFitsCall
  <1>3. FirstMountedAndChecked' /\ RivalsAreExcused'
    BY DEF FirstMountedAndChecked, RivalsAreExcused
  <1> QED
    BY <1>1, <1>2, <1>3 DEF CallInv

(* ... and returns.                                                          *)
LEMMA ReturnInv ==
    ASSUME StorageInv, NEW t \in Tasks, NEW rc \in {"ok", "error"}, Return(t, rc),
           UNCHANGED <<leaked, mounted, checked>>
    PROVE  CallInv' /\ handle' \in [Tasks -> Contents]
  <1> USE DEF StorageInv, TypeOK, Return
  <1>1. CallType'
    BY DEF CallType
  <1>2. PlaceFitsCall'
    BY DEF PlaceFitsCall, Writes
  <1>3. FirstMountedAndChecked'
    BY DEF FirstMountedAndChecked
  <1>4. RivalsAreExcused'
    BY DEF RivalsAreExcused, Writes
  <1>5. handle' \in [Tasks -> Contents]
    BY DEF Contents
  <1> QED
    BY <1>1, <1>2, <1>3, <1>4, <1>5 DEF CallInv

(* A task changes the temporary file of another only if both are excused, or *)
(* by removing it.                                                           *)
LEMMA OthersStayWhole ==
    ASSUME StorageInv, NEW t \in Tasks,
           \A u \in Tasks \ {t} :
               /\ place'[u] = place[u]
               /\ call'[u] = call[u]
               /\ handle'[u] = handle[u]
               /\ u \in excused => u \in excused',
           \A f \in Files : \/ temp'[f] \in {temp[f], Absent}
                            \/ (Writes(call[t]) /\ f = call[t].file),
           WholeFor(t)'
    PROVE  TempIsWhole'
  <1> SUFFICES ASSUME NEW u \in Tasks \ {t}
               PROVE  WholeFor(u)'
    BY DEF WholeFor, TempIsWhole
  <1> USE DEF StorageInv
  <1>1. WholeFor(u)
    BY DEF WholeFor, TempIsWhole
  <1>2. CASE place[u] # "renaming"
    BY <1>1, <1>2 DEF WholeFor
  <1>3. CASE place[u] = "renaming"
    <2>1. Writes(call[u]) /\ call[u].file \in Files
      BY <1>3 DEF PlaceFitsCall, TypeOK, Writes, Calls
    <2>2. CASE temp'[call[u].file] \in {temp[call[u].file], Absent}
      BY <1>1, <1>3, <2>2 DEF WholeFor
    <2>3. CASE Writes(call[t]) /\ call[u].file = call[t].file
      <3>1. u \in excused
        BY <2>1, <2>3 DEF RivalsAreExcused
      <3> QED
        BY <1>3, <3>1 DEF WholeFor
    <2> QED
      BY <2>1, <2>2, <2>3
  <1> QED
    BY <1>2, <1>3

(* The invariant from what a step may disturb of it.                         *)
LEMMA InvFromParts ==
    ASSUME CallInv', TempIsWhole', LeakedIsThere', handle' \in [Tasks -> Contents],
           stored' \in [Files -> Contents \cup {Absent}],
           temp' \in [Files -> Contents \cup {Absent}],
           leaked' \subseteq Files, mounted' \in BOOLEAN, checked' \subseteq Files
    PROVE  StorageInv'
  BY DEF StorageInv, CallInv, CallType, TypeOK

(* The file and the sequence a task works with.                              *)
LEMMA FileOfCall ==
    ASSUME StorageInv, NEW t \in Tasks, place[t] # "idle"
    PROVE  /\ call[t] # NoCall
           /\ call[t] \in Calls
           /\ call[t].file \in Files
           /\ call[t].file \in checked
           /\ call[t].data \in Data
           /\ mounted
  BY DEF StorageInv, TypeOK, PlaceFitsCall, FirstMountedAndChecked, Calls

(* A record written after others is the last, and the only one if there were *)
(* none.                                                                     *)
LEMMA Sequences ==
    ASSUME NEW s \in Contents, NEW d \in Data \cup {Torn}
    PROVE  /\ Append(s, d) \in Contents
           /\ Append(s, d) # <<>>
           /\ Append(s, d)[Len(Append(s, d))] = d
           /\ s = <<>> => Append(s, d) = <<d>>
  <1>1. s = <<>> => Append(s, d) = <<d>>
    OBVIOUS
  <1> QED
    BY <1>1 DEF Contents

(* What a copy that fails has copied is a content.                           *)
LEMMA Prefixes ==
    ASSUME NEW s \in Contents, NEW n \in 0 .. Len(s)
    PROVE  SubSeq(s, 1, n) \in Contents
  BY DEF Contents

(* A file that is there is never taken for one that is not.                  *)
LEMMA NotAbsent == \A s \in Contents : s # Absent
  BY StorageAssumption DEF Contents

------------------------------------------------------------------------------
(* The starts.                                                               *)
LEMMA RemoveTempInv ==
    ASSUME StorageInv, NEW f \in Files, RemoveTemp(f), UNCHANGED leaked
    PROVE  /\ temp' \in [Files -> Contents \cup {Absent}]
           /\ \A g \in Files : temp'[g] \in {temp[g], Absent}
           /\ LeakedIsThere'
  BY DEF StorageInv, TypeOK, RemoveTemp, LeakedIsThere, TempInUse

(* A write or an erasure begins, and removes a temporary file (169-192,      *)
(* 106-127).                                                                 *)
LEMMA StartChangeInv ==
    ASSUME StorageInv, NEW t \in Tasks, NEW c \in Calls,
           StartWrite(t, c) \/ StartErase(t, c)
    PROVE  StorageInv'
  <1>1. PICK p \in {"opening", "erasing"} : Fits(p, c) /\ Begin(t, c, p)
    BY DEF StartWrite, StartErase, Fits
  <1>2. /\ UNCHANGED <<stored, leaked, mounted, checked, handle>>
        /\ RemoveTemp(c.file)
        /\ c.file \in Files
    BY DEF StartWrite, StartErase, Calls
  <1>3. CallInv'
    BY <1>1, <1>2, BeginInv
  <1>4. /\ temp' \in [Files -> Contents \cup {Absent}]
        /\ \A g \in Files : temp'[g] \in {temp[g], Absent}
        /\ LeakedIsThere'
    BY <1>2, RemoveTempInv
  <1>5. TempIsWhole'
    <2>1. WholeFor(t)'
      BY <1>1 DEF WholeFor, Begin, StorageInv, TypeOK
    <2>2. \A u \in Tasks \ {t} :
             /\ place'[u] = place[u] /\ call'[u] = call[u] /\ handle'[u] = handle[u]
             /\ u \in excused => u \in excused'
      BY <1>1, <1>2 DEF Begin, StorageInv, TypeOK
    <2> QED
      BY <1>4, <2>1, <2>2, OthersStayWhole
  <1> QED
    BY <1>2, <1>3, <1>4, <1>5, InvFromParts DEF StorageInv, TypeOK

(* A read begins, at a file that is there or not (232-258).                  *)
LEMMA StartReadInv ==
    ASSUME StorageInv, NEW t \in Tasks, NEW c \in Calls, StartRead(t, c)
    PROVE  StorageInv'
  <1>1. PICK p \in {"reading", "refused"} : Fits(p, c) /\ Begin(t, c, p)
    BY DEF StartRead, Fits
  <1>2. UNCHANGED <<stored, temp, leaked, mounted, checked>>
    BY DEF StartRead, flashVars
  <1>3. CallInv'
    BY <1>1, <1>2, BeginInv
  <1>4. handle' \in [Tasks -> Contents]
    BY DEF StartRead, StorageInv, TypeOK, Calls
  <1>5. TempIsWhole'
    <2>1. WholeFor(t)'
      BY <1>1 DEF WholeFor, Begin, StorageInv, TypeOK
    <2>2. \A u \in Tasks \ {t} :
             /\ place'[u] = place[u] /\ call'[u] = call[u] /\ handle'[u] = handle[u]
             /\ u \in excused => u \in excused'
      BY <1>1 DEF StartRead, Begin, StorageInv, TypeOK
    <2> QED
      BY <1>2, <2>1, <2>2, OthersStayWhole
  <1>6. LeakedIsThere'
    BY <1>2 DEF StorageInv, LeakedIsThere
  <1> QED
    BY <1>2, <1>3, <1>4, <1>5, <1>6, InvFromParts DEF StorageInv, TypeOK

------------------------------------------------------------------------------
(* A write on its way.                                                       *)
LEMMA OpenInv ==
    ASSUME StorageInv, NEW t \in Tasks, OpenTemp(t) \/ OpenToAppend(t)
    PROVE  StorageInv'
  <1> DEFINE f == call[t].file
  <1>1. /\ place[t] = "opening" /\ Writes(call[t])
        /\ Advance(t, "writing")
        /\ UNCHANGED <<stored, leaked, mounted, checked, excused>>
    BY DEF OpenTemp, OpenToAppend, StorageInv, PlaceFitsCall
  <1>2. f \in Files
    BY <1>1, FileOfCall
  <1>3. CallInv'
    BY <1>1, AdvanceInv
  <1>4. PICK s \in Contents, h \in Contents :
          /\ temp' = [temp EXCEPT ![f] = s]
          /\ handle' = [handle EXCEPT ![t] = h]
          /\ call[t].type = "write" => h = <<>>
    <2>1. CASE OpenTemp(t)
      <3>1. <<>> \in Contents
        BY DEF Contents
      <3>2. temp[f] # Absent => temp[f] \in Contents /\ temp = [temp EXCEPT ![f] = temp[f]]
        BY <1>2 DEF StorageInv, TypeOK
      <3> QED
        BY <2>1, <3>1, <3>2 DEF OpenTemp
    <2>2. CASE OpenToAppend(t)
      <3>1. PICK copy \in Copies(f) :
              /\ temp' = [temp EXCEPT ![f] = copy]
              /\ handle' = [handle EXCEPT ![t] = copy]
        BY <2>2 DEF OpenToAppend
      <3>2. copy \in Contents
        <4>1. <<>> \in Contents
          BY DEF Contents
        <4>2. temp[f] \in Contents \cup {Absent} /\ stored[f] \in Contents \cup {Absent}
          BY <1>2 DEF StorageInv, TypeOK
        <4> QED
          BY <4>1, <4>2, Prefixes DEF Copies
      <3> QED
        BY <2>2, <3>1, <3>2 DEF OpenToAppend
    <2> QED
      BY <2>1, <2>2
  <1>5. temp' \in [Files -> Contents \cup {Absent}] /\ handle' \in [Tasks -> Contents]
    BY <1>4 DEF StorageInv, TypeOK
  <1>6. LeakedIsThere'
    BY <1>1, <1>2, <1>4, NotAbsent DEF StorageInv, TypeOK, LeakedIsThere
  <1>7. TempIsWhole'
    <2>1. WholeFor(t)'
      BY <1>1, <1>4 DEF WholeFor, Advance, StorageInv, TypeOK
    <2>2. \A u \in Tasks \ {t} :
             /\ place'[u] = place[u] /\ call'[u] = call[u] /\ handle'[u] = handle[u]
             /\ u \in excused => u \in excused'
      BY <1>1, <1>4 DEF Advance, StorageInv, TypeOK
    <2>3. \A g \in Files : temp'[g] \in {temp[g], Absent} \/ (Writes(call[t]) /\ g = f)
      BY <1>1, <1>4 DEF StorageInv, TypeOK
    <2> QED
      BY <2>1, <2>2, <2>3, OthersStayWhole
  <1> QED
    BY <1>1, <1>3, <1>5, <1>6, <1>7, InvFromParts DEF StorageInv, TypeOK

(* The data is there when the file is closed, but for an error that excuses  *)
(* the task.                                                                 *)
LEMMA CloseInv ==
    ASSUME StorageInv, NEW t \in Tasks, Written(t) \/ CloseFails(t)
    PROVE  StorageInv'
  <1> DEFINE f == call[t].file
  <1>1. /\ place[t] = "writing" /\ Writes(call[t])
        /\ Advance(t, "renaming")
        /\ excused' \in {excused, excused \cup {t}}
        /\ UNCHANGED <<stored, leaked, mounted, checked, handle>>
    BY DEF Written, CloseFails, StorageInv, PlaceFitsCall
  <1>2. f \in Files /\ call[t].data \in Data
    BY <1>1, FileOfCall
  <1>3. CallInv'
    BY <1>1, AdvanceInv
  <1>4. handle[t] \in Contents
    BY DEF StorageInv, TypeOK
  <1>5. \/ UNCHANGED temp
        \/ \E s \in Contents : temp' = [temp EXCEPT ![f] = s]
    BY <1>2, <1>4, Sequences DEF Written, CloseFails, Closed
  <1>6. temp' \in [Files -> Contents \cup {Absent}]
    BY <1>5 DEF StorageInv, TypeOK
  <1>7. LeakedIsThere'
    BY <1>1, <1>2, <1>5, NotAbsent DEF StorageInv, TypeOK, LeakedIsThere
  <1>8. TempIsWhole'
    <2>1. WholeFor(t)'
      <3>1. /\ place'[t] = "renaming" /\ call' = call
            /\ call[t].type \in {"write", "append"}
        BY <1>1 DEF Advance, StorageInv, TypeOK, Writes
      <3>2. CASE Written(t)
        <4>1. temp'[f] = Append(handle[t], call[t].data)
          BY <1>2, <3>2 DEF Written, Closed, StorageInv, TypeOK
        <4>2. call[t].type = "write" => handle[t] = <<>>
          BY <1>1 DEF StorageInv, TempIsWhole
        <4>3. File!Stored(call[t], temp'[f])
          BY <1>2, <1>4, <4>1, <4>2, Sequences DEF File!Stored
        <4> QED
          BY <3>1, <4>3 DEF WholeFor
      <3>3. CASE CloseFails(t)
        BY <3>1, <3>3 DEF CloseFails, WholeFor
      <3> QED
        BY <3>2, <3>3
    <2>2. \A u \in Tasks \ {t} :
             /\ place'[u] = place[u] /\ call'[u] = call[u] /\ handle'[u] = handle[u]
             /\ u \in excused => u \in excused'
      BY <1>1 DEF Advance, StorageInv, TypeOK
    <2>3. \A g \in Files : temp'[g] \in {temp[g], Absent} \/ (Writes(call[t]) /\ g = f)
      BY <1>1, <1>5 DEF StorageInv, TypeOK
    <2> QED
      BY <2>1, <2>2, <2>3, OthersStayWhole
  <1> QED
    BY <1>1, <1>3, <1>6, <1>7, <1>8, InvFromParts DEF StorageInv, TypeOK

------------------------------------------------------------------------------
(* The returns.                                                              *)
LEMMA ReturnedInv ==
    ASSUME StorageInv, NEW t \in Tasks, NEW rc \in {"ok", "error"}, Return(t, rc),
           UNCHANGED <<leaked, mounted, checked>>,
           stored' \in [Files -> Contents \cup {Absent}],
           temp' \in [Files -> Contents \cup {Absent}],
           \A g \in Files : temp'[g] \in {temp[g], Absent}
                            \/ (Writes(call[t]) /\ g = call[t].file),
           LeakedIsThere'
    PROVE  StorageInv'
  <1>1. CallInv' /\ handle' \in [Tasks -> Contents]
    BY ReturnInv
  <1>2. TempIsWhole'
    <2>1. WholeFor(t)'
      BY DEF WholeFor, Return, StorageInv, TypeOK
    <2>2. \A u \in Tasks \ {t} :
             /\ place'[u] = place[u] /\ call'[u] = call[u] /\ handle'[u] = handle[u]
             /\ u \in excused => u \in excused'
      BY DEF Return, StorageInv, TypeOK
    <2> QED
      BY <2>1, <2>2, OthersStayWhole
  <1> QED
    BY <1>1, <1>2, InvFromParts DEF StorageInv, TypeOK

(* Calls that return without having stored anything.                         *)
LEMMA NothingStoredInv ==
    ASSUME StorageInv, NEW t \in Tasks,
           OpenFails(t) \/ RenameFails(t) \/ EraseFails(t) \/ EndRead(t) \/ ReadFails(t)
    PROVE  StorageInv'
  <1>1. PICK rc \in {"ok", "error"} : Return(t, rc)
    BY DEF OpenFails, RenameFails, EraseFails, EndRead, ReadFails
  <1>2. UNCHANGED <<stored, temp, leaked, mounted, checked>>
    BY DEF OpenFails, RenameFails, EraseFails, EndRead, ReadFails, flashVars
  <1>3. LeakedIsThere'
    BY <1>2 DEF StorageInv, LeakedIsThere
  <1> QED
    BY <1>1, <1>2, <1>3, ReturnedInv DEF StorageInv, TypeOK

(* A write that comes out short removes the temporary file (209-214).        *)
LEMMA ShortWriteInv ==
    ASSUME StorageInv, NEW t \in Tasks, ShortWrite(t)
    PROVE  StorageInv'
  <1> DEFINE f == call[t].file
  <1>1. /\ place[t] = "writing" /\ Writes(call[t])
        /\ Return(t, "error")
        /\ UNCHANGED <<stored, leaked, mounted, checked>>
    BY DEF ShortWrite, StorageInv, PlaceFitsCall
  <1>2. f \in Files
    BY <1>1, FileOfCall
  <1>3. PICK s \in Contents : temp' = [temp EXCEPT ![f] = s]
    BY Sequences DEF ShortWrite, Closed, StorageInv, TypeOK
  <1>4. /\ temp' \in [Files -> Contents \cup {Absent}]
        /\ \A g \in Files : temp'[g] \in {temp[g], Absent} \/ (Writes(call[t]) /\ g = f)
    BY <1>1, <1>3 DEF StorageInv, TypeOK
  <1>5. LeakedIsThere'
    BY <1>1, <1>2, <1>3, NotAbsent DEF StorageInv, TypeOK, LeakedIsThere
  <1> QED
    BY <1>1, <1>4, <1>5, ReturnedInv DEF StorageInv, TypeOK

(* The file takes over its temporary file, which nobody has open.            *)
LEMMA RenameInv ==
    ASSUME StorageInv, NEW t \in Tasks, Rename(t)
    PROVE  StorageInv'
  <1> DEFINE f == call[t].file
  <1>1. /\ place[t] = "renaming"
        /\ temp[f] # Absent /\ f \notin leaked
        /\ stored' = [stored EXCEPT ![f] = temp[f]]
        /\ temp' = [temp EXCEPT ![f] = Absent]
        /\ Return(t, "ok")
        /\ UNCHANGED <<leaked, mounted, checked>>
    BY DEF Rename, TempInUse
  <1>2. f \in Files
    BY <1>1, FileOfCall
  <1>3. /\ stored' \in [Files -> Contents \cup {Absent}]
        /\ temp' \in [Files -> Contents \cup {Absent}]
        /\ \A g \in Files : temp'[g] \in {temp[g], Absent}
    BY <1>1, <1>2 DEF StorageInv, TypeOK
  <1>4. LeakedIsThere'
    BY <1>1 DEF StorageInv, TypeOK, LeakedIsThere
  <1> QED
    BY <1>1, <1>3, <1>4, ReturnedInv

(* A file is removed (128-140).                                              *)
LEMMA EraseInv ==
    ASSUME StorageInv, NEW t \in Tasks, EraseFile(t)
    PROVE  StorageInv'
  <1>1. stored' \in [Files -> Contents \cup {Absent}]
    BY DEF EraseFile, StorageInv, TypeOK
  <1>2. LeakedIsThere'
    BY DEF EraseFile, StorageInv, LeakedIsThere
  <1> QED
    BY <1>1, <1>2, ReturnedInv DEF EraseFile, StorageInv, TypeOK

------------------------------------------------------------------------------
(* The steps that are no part of a call.                                     *)
LEMMA CheckInv ==
    ASSUME StorageInv, NEW t \in Tasks, NEW f \in Files, CheckExistence(t, f)
    PROVE  StorageInv'
  <1> USE DEF StorageInv, CheckExistence, flashVars, callVars
  <1>1. TypeOK'
    BY DEF TypeOK
  <1>2. PlaceFitsCall' /\ RivalsAreExcused' /\ TempIsWhole'
    BY DEF PlaceFitsCall, RivalsAreExcused, TempIsWhole
  <1>3. FirstMountedAndChecked' /\ LeakedIsThere'
    BY DEF FirstMountedAndChecked, LeakedIsThere
  <1> QED
    BY <1>1, <1>2, <1>3

(* The partition is mounted, or formatted and mounted (478-511).             *)
LEMMA MountInv ==
    ASSUME StorageInv, Mount
    PROVE  StorageInv'
  <1> USE DEF StorageInv, Mount, flashVars, callVars
  <1>1. TypeOK'
    BY DEF TypeOK
  <1>2. PlaceFitsCall' /\ RivalsAreExcused' /\ FirstMountedAndChecked'
    BY DEF PlaceFitsCall, RivalsAreExcused, FirstMountedAndChecked
  <1>3. TempIsWhole' /\ LeakedIsThere'
    BY DEF FirstMountedAndChecked, TempIsWhole, LeakedIsThere
  <1> QED
    BY <1>1, <1>2, <1>3

(* A power cut ends all calls and leaves the files and temporary files.      *)
LEMMA RestartInv ==
    ASSUME StorageInv, Restart
    PROVE  StorageInv'
  <1> USE DEF Restart, flashVars
  <1>1. TypeOK'
    <2>1. <<>> \in Contents
      BY DEF Contents
    <2> QED
      BY <2>1 DEF StorageInv, TypeOK
  <1>2. PlaceFitsCall' /\ RivalsAreExcused' /\ FirstMountedAndChecked'
    BY DEF PlaceFitsCall, RivalsAreExcused, FirstMountedAndChecked, Writes
  <1>3. TempIsWhole' /\ LeakedIsThere'
    BY DEF TempIsWhole, LeakedIsThere
  <1> QED
    BY <1>1, <1>2, <1>3 DEF StorageInv

(* The invariant holds before the first mount,                               *)
LEMMA StorageInitInv == Init => StorageInv
  <1> SUFFICES ASSUME Init PROVE StorageInv
    OBVIOUS
  <1>1. TypeOK
    <2>1. <<>> \in Contents
      BY DEF Contents
    <2> QED
      BY <2>1 DEF Init, TypeOK
  <1>2. PlaceFitsCall /\ RivalsAreExcused /\ FirstMountedAndChecked
    BY DEF Init, PlaceFitsCall, RivalsAreExcused, FirstMountedAndChecked, Writes
  <1>3. TempIsWhole /\ LeakedIsThere
    BY DEF Init, TempIsWhole, LeakedIsThere
  <1> QED
    BY <1>1, <1>2, <1>3 DEF StorageInv

(* while nothing happens,                                                    *)
LEMMA StorageStutterInv ==
    ASSUME StorageInv, UNCHANGED vars
    PROVE  StorageInv'
  <1> USE DEF StorageInv, vars, flashVars, callVars
  <1>1. TypeOK'
    BY DEF TypeOK
  <1>2. PlaceFitsCall' /\ RivalsAreExcused' /\ FirstMountedAndChecked'
    BY DEF PlaceFitsCall, RivalsAreExcused, FirstMountedAndChecked
  <1>3. TempIsWhole' /\ LeakedIsThere'
    BY DEF TempIsWhole, LeakedIsThere
  <1> QED
    BY <1>1, <1>2, <1>3

(* and after each step.                                                      *)
LEMMA StorageNextInv == StorageInv /\ [Next]_vars => StorageInv'
  BY StartChangeInv, StartReadInv, OpenInv, CloseInv, NothingStoredInv,
    ShortWriteInv, RenameInv, EraseInv, CheckInv, MountInv, RestartInv,
    StorageStutterInv
  DEF Next

(* What every step leaves true: the types, that a task is where its call     *)
(* takes it, that two writes of one file are both excused, and that what is  *)
(* about to be renamed is what was to be stored (datastorage.cpp:187-228).   *)
THEOREM StorageInvariance == Spec => []StorageInv
  BY StorageInitInv, StorageNextInv, PTL DEF Spec

------------------------------------------------------------------------------
(* The steps of the storage, as AtomicFile has them.                         *)
LEMMA CallsBegin ==
    ASSUME StorageInv, NEW t \in Tasks, NEW c \in Calls,
           StartWrite(t, c) \/ StartErase(t, c) \/ StartRead(t, c)
    PROVE  File!Next
  <1>1. call[t] = NoCall
    BY DEF StartWrite, StartErase, StartRead, Begin, StorageInv, PlaceFitsCall
  <1>2. Rivals(t, c) = File!Rivals(t, c)
    BY DEF Rivals, File!Rivals, Writes, File!Writes
  <1>3. File!Begin(t, c)
    BY <1>1, <1>2
    DEF StartWrite, StartErase, StartRead, Begin, File!Begin, flashVars
  <1> QED
    BY <1>3 DEF File!Next, Calls, File!Calls

(* A call that returns an error is a failure of the promise.                 *)
LEMMA CallsFail ==
    ASSUME StorageInv, NEW t \in Tasks,
           \/ OpenFails(t) \/ ShortWrite(t) \/ RenameFails(t) \/ EraseFails(t)
           \/ ReadFails(t)
    PROVE  File!Next
  <1>1. place[t] # "idle" /\ Return(t, "error") /\ UNCHANGED stored
    BY DEF OpenFails, ShortWrite, RenameFails, EraseFails, ReadFails, flashVars
  <1>2. File!Fail(t)
    BY <1>1, FileOfCall DEF Return, File!Fail, File!Return
  <1> QED
    BY <1>2 DEF File!Next

(* The rename stores what the call was for, or the task is excused.          *)
LEMMA RenameStores ==
    ASSUME StorageInv, NEW t \in Tasks, Rename(t)
    PROVE  File!Next
  <1> DEFINE f == call[t].file
  <1>1. /\ place[t] = "renaming" /\ temp[f] # Absent
        /\ stored' = [stored EXCEPT ![f] = temp[f]]
        /\ Return(t, "ok")
    BY DEF Rename
  <1>2. f \in Files /\ call[t] # NoCall
    BY <1>1, FileOfCall
  <1>3. stored'[f] = temp[f]
    BY <1>1, <1>2 DEF StorageInv, TypeOK
  <1>4. File!Writes(call[t])
    BY <1>1 DEF StorageInv, PlaceFitsCall, Writes, File!Writes
  <1>5. t \in excused \/ File!Stored(call[t], stored'[f])
    BY <1>1, <1>3 DEF StorageInv, TempIsWhole
  <1>6. File!Store(t, stored'[f])
    BY <1>1, <1>2, <1>3, <1>4, <1>5 DEF Return, File!Store, File!Return
  <1> QED
    BY <1>6 DEF File!Next

(* An erasure, a read, and a write that fails unseen in fclose (215) are     *)
(* calls or excuses of the promise.                                          *)
LEMMA OthersReturn ==
    ASSUME StorageInv, NEW t \in Tasks, EraseFile(t) \/ EndRead(t) \/ CloseFails(t)
    PROVE  File!Next
  <1>1. place[t] # "idle" /\ call[t] # NoCall
    BY FileOfCall DEF EraseFile, EndRead, CloseFails
  <1>2. EraseFile(t) => File!Erase(t)
    BY <1>1 DEF EraseFile, Return, File!Erase, File!Return, StorageInv, PlaceFitsCall
  <1>3. EndRead(t) => File!Look(t)
    BY <1>1 DEF EndRead, Return, File!Look, File!Return, StorageInv, PlaceFitsCall,
      flashVars
  <1>4. CloseFails(t) => File!Excuse(t)
    BY <1>1 DEF CloseFails, Advance, File!Excuse, StorageInv, PlaceFitsCall, Writes,
      File!Writes
  <1> QED
    BY <1>2, <1>3, <1>4 DEF File!Next

(* What only touches the temporary file is not seen by the promise.          *)
LEMMA InsideACall ==
    ASSUME NEW t \in Tasks,
           \/ OpenTemp(t) \/ OpenToAppend(t) \/ Written(t)
           \/ \E f \in Files : CheckExistence(t, f)
    PROVE  UNCHANGED File!vars
  BY DEF OpenTemp, OpenToAppend, Written, CheckExistence, Advance, flashVars,
    callVars, File!vars

(* A write is done in one step, by the rename, or not at all, through every  *)
(* power cut, error and left-over file (datastorage.cpp:187-228).            *)
THEOREM StorageIsAtomic == Spec => FilesAreAtomic
  <1>1. Init => File!Init
    BY DEF Init, File!Init
  <1>2. StorageInv /\ [Next]_vars => [File!Next]_File!vars
    <2> SUFFICES ASSUME StorageInv, [Next]_vars
                 PROVE  File!Next \/ UNCHANGED File!vars
      OBVIOUS
    <2>1. ASSUME NEW t \in Tasks, NEW c \in Calls,
                 StartWrite(t, c) \/ StartErase(t, c) \/ StartRead(t, c)
          PROVE  File!Next
      BY <2>1, CallsBegin
    <2>2. ASSUME NEW t \in Tasks,
                 \/ OpenTemp(t) \/ OpenToAppend(t) \/ OpenFails(t)
                 \/ ShortWrite(t) \/ Written(t) \/ CloseFails(t)
                 \/ Rename(t) \/ RenameFails(t)
                 \/ EraseFile(t) \/ EraseFails(t)
                 \/ EndRead(t) \/ ReadFails(t)
                 \/ \E f \in Files : CheckExistence(t, f)
          PROVE  File!Next \/ UNCHANGED File!vars
      BY <2>2, CallsFail, RenameStores, OthersReturn, InsideACall
    <2>3. CASE Mount
      BY <2>3 DEF Mount, flashVars, callVars, File!Next, File!Format, File!vars
    <2>4. CASE Restart
      BY <2>4 DEF Restart, flashVars, File!Next, File!Restart
    <2>5. CASE UNCHANGED vars
      BY <2>5 DEF vars, flashVars, callVars, File!vars
    <2> QED
      BY <2>1, <2>2, <2>3, <2>4, <2>5 DEF Next
  <1> QED
    BY StorageInvariance, <1>1, <1>2, PTL DEF Spec, FilesAreAtomic, File!Spec

------------------------------------------------------------------------------
(* A call changes one file, which was looked for, and replaces it only if    *)
(* nobody has its temporary file open.                                       *)
CallStep(t) ==
    \/ \E c \in Calls : StartWrite(t, c) \/ StartErase(t, c) \/ StartRead(t, c)
    \/ OpenTemp(t) \/ OpenToAppend(t) \/ OpenFails(t)
    \/ ShortWrite(t) \/ Written(t) \/ CloseFails(t)
    \/ Rename(t) \/ RenameFails(t)
    \/ EraseFile(t) \/ EraseFails(t)
    \/ EndRead(t) \/ ReadFails(t)

ChangesOnly(g) ==
    /\ UNCHANGED <<leaked, checked>>
    /\ \A f \in Files \ {g} : temp'[f] = temp[f] /\ stored'[f] = stored[f]
    /\ g \in leaked => stored'[g] \in {stored[g], Absent}

(* A call changes its own file and temporary file, and one that was looked   *)
(* for.                                                                      *)
LEMMA CallChangesOneFile ==
    ASSUME StorageInv, NEW t \in Tasks, CallStep(t)
    PROVE  \E g \in checked : ChangesOnly(g)
  <1> USE DEF StorageInv, TypeOK, ChangesOnly
  <1>1. CASE \E c \in Calls : StartWrite(t, c) \/ StartErase(t, c) \/ StartRead(t, c)
    <2>1. PICK c \in Calls : StartWrite(t, c) \/ StartErase(t, c) \/ StartRead(t, c)
      BY <1>1
    <2>2. c.file \in checked
      BY <2>1 DEF StartWrite, StartErase, StartRead, Begin
    <2>3. ChangesOnly(c.file)
      BY <2>1 DEF StartWrite, StartErase, StartRead, RemoveTemp, flashVars
    <2> QED
      BY <2>2, <2>3
  <1>2. CASE \/ OpenFails(t) \/ RenameFails(t) \/ EraseFails(t) \/ EndRead(t)
             \/ ReadFails(t)
    <2>1. place[t] # "idle" /\ UNCHANGED <<temp, stored, leaked, checked>>
      BY <1>2 DEF OpenFails, RenameFails, EraseFails, EndRead, ReadFails, flashVars
    <2> QED
      BY <2>1, FileOfCall
  <1>3. CASE OpenTemp(t) \/ OpenToAppend(t)
    <2>1. call[t].file \in checked
      BY <1>3, FileOfCall DEF OpenTemp, OpenToAppend
    <2>2. ChangesOnly(call[t].file)
      BY <1>3 DEF OpenTemp, OpenToAppend
    <2> QED
      BY <2>1, <2>2
  <1>4. CASE ShortWrite(t) \/ Written(t) \/ CloseFails(t)
    <2>1. call[t].file \in checked
      BY <1>4, FileOfCall DEF ShortWrite, Written, CloseFails
    <2>2. ChangesOnly(call[t].file)
      BY <1>4 DEF ShortWrite, Written, CloseFails, Closed
    <2> QED
      BY <2>1, <2>2
  <1>5. CASE Rename(t)
    <2>1. call[t].file \in checked /\ call[t].file \notin leaked
      BY <1>5, FileOfCall DEF Rename, TempInUse
    <2>2. ChangesOnly(call[t].file)
      BY <1>5, <2>1 DEF Rename
    <2> QED
      BY <2>1, <2>2
  <1>6. CASE EraseFile(t)
    <2>1. call[t].file \in checked
      BY <1>6, FileOfCall DEF EraseFile
    <2>2. ChangesOnly(call[t].file)
      BY <1>6 DEF EraseFile
    <2> QED
      BY <2>1, <2>2
  <1> QED
    BY <1>1, <1>2, <1>3, <1>4, <1>5, <1>6 DEF CallStep

(* The check that finds the temporary file keeps it open, or could not open  *)
(* it (85-92).                                                               *)
LEMMA CheckKeepsBlocked ==
    ASSUME NEW t \in Tasks, NEW g \in Files, CheckExistence(t, g),
           NEW f \in Files, Blocked(f)
    PROVE  \/ stored'[f] \in {stored[f], Absent} /\ Blocked(f)'
           \/ f \notin checked /\ f \in checked' /\ UNCHANGED <<leaked, temp>>
  BY DEF CheckExistence, Blocked, flashVars

(* After a restart the temporary file that was held open is found again.     *)
LEMMA RestartKeepsBlocked ==
    ASSUME StorageInv, Restart, NEW f \in Files, Blocked(f)
    PROVE  stored'[f] = stored[f] /\ Blocked(f)'
  BY DEF StorageInv, LeakedIsThere, Restart, Blocked, flashVars

(* A power cut that leaves a temporary file ends all storing under its name, *)
(* unless the check that finds it could not open it or the partition is      *)
(* formatted (datastorage.cpp:84-99, 187-228).                               *)
THEOREM NothingStoredAfterACut == Spec => AfterACutNothingIsStored
  <1> DEFINE Keeps(f) ==
               \/ stored'[f] \in {stored[f], Absent} /\ Blocked(f)'
               \/ ~mounted
               \/ f \notin checked /\ f \in checked' /\ UNCHANGED <<leaked, temp>>
  <1>1. ASSUME StorageInv, Next, NEW f \in Files, Blocked(f)
        PROVE  Keeps(f)
    <2>1. ASSUME NEW t \in Tasks, CallStep(t)
          PROVE  stored'[f] \in {stored[f], Absent} /\ Blocked(f)'
      <3>1. PICK g \in checked : ChangesOnly(g)
        BY <1>1, <2>1, CallChangesOneFile
      <3> QED
        BY <1>1, <3>1 DEF ChangesOnly, Blocked
    <2>2. ASSUME NEW t \in Tasks, NEW g \in Files, CheckExistence(t, g)
          PROVE  Keeps(f)
      BY <1>1, <2>2, CheckKeepsBlocked
    <2>3. CASE Mount
      BY <2>3 DEF Mount
    <2>4. CASE Restart
      BY <1>1, <2>4, RestartKeepsBlocked
    <2> QED
      BY <1>1, <2>1, <2>2, <2>3, <2>4 DEF Next, CallStep
  <1>2. StorageInv /\ [Next]_vars => [\A f \in Files : Blocked(f) => Keeps(f)]_vars
    BY <1>1
  <1> QED
    BY StorageInvariance, <1>2, PTL DEF Spec, AfterACutNothingIsStored

==============================================================================
