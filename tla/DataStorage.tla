----------------------------- MODULE DataStorage -----------------------------
(* The files of datastorage.cpp: a write goes to a temporary file that is    *)
(* then renamed, a left-over temporary file is looked for and erased, and    *)
(* the power may fail between any two calls of the file system (LittleFS).   *)
(* The file system takes the data of an open file over when it is closed,    *)
(* and refuses to unlink or rename a path that is open.                      *)
EXTENDS Naturals, Sequences

CONSTANTS
    Tasks,   \* the tasks that call the storage
    Files,   \* names of files
    Data,    \* what a call may write
    Torn,    \* a record of which a part is missing
    Absent,  \* no such file
    NoCall,  \* a task that is in no call
    MaxLen   \* records a file is appended to at most

Calls == [type : {"write", "append", "erase", "read"}, file : Files, data : Data]

ASSUME StorageAssumption ==
    /\ Torn \notin Data
    /\ NoCall \notin Calls
    /\ MaxLen \in Nat \ {0}
    /\ Absent \notin Seq(Data \cup {Torn})

VARIABLES
    stored,   \* the content of each file
    temp,     \* the content of its temporary file
    leaked,   \* files whose temporary file has a descriptor nobody closes
    mounted,  \* the partition is mounted
    checked,  \* files looked for since the restart
    call,     \* what each task has called
    place,    \* where it is in it
    handle,   \* the content behind the descriptor it has open
    answer,   \* what its last call returned
    excused   \* writes that met another one of the file, or an error not told

flashVars == <<stored, temp>>
callVars == <<call, place, handle, answer, excused>>
vars == <<flashVars, leaked, mounted, checked, callVars>>

Contents == Seq(Data \cup {Torn})

Init ==
    /\ stored = [f \in Files |-> Absent]
    /\ temp = [f \in Files |-> Absent]
    /\ leaked = {}
    /\ mounted = FALSE
    /\ checked = {}
    /\ call = [t \in Tasks |-> NoCall]
    /\ place = [t \in Tasks |-> "idle"]
    /\ handle = [t \in Tasks |-> <<>>]
    /\ answer = [t \in Tasks |-> "none"]
    /\ excused = {}

Writes(c) == c # NoCall /\ c.type \in {"write", "append"}

Works(t, p, f) == place[t] = p /\ call[t].file = f

TempInUse(f) == f \in leaked \/ \E t \in Tasks : Works(t, "writing", f)

FileInUse(f) == \E t \in Tasks : Works(t, "reading", f)

(* remove(temp_file_path), whose result nobody asks for.                     *)
RemoveTemp(f) ==
    \/ UNCHANGED temp
    \/ ~TempInUse(f) /\ temp' = [temp EXCEPT ![f] = Absent]

Rivals(t, c) ==
    {u \in Tasks \ {t} : Writes(c) /\ Writes(call[u]) /\ call[u].file = c.file}

Begin(t, c, p) ==
    /\ mounted
    /\ c.file \in checked
    /\ place[t] = "idle"
    /\ call' = [call EXCEPT ![t] = c]
    /\ place' = [place EXCEPT ![t] = p]
    /\ answer' = [answer EXCEPT ![t] = "none"]
    /\ excused' = IF Rivals(t, c) = {} THEN excused \ {t}
                  ELSE excused \cup Rivals(t, c) \cup {t}

Return(t, rc) ==
    /\ call' = [call EXCEPT ![t] = NoCall]
    /\ place' = [place EXCEPT ![t] = "idle"]
    /\ handle' = [handle EXCEPT ![t] = <<>>]
    /\ answer' = [answer EXCEPT ![t] = rc]
    /\ UNCHANGED excused

Advance(t, p) ==
    /\ place' = [place EXCEPT ![t] = p]
    /\ UNCHANGED <<call, answer>>

------------------------------------------------------------------------------
(* datastorage_write_data_to_file_in_partition.                              *)

StartWrite(t, c) ==
    /\ Writes(c)
    /\ Begin(t, c, "opening")
    /\ RemoveTemp(c.file)
    /\ UNCHANGED <<stored, leaked, mounted, checked, handle>>

(* fopen "wb": what is there is cut off when the file is closed.             *)
OpenTemp(t) ==
    LET f == call[t].file IN
    /\ place[t] = "opening"
    /\ call[t].type = "write"
    /\ temp' = IF temp[f] = Absent THEN [temp EXCEPT ![f] = <<>>] ELSE temp
    /\ handle' = [handle EXCEPT ![t] = <<>>]
    /\ Advance(t, "writing")
    /\ UNCHANGED <<stored, leaked, mounted, checked, excused>>

(* fcopy, then fopen "ab": what fcopy left there, from nothing at all to the *)
(* whole file, is what the record is appended to.                            *)
Copies(f) ==
    {IF temp[f] = Absent THEN <<>> ELSE temp[f]} \cup
    (IF stored[f] = Absent THEN {} ELSE {SubSeq(stored[f], 1, n) : n \in 0 .. Len(stored[f])})

OpenToAppend(t) ==
    LET f == call[t].file IN
    /\ place[t] = "opening"
    /\ call[t].type = "append"
    /\ \E copy \in Copies(f) :
         /\ Len(copy) < MaxLen
         /\ temp' = [temp EXCEPT ![f] = copy]
         /\ handle' = [handle EXCEPT ![t] = copy]
    /\ Advance(t, "writing")
    /\ UNCHANGED <<stored, leaked, mounted, checked, excused>>

(* No memory, no descriptor, a flash error.                                  *)
OpenFails(t) ==
    /\ place[t] = "opening"
    /\ Return(t, "error")
    /\ UNCHANGED <<flashVars, leaked, mounted, checked>>

Closed(t, record) ==
    temp' = [temp EXCEPT ![call[t].file] = Append(handle[t], record)]

(* Mutant: the number of bytes written is not looked at.                     *)
ShortWriteUnnoticed(t) ==
    /\ place[t] = "writing"
    /\ Closed(t, Torn)
    /\ Advance(t, "renaming")
    /\ UNCHANGED <<stored, leaked, mounted, checked, handle, excused>>

(* fwrite stores less than it was given: the file is left, torn.             *)
ShortWrite(t) ==
    /\ place[t] = "writing"
    /\ Closed(t, Torn)
    /\ Return(t, "error")
    /\ UNCHANGED <<stored, leaked, mounted, checked>>

Written(t) ==
    /\ place[t] = "writing"
    /\ Closed(t, call[t].data)
    /\ Advance(t, "renaming")
    /\ UNCHANGED <<stored, leaked, mounted, checked, handle, excused>>

(* fwrite fills a buffer that fclose writes, and fclose's result is ignored. *)
CloseFails(t) ==
    /\ place[t] = "writing"
    /\ Closed(t, Torn) \/ UNCHANGED temp
    /\ excused' = excused \cup {t}
    /\ Advance(t, "renaming")
    /\ UNCHANGED <<stored, leaked, mounted, checked, handle>>

Rename(t) ==
    LET f == call[t].file IN
    /\ place[t] = "renaming"
    /\ temp[f] # Absent
    /\ ~TempInUse(f)
    /\ ~FileInUse(f)
    /\ stored' = [stored EXCEPT ![f] = temp[f]]
    /\ temp' = [temp EXCEPT ![f] = Absent]
    /\ Return(t, "ok")
    /\ UNCHANGED <<leaked, mounted, checked>>

RenameFails(t) ==
    /\ place[t] = "renaming"
    /\ Return(t, "error")
    /\ UNCHANGED <<flashVars, leaked, mounted, checked>>

------------------------------------------------------------------------------
(* datastorage_erase_file_from_partition.                                    *)

StartErase(t, c) ==
    /\ c.type = "erase"
    /\ Begin(t, c, "erasing")
    /\ RemoveTemp(c.file)
    /\ UNCHANGED <<stored, leaked, mounted, checked, handle>>

EraseFile(t) ==
    LET f == call[t].file IN
    /\ place[t] = "erasing"
    /\ stored[f] # Absent
    /\ ~FileInUse(f)
    /\ stored' = [stored EXCEPT ![f] = Absent]
    /\ Return(t, "ok")
    /\ UNCHANGED <<temp, leaked, mounted, checked>>

EraseFails(t) ==
    /\ place[t] = "erasing"
    /\ Return(t, "error")
    /\ UNCHANGED <<flashVars, leaked, mounted, checked>>

------------------------------------------------------------------------------
(* datastorage_read_data_from_file_in_partition.                             *)

(* Mutant: what a file holds is asked for before it is known to be there.    *)
StartReadUnchecked(t, c) ==
    /\ c.type = "read"
    /\ Begin(t, c, "reading")
    /\ handle' = [handle EXCEPT ![t] = stored[c.file]]
    /\ UNCHANGED <<flashVars, leaked, mounted, checked>>

StartRead(t, c) ==
    /\ c.type = "read"
    /\ \/ /\ stored[c.file] # Absent
          /\ Begin(t, c, "reading")
          /\ handle' = [handle EXCEPT ![t] = stored[c.file]]
       \/ Begin(t, c, "refused") /\ UNCHANGED handle
    /\ UNCHANGED <<flashVars, leaked, mounted, checked>>

(* A read that fails half-way is returned as what was read of it (284-296).  *)
EndRead(t) ==
    /\ place[t] = "reading"
    /\ Return(t, "ok")
    /\ UNCHANGED <<flashVars, leaked, mounted, checked>>

ReadFails(t) ==
    /\ place[t] \in {"refused", "reading"}
    /\ Return(t, "error")
    /\ UNCHANGED <<flashVars, leaked, mounted, checked>>

------------------------------------------------------------------------------
(* Mutant: the descriptor is closed and the temporary file goes.             *)
CheckExistenceClosing(t, f) ==
    /\ mounted
    /\ place[t] = "idle"
    /\ RemoveTemp(f)
    /\ checked' = checked \cup {f}
    /\ UNCHANGED <<stored, leaked, mounted, callVars>>

(* datastorage_check_file_existence: the descriptor of a temporary file that *)
(* it opens to see whether there is one stays open, and it cannot be removed *)
(* for that reason. Its callers call it after a restart before all else (but *)
(* when the state of the running image cannot be read, updater.cpp:1321).   *)
CheckExistence(t, f) ==
    /\ mounted
    /\ place[t] = "idle"
    /\ leaked' \in {leaked, IF temp[f] = Absent THEN leaked ELSE leaked \cup {f}}
    /\ checked' = checked \cup {f}
    /\ UNCHANGED <<flashVars, mounted, callVars>>

(* datastorage_mount_storage_partition, which may have to format it.         *)
Mount ==
    /\ ~mounted
    /\ mounted' = TRUE
    /\ \/ UNCHANGED flashVars
       \/ /\ stored' = [f \in Files |-> Absent]
          /\ temp' = [f \in Files |-> Absent]
    /\ UNCHANGED <<leaked, checked, callVars>>

Restart ==
    /\ leaked' = {}
    /\ mounted' = FALSE
    /\ checked' = {}
    /\ call' = [t \in Tasks |-> NoCall]
    /\ place' = [t \in Tasks |-> "idle"]
    /\ handle' = [t \in Tasks |-> <<>>]
    /\ answer' = [t \in Tasks |-> "none"]
    /\ excused' = {}
    /\ UNCHANGED flashVars

Next ==
    \/ \E t \in Tasks :
         \/ \E c \in Calls : StartWrite(t, c) \/ StartErase(t, c) \/ StartRead(t, c)
         \/ OpenTemp(t) \/ OpenToAppend(t) \/ OpenFails(t)
         \/ ShortWrite(t) \/ Written(t) \/ CloseFails(t)
         \/ Rename(t) \/ RenameFails(t)
         \/ EraseFile(t) \/ EraseFails(t)
         \/ EndRead(t) \/ ReadFails(t)
         \/ \E f \in Files : CheckExistence(t, f)
    \/ Mount
    \/ Restart

Spec == Init /\ [][Next]_vars

------------------------------------------------------------------------------
(* The type of the state.                                                    *)
TypeOK ==
    /\ stored \in [Files -> Contents \cup {Absent}]
    /\ temp \in [Files -> Contents \cup {Absent}]
    /\ leaked \subseteq Files
    /\ mounted \in BOOLEAN
    /\ checked \subseteq Files
    /\ call \in [Tasks -> Calls \cup {NoCall}]
    /\ place \in [Tasks -> {"idle", "opening", "writing", "renaming", "erasing", "reading", "refused"}]
    /\ handle \in [Tasks -> Contents]
    /\ answer \in [Tasks -> {"none", "ok", "error"}]
    /\ excused \subseteq Tasks

File == INSTANCE AtomicFile WITH content <- stored

(* Through every restart, flash error, left-over file and call of another    *)
(* task a write that returns DATASTORAGE_OK has replaced its file at once by *)
(* its whole data, and one that does not has left it (datastorage.cpp:192,   *)
(* 204-220), but for two writes of one file together and an error of fclose. *)
FilesAreAtomic == File!Spec

(* A temporary file is left over, or stays with the descriptor of a check.   *)
Blocked(f) == f \in leaked \/ (f \notin checked /\ temp[f] # Absent)

(* A power cut that leaves a temporary file ends all storing under its name: *)
(* the check that finds it keeps it open (datastorage.cpp:88-92), so that it *)
(* is neither removed nor renamed, and it is there again after each restart. *)
(* Only a check that cannot open it (no descriptor, no memory) spares it.    *)
AfterACutNothingIsStored ==
    [][\A f \in Files : Blocked(f) =>
          \/ stored'[f] \in {stored[f], Absent} /\ Blocked(f)'
          \/ ~mounted
          \/ f \notin checked /\ f \in checked' /\ UNCHANGED <<leaked, temp>>]_vars

------------------------------------------------------------------------------
(* The inductive invariant.                                                  *)

(* What a task is at is part of what it has called.                          *)
PlaceFitsCall ==
    \A t \in Tasks :
        /\ place[t] = "idle" <=> call[t] = NoCall
        /\ place[t] \in {"opening", "writing", "renaming"} => Writes(call[t])
        /\ place[t] = "erasing" => call[t].type = "erase"
        /\ place[t] \in {"reading", "refused"} => call[t].type = "read"

(* Nothing is called and no descriptor is open before the partition is       *)
(* mounted, and no file is worked on before it was looked for.               *)
FirstMountedAndChecked ==
    /\ ~mounted => leaked = {} /\ \A t \in Tasks : place[t] = "idle"
    /\ \A t \in Tasks : place[t] # "idle" => call[t].file \in checked

(* Two writes of one file are both excused (datastorage.cpp:187-192: they    *)
(* share the temporary file).                                                *)
RivalsAreExcused ==
    \A t, u \in Tasks :
        /\ t # u
        /\ Writes(call[t]) /\ Writes(call[u])
        /\ call[t].file = call[u].file
        => t \in excused

(* What is about to be renamed is what was to be stored, or is gone.         *)
TempIsWhole ==
    \A t \in Tasks :
        /\ place[t] = "writing" /\ call[t].type = "write" => handle[t] = <<>>
        /\ place[t] = "renaming" /\ t \notin excused =>
               \/ temp[call[t].file] = Absent
               \/ File!Stored(call[t], temp[call[t].file])

(* The file behind a descriptor that nobody closes is there.                 *)
LeakedIsThere == \A f \in leaked : temp[f] # Absent

StorageInv ==
    /\ TypeOK
    /\ PlaceFitsCall
    /\ FirstMountedAndChecked
    /\ RivalsAreExcused
    /\ TempIsWhole
    /\ LeakedIsThere
==============================================================================
