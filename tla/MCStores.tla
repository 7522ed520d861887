------------------------------- MODULE MCStores ------------------------------
(* The two stores of an Anker, the files of datastorage.cpp and the clock    *)
(* saved in the non-volatile storage. They share nothing, so a behaviour     *)
(* moves one of them, and each is checked as if it were alone.               *)
EXTENDS DataStorage, TimeController, TLC

VARIABLE moving  \* the store that moves

storeVars == <<vars, clockVars, moving>>

StoresInit == Init /\ ClockInit /\ moving \in {"files", "clock"}

StoresNext ==
    /\ UNCHANGED moving
    /\ \/ moving = "files" /\ Next /\ UNCHANGED clockVars
       \/ moving = "clock" /\ ClockNext /\ UNCHANGED vars

StoresSpec == StoresInit /\ [][StoresNext]_storeVars

(* The inductive invariants of both stores, their types among them: where a  *)
(* call is, whose write is excused and what is about to be renamed           *)
(* (datastorage.cpp:187-228), how old the times of an update and of a        *)
(* restart may be (timecontroller_core.cpp:261-284).                         *)
StoresInv == StorageInv /\ ClockInv

Alike == Permutations(Tasks) \cup Permutations(Data)
==============================================================================
