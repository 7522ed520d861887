---------------------------- MODULE StoresProofs ------------------------------
(* The two stores side by side.                                              *)
EXTENDS MCStores, DataStorageProofs, TimeControllerProofs

(* Each store keeps its invariant while the other one moves.                 *)
THEOREM StoresInvariance == StoresSpec => []StoresInv
  <1>1. StoresInit => StoresInv
    BY StorageInitInv, ClockInitInv DEF StoresInit, StoresInv
  <1>2. StoresInv /\ [StoresNext]_storeVars => StoresInv'
    <2> SUFFICES ASSUME StoresInv, [StoresNext]_storeVars
                 PROVE  StoresInv'
      OBVIOUS
    <2>1. [Next]_vars /\ [ClockNext]_clockVars
      BY DEF StoresNext, storeVars
    <2> QED
      BY <2>1, StorageNextInv, ClockNextInv DEF StoresInv
  <1> QED
    BY <1>1, <1>2, PTL DEF StoresSpec
==============================================================================
