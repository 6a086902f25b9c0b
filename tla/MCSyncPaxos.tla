------------------------------ MODULE MCSyncPaxos ------------------------------
(***************************************************************************)
(* SyncPaxos instantiated for TLC.  The servers are numbers, compared and  *)
(* counted with, so that only the values are interchangeable.              *)
(***************************************************************************)
EXTENDS SyncPaxosInv

ValueSymmetry == Permutations(Value)
================================================================================
