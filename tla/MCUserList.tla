------------------------------- MODULE MCUserList -------------------------------
(***************************************************************************)
(* Instances of UserList for TLC.  Nodes and names are model values that   *)
(* nothing orders.                                                         *)
(***************************************************************************)
EXTENDS UserList, TLC

Interchangeable == Permutations(Nodes) \cup Permutations(Names)
================================================================================
