----------------------------- MODULE MCNameServer ------------------------------
(***************************************************************************)
(* Instances of NameServer for TLC.  Connections and names are model       *)
(* values that nothing orders, so the safety runs permute them.            *)
(***************************************************************************)
EXTENDS NameServer, TLC

Interchangeable == Permutations(Conns) \cup Permutations(Names)
================================================================================
