---------------------------- MODULE MCMessageServer ----------------------------
(***************************************************************************)
(* Instances of MessageServer for TLC.  Connections and names are model    *)
(* values that nothing orders, so the safety runs permute them.            *)
(***************************************************************************)
EXTENDS MessageServer, TLC

Interchangeable == Permutations(Conns) \cup Permutations(Names)
================================================================================
