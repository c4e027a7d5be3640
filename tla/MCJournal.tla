------------------------------ MODULE MCJournal ------------------------------
(***************************************************************************)
(* Journal.tla with small sets of connections, sessions and payloads.      *)
(* Connections are interchangeable: no property names one.                 *)
(***************************************************************************)
EXTENDS Journal, FiniteSets, TLC

ConnSymmetry == Permutations(Conn)
=============================================================================
