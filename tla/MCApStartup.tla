----------------------------- MODULE MCApStartup ------------------------------
(***************************************************************************)
(* The instance of ApStartup for TLC: the vector of contexts moves once,   *)
(* to a storage that the heap has, or not; and the fourth processor's      *)
(* place in the list is more than its index can say.                       *)
(***************************************************************************)
EXTENDS ApStartup

MCStorages == {4, 6}
===============================================================================
