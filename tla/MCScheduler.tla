----------------------------- MODULE MCScheduler ------------------------------
(***************************************************************************)
(* The instance of Scheduler for TLC: the kernel's three tasks.            *)
(***************************************************************************)
EXTENDS Scheduler
===============================================================================
