---------------------------- MODULE MCScheduler ----------------------------
(* Scheduler for TLC: main of src/src/main.c adds one process, the console. *)
EXTENDS Scheduler

CONSTANT console

MCProcs == <<console>>
=============================================================================
