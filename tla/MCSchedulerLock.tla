-------------------------- MODULE MCSchedulerLock --------------------------
(* Three processes, one or two of which may die: a dead scheduler and two   *)
(* starters.                                                                *)
EXTENDS SchedulerLock
=============================================================================
