------------------------------- MODULE Mutex -------------------------------
(***************************************************************************)
(* What a lock file promises: who gets in owns the lock until leaving, and *)
(* a process that dies inside keeps everybody out.                         *)
(*                                                                         *)
(* ExecutionLoop.tla implements it.                                        *)
(***************************************************************************)
CONSTANTS Process, Nobody

VARIABLES
  owner,  \* whom the lock belongs to
  inside  \* the processes that rely on it

mutexVars == <<owner, inside>>

MutexInit == owner = Nobody /\ inside = {}

Enter(p) ==
  /\ owner = Nobody
  /\ owner' = p
  /\ inside' = inside \cup {p}

\* Only the owner gives the lock back.
Leave(p) ==
  /\ p \in inside /\ owner = p
  /\ owner' = Nobody
  /\ inside' = inside \ {p}

DieInside(p) ==
  /\ p \in inside
  /\ inside' = inside \ {p}
  /\ UNCHANGED owner

MutexNext == \E p \in Process : Enter(p) \/ Leave(p) \/ DieInside(p)

MutexSpec == MutexInit /\ [][MutexNext]_mutexVars
=============================================================================
