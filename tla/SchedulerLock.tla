--------------------------- MODULE SchedulerLock ---------------------------
(***************************************************************************)
(* src/scheduler/service.py: start, stop and the instance lock, a file     *)
(* that holds the pid of the scheduler's process.                          *)
(*                                                                         *)
(* Unlike the lock of the execution loop this one is taken over when the   *)
(* process in it is dead.  Every system call is a step; other processes    *)
(* run in between.  All processes belong to one user and see each other's  *)
(* pids.                                                                   *)
(***************************************************************************)
EXTENDS Naturals, FiniteSets

CONSTANTS
  Process,   \* pids of the processes that may start the scheduler
  NoFile,    \* there is no lock file
  NoProcess,
  MaxDeaths, \* bound: processes that die
  MaxStarts  \* bound: calls of start()

ASSUME LockAssumption ==
  /\ IsFiniteSet(Process)
  /\ NoProcess \notin Process
  /\ NoFile \notin [by : Process, pid : Process \cup {NoProcess}]
  /\ MaxDeaths \in Nat /\ MaxStarts \in Nat

VARIABLES
  file,   \* finn_scheduler.lock: the process that made it and the pid in it
  pc,     \* where each process's start() is
  seen,   \* old_pid it has read
  held,   \* held[p]: _INSTANCE_LOCK_HELD
  dead,   \* processes that have died
  reused, \* those of them whose pid another program has by now
  stolen, \* history: a file was taken away from a process that was alive
  alone,  \* history: nobody else was starting or running during p's start()
  deaths, starts

processes == <<pc, seen, held>>
world == <<dead, reused, deaths, starts>>
history == <<stolen, alone>>
vars == <<file, processes, world, history>>

File == [by : Process, pid : Process \cup {NoProcess}]

TypeOK ==
  /\ file \in File \cup {NoFile}
  /\ pc \in [Process -> {"idle", "create", "write", "read", "probe", "unlink"}]
  /\ seen \in [Process -> Process \cup {NoProcess}]
  /\ \A p \in Process : pc[p] \in {"probe", "unlink"} => seen[p] \in Process
  /\ held \in [Process -> BOOLEAN]
  /\ dead \subseteq Process /\ reused \subseteq dead
  /\ stolen \in BOOLEAN
  /\ alone \in [Process -> BOOLEAN]
  /\ deaths \in 0 .. MaxDeaths
  /\ starts \in 0 .. MaxStarts

Init ==
  /\ file = NoFile
  /\ pc = [p \in Process |-> "idle"]
  /\ seen = [p \in Process |-> NoProcess]
  /\ held = [p \in Process |-> FALSE]
  /\ dead = {} /\ reused = {}
  /\ stolen = FALSE
  /\ alone = [p \in Process |-> FALSE]
  /\ deaths = 0 /\ starts = 0

\* The pid in the file; none if it is empty or there is no file.
FilePid == IF file = NoFile THEN NoProcess ELSE file.pid

Goto(p, where) == pc' = [pc EXCEPT ![p] = where]

\* A process that starts or runs the scheduler.
Busy(p) == pc[p] # "idle" \/ held[p]

-----------------------------------------------------------------------------
(* start().                                                                *)

\* start() is called, also by a process whose scheduler runs already.
Start(p) ==
  /\ p \notin dead
  /\ pc[p] = "idle"
  /\ starts < MaxStarts
  /\ starts' = starts + 1
  /\ Goto(p, "create")
  /\ alone' = [q \in Process |->
                 IF q = p THEN ~ \E r \in Process : Busy(r) ELSE FALSE]
  /\ UNCHANGED <<file, seen, held, dead, reused, deaths, stolen>>

\* Mutant: the file is opened without O_EXCL.
CreateShared(p) ==
  /\ pc[p] = "create"
  /\ file' = [by |-> p, pid |-> NoProcess]
  /\ Goto(p, "write")
  /\ UNCHANGED <<seen, held, world, history>>

\* open with O_CREAT | O_EXCL: a new file, empty, or FileExistsError.
Create(p) ==
  /\ pc[p] = "create"
  /\ \/ /\ file = NoFile
        /\ file' = [by |-> p, pid |-> NoProcess]
        /\ Goto(p, "write")
     \/ /\ file # NoFile
        /\ Goto(p, "read")
        /\ UNCHANGED file
  /\ UNCHANGED <<seen, held, world, history>>

\* The pid is written, to a file that may have been unlinked meanwhile; then
\* _INSTANCE_LOCK_HELD is set.  If a job cannot be added start() raises, and
\* the flag stays set.
Write(p) ==
  /\ pc[p] = "write"
  /\ file' = IF file # NoFile /\ file.by = p THEN [file EXCEPT !.pid = p] ELSE file
  /\ held' = [held EXCEPT ![p] = TRUE]
  /\ Goto(p, "idle")
  /\ UNCHANGED <<seen, world, history>>

\* "Scheduler lock already held": start() raises.
Refuse(p) == Goto(p, "idle") /\ UNCHANGED seen

\* Mutant: a file that cannot be read is tried again at once.
ReadSpins(p) ==
  /\ pc[p] = "read"
  /\ \/ FilePid = NoProcess /\ Goto(p, "create") /\ UNCHANGED seen
     \/ /\ FilePid # NoProcess
        /\ seen' = [seen EXCEPT ![p] = FilePid]
        /\ Goto(p, "probe")
  /\ UNCHANGED <<file, held, world, history>>

\* The file is gone or empty: ValueError or OSError.
Read(p) ==
  /\ pc[p] = "read"
  /\ \/ FilePid = NoProcess /\ Refuse(p)
     \/ /\ FilePid # NoProcess
        /\ seen' = [seen EXCEPT ![p] = FilePid]
        /\ Goto(p, "probe")
  /\ UNCHANGED <<file, held, world, history>>

\* Mutant: the answer of kill() is read the other way round.
ProbeInverted(p) ==
  /\ pc[p] = "probe"
  /\ \/ seen[p] \in dead \ reused /\ Refuse(p)
     \/ seen[p] \notin dead \ reused /\ Goto(p, "unlink") /\ UNCHANGED seen
  /\ UNCHANGED <<file, held, world, history>>

\* Mutant: a pid that does not exist is not told from one that does.
ProbeNeverDead(p) ==
  /\ pc[p] = "probe"
  /\ Refuse(p)
  /\ UNCHANGED <<file, held, world, history>>

\* os.kill(pid, 0) succeeds for the process itself, and for any program that
\* has its pid now.
Probe(p) ==
  /\ pc[p] = "probe"
  /\ \/ seen[p] \notin dead \ reused /\ Refuse(p)
     \/ seen[p] \in dead \ reused /\ Goto(p, "unlink") /\ UNCHANGED seen
  /\ UNCHANGED <<file, held, world, history>>

\* unlink(missing_ok) removes whatever is there by now, and start() tries again.
Unlink(p) ==
  /\ pc[p] = "unlink"
  /\ file' = NoFile
  /\ stolen' = (stolen \/ (file # NoFile /\ file.by \notin dead))
  /\ Goto(p, "create")
  /\ UNCHANGED <<seen, held, world, alone>>

-----------------------------------------------------------------------------
(* The end of a scheduler.                                                 *)

\* stop() removes the file if the flag is set, also a file that is not its own.
Stop(p) ==
  /\ p \notin dead
  /\ pc[p] = "idle" /\ held[p]
  /\ file' = NoFile
  /\ held' = [held EXCEPT ![p] = FALSE]
  /\ UNCHANGED <<pc, seen, world, history>>

\* The process dies without stop(): the file stays.
Die(p) ==
  /\ p \notin dead
  /\ deaths < MaxDeaths
  /\ deaths' = deaths + 1
  /\ dead' = dead \cup {p}
  /\ Goto(p, "idle")
  /\ held' = [held EXCEPT ![p] = FALSE]
  /\ seen' = [seen EXCEPT ![p] = NoProcess]
  /\ UNCHANGED <<file, reused, starts, history>>

\* The system gives the pid of a dead process to another program, or takes it
\* back.
PidReused(p) ==
  /\ p \in dead
  /\ reused' = IF p \in reused THEN reused \ {p} ELSE reused \cup {p}
  /\ UNCHANGED <<file, processes, dead, deaths, starts, history>>

Acquire(p) == Create(p) \/ Write(p) \/ Read(p) \/ Probe(p) \/ Unlink(p)

Next ==
  \E p \in Process :
    Start(p) \/ Acquire(p) \/ Stop(p) \/ Die(p) \/ PidReused(p)

Spec == Init /\ [][Next]_vars

\* A running process goes on with its call.
FairSpec == Spec /\ \A p \in Process : WF_vars(Acquire(p))

-----------------------------------------------------------------------------
(* Properties.                                                             *)

\* As long as no lock has been stolen, the scheduler that runs has its pid in the
\* file, so there is one at most (start, _acquire_instance_lock, stop).
FileNamesScheduler ==
  ~ stolen => \A p \in Process : held[p] => file = [by |-> p, pid |-> p]

\* A lock is stolen in one way only: the thief has read the pid of a scheduler
\* that is dead, and before its unlink a third process has put its own file
\* there.  One starter alone steals nothing, nor does one without a death
\* (l.46-52).
TheftTakesThree ==
  [][~ stolen /\ stolen' =>
       \E p \in Process :
         /\ pc[p] = "unlink"
         /\ seen[p] \in dead
         /\ file.by \notin dead \cup {p}]_vars

\* A process that starts the scheduler while no other starts or runs it is
\* refused only by what a dead process has left: a file without a pid, or a
\* pid that belongs to another program by now.  So after a crash the scheduler
\* comes back (l.44-53).
LoneStartSucceeds ==
  [][\A p \in Process :
       pc[p] \in {"read", "probe"} /\ pc'[p] = "idle" /\ alone[p] /\ p \notin dead' =>
         /\ file # NoFile
         /\ file.by \in dead
         /\ FilePid = NoProcess \/ FilePid \in reused]_vars

\* start() returns: the recursion of _acquire_instance_lock ends, since every
\* round needs another dead process.
StartReturns == \A p \in Process : pc[p] = "create" ~> pc[p] = "idle"
=============================================================================
