------------------------ MODULE SchedulerLock_proofs ------------------------
(* The scheduler's lock file for any number of processes, starts, deaths   *)
(* and reused pids.                                                        *)
EXTENDS SchedulerLock, TLAPS

USE LockAssumption

Where == {"idle", "create", "write", "read", "probe", "unlink"}

-----------------------------------------------------------------------------
(* Types.                                                                  *)

LEMMA TypeInit == Init => TypeOK
<1> SUFFICES ASSUME Init PROVE TypeOK
  OBVIOUS
<1>1. pc \in [Process -> Where] /\ held \in [Process -> BOOLEAN]
  BY DEF Init, Where
<1>2. seen \in [Process -> Process \cup {NoProcess}]
  BY DEF Init
<1>3. alone \in [Process -> BOOLEAN] /\ stolen \in BOOLEAN
  BY DEF Init
<1>4. deaths \in 0 .. MaxDeaths /\ starts \in 0 .. MaxStarts
  BY DEF Init
<1>5. \A p \in Process : pc[p] = "idle"
  BY DEF Init
<1>6. file \in File \cup {NoFile} /\ dead \subseteq Process /\ reused \subseteq dead
  BY DEF Init
<1> QED BY <1>1, <1>2, <1>3, <1>4, <1>5, <1>6 DEF TypeOK, Where

LEMMA TypeStep == TypeOK /\ [Next]_vars => TypeOK'
<1> SUFFICES ASSUME TypeOK, [Next]_vars PROVE TypeOK'
  OBVIOUS
<1> USE DEF TypeOK, File, FilePid, Goto, Refuse, world, history, processes
<1>1. ASSUME NEW p \in Process, Start(p) PROVE TypeOK'
  <2>1. alone' \in [Process -> BOOLEAN]
    BY <1>1 DEF Start
  <2>2. starts' \in 0 .. MaxStarts
    BY <1>1 DEF Start
  <2>3. pc' = [pc EXCEPT ![p] = "create"] /\ UNCHANGED seen
    BY <1>1 DEF Start
  <2>4. \A q \in Process : pc'[q] \in {"probe", "unlink"} => seen'[q] \in Process
    BY <2>3
  <2>5. UNCHANGED <<file, held, dead, reused, deaths, stolen>>
    BY <1>1 DEF Start
  <2> QED BY <2>1, <2>2, <2>3, <2>4, <2>5
<1>2. ASSUME NEW p \in Process, Create(p) PROVE TypeOK'
  BY <1>2 DEF Create
<1>3. ASSUME NEW p \in Process, Write(p) PROVE TypeOK'
  <2>1. file' \in File \cup {NoFile}
    BY <1>3 DEF Write
  <2> QED BY <1>3, <2>1 DEF Write
<1>4. ASSUME NEW p \in Process, Read(p) PROVE TypeOK'
  BY <1>4 DEF Read
<1>5. ASSUME NEW p \in Process, Probe(p) PROVE TypeOK'
  BY <1>5 DEF Probe
<1>6. ASSUME NEW p \in Process, Unlink(p) PROVE TypeOK'
  BY <1>6 DEF Unlink
<1>7. ASSUME NEW p \in Process, Stop(p) PROVE TypeOK'
  BY <1>7 DEF Stop
<1>8. ASSUME NEW p \in Process, Die(p) PROVE TypeOK'
  BY <1>8 DEF Die
<1>9. ASSUME NEW p \in Process, PidReused(p) PROVE TypeOK'
  BY <1>9 DEF PidReused
<1>10. CASE UNCHANGED vars
  BY <1>10 DEF vars
<1> QED BY <1>1, <1>2, <1>3, <1>4, <1>5, <1>6, <1>7, <1>8, <1>9, <1>10
        DEF Next, Acquire

\* Every pid a process has read and asks for belongs to a process, and every
\* counter keeps its bound.
THEOREM TypeCorrect == Spec => []TypeOK
BY TypeInit, TypeStep, PTL DEF Spec

-----------------------------------------------------------------------------
(* The owner of the file.                                                  *)

\* The dead do nothing; a file is unlinked only for a pid that is dead.
DeadAreStill ==
  \A p \in Process :
    /\ p \in dead => pc[p] = "idle" /\ ~ held[p]
    /\ pc[p] = "unlink" => seen[p] \in dead

LEMMA DeadStep == TypeOK /\ DeadAreStill /\ [Next]_vars => DeadAreStill'
<1> SUFFICES ASSUME TypeOK, DeadAreStill, [Next]_vars PROVE DeadAreStill'
  OBVIOUS
<1> USE DEF TypeOK, DeadAreStill, Goto, Refuse, world, history, processes
<1>1. ASSUME NEW p \in Process, Start(p) PROVE DeadAreStill'
  BY <1>1 DEF Start
<1>2. ASSUME NEW p \in Process, Acquire(p) PROVE DeadAreStill'
  BY <1>2 DEF Acquire, Create, Write, Read, Probe, Unlink
<1>3. ASSUME NEW p \in Process, Stop(p) \/ Die(p) \/ PidReused(p)
      PROVE  DeadAreStill'
  BY <1>3 DEF Stop, Die, PidReused
<1>4. CASE UNCHANGED vars
  BY <1>4 DEF vars
<1> QED BY <1>1, <1>2, <1>3, <1>4 DEF Next

\* A file belongs to a process that is dead, runs the scheduler, or is about to
\* write its pid; what is in it is that process's pid.
FileHasOwner ==
  file # NoFile =>
    /\ file.by \in dead \/ held[file.by] \/ pc[file.by] = "write"
    /\ file.pid \in {NoProcess, file.by}

LEMMA OwnerStep ==
  TypeOK /\ DeadAreStill /\ FileHasOwner /\ [Next]_vars => FileHasOwner'
<1> SUFFICES ASSUME TypeOK, DeadAreStill, FileHasOwner, [Next]_vars
             PROVE  FileHasOwner'
  OBVIOUS
<1> USE DEF TypeOK, File, FileHasOwner, Goto, Refuse, world, history, processes
<1>1. ASSUME NEW p \in Process, Start(p) PROVE FileHasOwner'
  BY <1>1 DEF Start
<1>2. ASSUME NEW p \in Process, Create(p) PROVE FileHasOwner'
  BY <1>2 DEF Create
<1>3. ASSUME NEW p \in Process, Write(p) PROVE FileHasOwner'
  <2>1. CASE file # NoFile /\ file.by = p
    <3>1. file' \in File /\ file'.by = p /\ file'.pid = p
      BY <1>3, <2>1 DEF Write
    <3>2. held'[p]
      BY <1>3 DEF Write
    <3> QED BY <3>1, <3>2
  <2>2. CASE ~ (file # NoFile /\ file.by = p)
    BY <1>3, <2>2 DEF Write
  <2> QED BY <2>1, <2>2
<1>4. ASSUME NEW p \in Process, Read(p) \/ Probe(p) PROVE FileHasOwner'
  BY <1>4 DEF Read, Probe
<1>5. ASSUME NEW p \in Process, Unlink(p) \/ Stop(p) PROVE FileHasOwner'
  BY <1>5 DEF Unlink, Stop
<1>6. ASSUME NEW p \in Process, Die(p) PROVE FileHasOwner'
  BY <1>6 DEF Die
<1>7. ASSUME NEW p \in Process, PidReused(p) PROVE FileHasOwner'
  BY <1>7 DEF PidReused
<1>8. CASE UNCHANGED vars
  BY <1>8 DEF vars
<1> QED BY <1>1, <1>2, <1>3, <1>4, <1>5, <1>6, <1>7, <1>8 DEF Next, Acquire

-----------------------------------------------------------------------------
(* One scheduler, as long as nothing is stolen.                            *)

\* Inductive strengthening of FileNamesScheduler: the file is also that of the
\* process about to write, and a running scheduler that is started again finds
\* its own pid and is refused.
LockNamed ==
  ~ stolen =>
    \A p \in Process :
      /\ held[p] =>
           /\ file = [by |-> p, pid |-> p]
           /\ pc[p] \notin {"write", "unlink"}
           /\ pc[p] = "probe" => seen[p] = p
      /\ pc[p] = "write" => file = [by |-> p, pid |-> NoProcess]

LEMMA NamedStep ==
  TypeOK /\ DeadAreStill /\ LockNamed /\ [Next]_vars => LockNamed'
<1> SUFFICES ASSUME TypeOK, DeadAreStill, LockNamed, [Next]_vars
             PROVE  LockNamed'
  OBVIOUS
<1> USE DEF TypeOK, DeadAreStill, File, LockNamed, Goto, Refuse, world, history,
            processes
<1>1. ASSUME NEW p \in Process, Start(p) PROVE LockNamed'
  BY <1>1 DEF Start
<1>2. ASSUME NEW p \in Process, Create(p) PROVE LockNamed'
  BY <1>2 DEF Create
<1>3. ASSUME NEW p \in Process, Write(p) PROVE LockNamed'
  <2> SUFFICES ASSUME ~ stolen PROVE LockNamed'
    BY <1>3 DEF Write
  <2>1. file = [by |-> p, pid |-> NoProcess]
    BY <1>3 DEF Write
  <2>2. file' = [by |-> p, pid |-> p]
    BY <1>3, <2>1 DEF Write
  <2>3. ASSUME NEW q \in Process, q # p PROVE ~ held[q] /\ pc[q] # "write"
    BY <2>1, <2>3
  <2> QED BY <1>3, <2>2, <2>3 DEF Write
<1>4. ASSUME NEW p \in Process, Read(p) PROVE LockNamed'
  BY <1>4 DEF Read, FilePid
<1>5. ASSUME NEW p \in Process, Probe(p) PROVE LockNamed'
  BY <1>5 DEF Probe
<1>6. ASSUME NEW p \in Process, Unlink(p) PROVE LockNamed'
  <2> SUFFICES ASSUME ~ stolen, file = NoFile \/ file.by \in dead
               PROVE  LockNamed'
    BY <1>6 DEF Unlink
  <2>1. ASSUME NEW q \in Process PROVE ~ held[q] /\ pc[q] # "write"
    OBVIOUS
  <2> QED BY <1>6, <2>1 DEF Unlink
<1>7. ASSUME NEW p \in Process, Stop(p) PROVE LockNamed'
  <2> SUFFICES ASSUME ~ stolen PROVE LockNamed'
    BY <1>7 DEF Stop
  <2>1. ASSUME NEW q \in Process, q # p PROVE ~ held[q] /\ pc[q] # "write"
    BY <1>7, <2>1 DEF Stop
  <2> QED BY <1>7, <2>1 DEF Stop
<1>8. ASSUME NEW p \in Process, Die(p) PROVE LockNamed'
  BY <1>8 DEF Die
<1>9. ASSUME NEW p \in Process, PidReused(p) PROVE LockNamed'
  BY <1>9 DEF PidReused
<1>10. CASE UNCHANGED vars
  BY <1>10 DEF vars
<1> QED BY <1>1, <1>2, <1>3, <1>4, <1>5, <1>6, <1>7, <1>8, <1>9, <1>10
        DEF Next, Acquire

LockInv == TypeOK /\ DeadAreStill /\ FileHasOwner /\ LockNamed

LEMMA LockInvInit == Init => LockInv
BY TypeInit DEF Init, LockInv, DeadAreStill, FileHasOwner, LockNamed

THEOREM LockInvariant == Spec => []LockInv
<1>1. LockInv /\ [Next]_vars => LockInv'
  BY TypeStep, DeadStep, OwnerStep, NamedStep DEF LockInv
<1> QED BY <1>1, LockInvInit, PTL DEF Spec

\* While no lock has been stolen, the file names the process whose scheduler
\* runs.
THEOREM SchedulerIsNamed == Spec => []FileNamesScheduler
<1>1. LockInv => FileNamesScheduler
  BY DEF LockInv, LockNamed, FileNamesScheduler
<1> QED BY <1>1, LockInvariant, PTL

\* So there is one scheduler at most, whoever starts, stops, dies or restarts.
THEOREM OneSchedulerUnlessStolen ==
  Spec => [](~ stolen => \A p, q \in Process : held[p] /\ held[q] => p = q)
<1>1. FileNamesScheduler =>
        (~ stolen => \A p, q \in Process : held[p] /\ held[q] => p = q)
  BY DEF FileNamesScheduler
<1> QED BY <1>1, SchedulerIsNamed, PTL

\* The only way to steal a lock takes three processes, one of them dead.
THEOREM TheftNeedsThree == Spec => TheftTakesThree
<1>1. LockInv /\ [Next]_vars =>
        [~ stolen /\ stolen' =>
           \E p \in Process :
             /\ pc[p] = "unlink"
             /\ seen[p] \in dead
             /\ file.by \notin dead \cup {p}]_vars
  <2> SUFFICES ASSUME LockInv, Next, ~ stolen, stolen'
               PROVE  \E p \in Process : /\ pc[p] = "unlink"
                                         /\ seen[p] \in dead
                                         /\ file.by \notin dead \cup {p}
    OBVIOUS
  <2>1. \E p \in Process : Unlink(p)
    BY DEF Next, Start, Acquire, Create, Write, Read, Probe, Stop, Die,
           PidReused, history
  <2> PICK p \in Process : Unlink(p)
    BY <2>1
  <2>2. file # NoFile /\ file.by \notin dead
    BY <2>1 DEF Unlink
  <2>3. pc[p] = "unlink" /\ seen[p] \in dead
    BY <2>1 DEF Unlink, LockInv, DeadAreStill
  <2>4. file.by # p
    BY <2>2, <2>3 DEF LockInv, FileHasOwner, LockNamed
  <2> QED BY <2>2, <2>3, <2>4
<1> QED BY <1>1, LockInvariant, PTL DEF Spec, TheftTakesThree

-----------------------------------------------------------------------------
(* A process that starts alone.                                            *)

\* Nobody else runs or starts the scheduler, and the file it has met is that of
\* a dead process, with the pid it has read.
StartsAlone ==
  \A p \in Process :
    alone[p] /\ pc[p] # "idle" =>
      /\ ~ held[p]
      /\ \A q \in Process : q # p => ~ Busy(q)
      /\ pc[p] \in {"read", "probe", "unlink"} =>
           file # NoFile /\ file.by \in dead
      /\ pc[p] = "probe" => FilePid = seen[p]

LEMMA AloneStep == LockInv /\ StartsAlone /\ [Next]_vars => StartsAlone'
<1> SUFFICES ASSUME LockInv, StartsAlone, [Next]_vars PROVE StartsAlone'
  OBVIOUS
<1> USE DEF LockInv, TypeOK, DeadAreStill, FileHasOwner, StartsAlone, File, Busy,
            FilePid, Goto, Refuse, world, history, processes
<1>1. ASSUME NEW p \in Process, Start(p) PROVE StartsAlone'
  <2>1. CASE \E r \in Process : Busy(r)
    <3>1. \A q \in Process : ~ alone'[q]
      BY <1>1, <2>1 DEF Start
    <3> QED BY <3>1
  <2>2. CASE ~ \E r \in Process : Busy(r)
    <3>1. \A q \in Process : alone'[q] => q = p
      BY <1>1 DEF Start
    <3>2. /\ pc'[p] = "create" /\ ~ held'[p]
          /\ \A q \in Process : q # p => ~ held'[q] /\ pc'[q] = "idle"
      BY <1>1, <2>2 DEF Start
    <3> QED BY <3>1, <3>2
  <2> QED BY <2>1, <2>2
<1>2. ASSUME NEW p \in Process, Create(p) PROVE StartsAlone'
  BY <1>2 DEF Create
<1>3. ASSUME NEW p \in Process, Write(p) PROVE StartsAlone'
  BY <1>3 DEF Write
<1>4. ASSUME NEW p \in Process, Read(p) PROVE StartsAlone'
  BY <1>4 DEF Read
<1>5. ASSUME NEW p \in Process, Probe(p) PROVE StartsAlone'
  BY <1>5 DEF Probe
<1>6. ASSUME NEW p \in Process, Unlink(p) PROVE StartsAlone'
  BY <1>6 DEF Unlink
<1>7. ASSUME NEW p \in Process, Stop(p) PROVE StartsAlone'
  BY <1>7 DEF Stop
<1>8. ASSUME NEW p \in Process, Die(p) PROVE StartsAlone'
  BY <1>8 DEF Die
<1>9. ASSUME NEW p \in Process, PidReused(p) PROVE StartsAlone'
  BY <1>9 DEF PidReused
<1>10. CASE UNCHANGED vars
  BY <1>10 DEF vars
<1> QED BY <1>1, <1>2, <1>3, <1>4, <1>5, <1>6, <1>7, <1>8, <1>9, <1>10
        DEF Next, Acquire

\* The scheduler comes back after a crash: a process that starts it alone is
\* refused only for an empty file of a dead process, or a pid that another
\* program has by now.
THEOREM LoneStarterGetsIn == Spec => LoneStartSucceeds
<1>1. Init => StartsAlone
  BY DEF Init, StartsAlone
<1>2. LockInv /\ StartsAlone /\ [Next]_vars =>
        [\A p \in Process :
           pc[p] \in {"read", "probe"} /\ pc'[p] = "idle" /\ alone[p] /\ p \notin dead' =>
             /\ file # NoFile
             /\ file.by \in dead
             /\ FilePid = NoProcess \/ FilePid \in reused]_vars
  <2> SUFFICES ASSUME LockInv, StartsAlone, Next,
                      NEW p \in Process, pc[p] \in {"read", "probe"},
                      pc'[p] = "idle", alone[p], p \notin dead'
               PROVE  /\ file # NoFile
                      /\ file.by \in dead
                      /\ FilePid = NoProcess \/ FilePid \in reused
    OBVIOUS
  <2>1. file # NoFile /\ file.by \in dead
    BY DEF StartsAlone
  <2>2. Read(p) \/ Probe(p)
    <3>1. pc \in [Process -> Where]
      BY DEF LockInv, TypeOK, Where
    <3>2. PICK q \in Process :
            Start(q) \/ Acquire(q) \/ Stop(q) \/ Die(q) \/ PidReused(q)
      BY DEF Next
    <3>3. q = p
      BY <3>1, <3>2 DEF Acquire, Start, Create, Write, Read, Probe, Unlink, Stop,
                        Die, PidReused, Goto, Refuse, processes
    <3>4. ~ Die(p) /\ ~ Start(p) /\ ~ Create(p) /\ ~ Write(p) /\ ~ Unlink(p)
      BY DEF Die, Start, Create, Write, Unlink
    <3>5. ~ Stop(p) /\ ~ PidReused(p)
      BY <3>1 DEF Stop, PidReused, processes
    <3> QED BY <3>2, <3>3, <3>4, <3>5 DEF Acquire
  <2>3. CASE Read(p)
    BY <2>1, <2>3 DEF Read, Goto, LockInv, TypeOK
  <2>4. CASE Probe(p)
    <3>1. seen[p] \notin dead \ reused
      BY <2>4 DEF Probe, Goto, LockInv, TypeOK
    <3>2. FilePid = seen[p] /\ FilePid \in {NoProcess, file.by}
      BY <2>1, <2>4 DEF Probe, StartsAlone, LockInv, FileHasOwner, FilePid
    <3> QED BY <2>1, <3>1, <3>2
  <2> QED BY <2>1, <2>2, <2>3, <2>4
<1> QED BY <1>1, <1>2, AloneStep, LockInvariant, PTL DEF Spec, LoneStartSucceeds
=============================================================================
