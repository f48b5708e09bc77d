------------------------ MODULE ExecutionLoop_proofs ------------------------
(***************************************************************************)
(* What TLAPS proves of the two models of run_execution_loop.  Of          *)
(* ExecutionLoop: the lock file, with restarts and crashes, and the daily  *)
(* cap, for any number of processes and loops.  Of DayGuards: what the     *)
(* daily-loss and drawdown guards keep the loop's turns from, for all      *)
(* values, start balances and limits.  The two share no variable; each has *)
(* its own specification.                                                  *)
(***************************************************************************)
EXTENDS ExecutionLoop, DayGuards, TLAPS

\* The difference of two numbers, as the provers want it for primed variables.
LEMMA Difference == \A a, b \in Nat : b <= a => a - b \in Nat
OBVIOUS

\* Not more orders are left uncounted than were executed.
LEMMA TallyNext == ASSUME TypeOK' PROVE Tallied' \in Nat
<1>1. placed' \in Nat /\ uncounted' \in Nat /\ uncounted' <= placed'
  BY LoopAssumption DEF TypeOK
<1> QED BY <1>1, Difference DEF Tallied

USE LoopAssumption DEF lock

\* LockOwned with the types it needs is inductive: the file is created only
\* when there is none, and removed only by the process that holds it.
LockInv ==
  /\ lockFile \in Process \cup {NoProcess}
  /\ held \in [Process -> BOOLEAN]
  /\ running \in [Process -> BOOLEAN]
  /\ LockOwned

\* A turn of a loop does not touch the lock.
LEMMA TurnKeepsLock == \A l \in Loop : Turn(l) => UNCHANGED lock
<1> SUFFICES ASSUME NEW l \in Loop, Turn(l) PROVE UNCHANGED lock
  OBVIOUS
<1>1. CASE Load(l) \/ LoadFails(l) \/ Top(l) \/ Roll(l) \/ Check(l)
  BY <1>1 DEF Load, LoadFails, Top, Roll, Check
<1>2. CASE Place(l) \/ Count(l) \/ Save(l)
  BY <1>2 DEF Place, Count, Save
<1>3. CASE EndBatch(l) \/ FollowUp(l) \/ TurnDone(l) \/ Wake(l)
  BY <1>3 DEF EndBatch, FollowUp, TurnDone, Wake
<1> QED BY <1>1, <1>2, <1>3 DEF Turn

LEMMA LockInvStep == LockInv /\ [Next]_vars => LockInv'
<1> SUFFICES ASSUME LockInv, [Next]_vars PROVE LockInv'
  OBVIOUS
<1> USE DEF LockInv, LockOwned
<1>1. ASSUME NEW l \in Loop, Start(l) PROVE LockInv'
  <2>1. Owner[l] \in Process
    OBVIOUS
  <2> QED BY <1>1, <2>1 DEF Start, Acquire
<1>2. ASSUME NEW p \in Process, Stop(p) PROVE LockInv'
  BY <1>2 DEF Stop, Release
<1>3. ASSUME NEW p \in Process, Crash(p) PROVE LockInv'
  BY <1>3 DEF Crash
<1>4. CASE UNCHANGED lock
  BY <1>4
<1>5. NextDay \/ UNCHANGED vars => UNCHANGED lock
  BY DEF NextDay, vars
<1> QED BY <1>1, <1>2, <1>3, <1>4, <1>5, TurnKeepsLock DEF Next

\* The process that has _running set holds the lock, and the file is its own.
THEOREM LockIsOwned == Spec => []LockOwned
<1>1. Init => LockInv
  BY DEF Init, LockInv, LockOwned
<1>2. LockInv => LockOwned
  BY DEF LockInv
<1> QED BY <1>1, <1>2, LockInvStep, PTL DEF Spec

\* At most one process has _running set, whatever is stopped, restarted or
\* killed.
THEOREM OneProcessRuns ==
  Spec => [](\A p, q \in Process : running[p] /\ running[q] => p = q)
<1>1. LockOwned => \A p, q \in Process : running[p] /\ running[q] => p = q
  BY DEF LockOwned
<1> QED BY <1>1, LockIsOwned, PTL

\* "Execution loop already running" (l.526-528) is dead code: whoever gets the
\* lock finds _running unset.
THEOREM NeverStartedAgain ==
  Spec => [][\A l \in Loop : Start(l) => ~ running[Owner[l]]]_vars
<1>1. LockOwned => (\A l \in Loop : Start(l) => ~ running[Owner[l]])
  BY DEF LockOwned, Start, Acquire
<1> QED BY <1>1, LockIsOwned, PTL
-----------------------------------------------------------------------------
(* The lock file implements Mutex.                                         *)

Inside == {p \in Process : held[p]}

LEMMA LockStepIsMutexStep ==
  ASSUME LockInv, [Next]_vars
  PROVE  [LockFile!MutexNext]_LockFile!mutexVars
<1> USE DEF LockInv, LockOwned, LockFile!MutexNext, LockFile!mutexVars
<1>1. ASSUME NEW l \in Loop, Start(l)
      PROVE  LockFile!MutexNext
  <2>1. Owner[l] \in Process
    OBVIOUS
  <2>2. Acquire(Owner[l])
    BY <1>1 DEF Start
  <2>3. Inside' = Inside \cup {Owner[l]}
    BY <2>1, <2>2 DEF Acquire, Inside
  <2>4. LockFile!Enter(Owner[l])
    BY <2>2, <2>3 DEF Acquire, Inside, LockFile!Enter
  <2> QED BY <2>1, <2>4
<1>2. ASSUME NEW p \in Process, Stop(p)
      PROVE  [LockFile!MutexNext]_LockFile!mutexVars
  <2>1. CASE held[p]
    <3>1. lockFile' = NoProcess /\ Inside' = Inside \ {p}
      BY <1>2, <2>1 DEF Stop, Release, Inside
    <3> QED BY <2>1, <3>1 DEF Inside, LockFile!Leave
  <2>2. CASE ~ held[p]
    BY <1>2, <2>2 DEF Stop, Release
  <2> QED BY <2>1, <2>2
<1>3. ASSUME NEW p \in Process, Crash(p)
      PROVE  [LockFile!MutexNext]_LockFile!mutexVars
  <2>1. UNCHANGED lockFile /\ Inside' = Inside \ {p}
    BY <1>3 DEF Crash, Inside
  <2>2. Inside' = Inside \/ LockFile!DieInside(p)
    BY <2>1 DEF Inside, LockFile!DieInside
  <2> QED BY <2>1, <2>2 DEF Inside
<1>4. CASE UNCHANGED lock
  BY <1>4
<1>5. NextDay \/ UNCHANGED vars => UNCHANGED lock
  BY DEF NextDay, vars
<1> QED BY <1>1, <1>2, <1>3, <1>4, <1>5, TurnKeepsLock DEF Next

\* The lock file of the loop is a mutual exclusion of processes, for any number
\* of them: never taken over, and removed by its owner only.
THEOREM MutexImplemented == Spec => ImplementsMutex
<1>1. Init => LockInv /\ LockFile!MutexInit
  BY DEF Init, LockInv, LockOwned, LockFile!MutexInit
<1>2. LockInv /\ [Next]_vars => [LockFile!MutexNext]_LockFile!mutexVars
  BY LockStepIsMutexStep
<1> QED BY <1>1, <1>2, LockInvStep, PTL DEF Spec, ImplementsMutex, LockFile!MutexSpec
-----------------------------------------------------------------------------
(* Types.                                                                  *)

\* The initial state is well typed.
LEMMA TypeInit == Init => TypeOK
BY DEF Init, TypeOK

\* A start keeps the types.
LEMMA StartTyped ==
  ASSUME TypeOK, NEW l \in Loop, Start(l) PROVE TypeOK'
<1>1. Owner[l] \in Process
  OBVIOUS
<1> QED BY <1>1 DEF TypeOK, Start, Acquire, counters, saved, world, Working

\* The turn of the day keeps the types, whether the counter is cleared, loaded
\* or left alone.
LEMMA RollTyped ==
  ASSUME TypeOK, NEW l \in Loop, Roll(l) PROVE TypeOK'
<1> DEFINE p == Owner[l]
<1>1. p \in Process
  OBVIOUS
<1>2. /\ trades' \in [Process -> Nat] /\ resetDay' \in [Process -> 0 .. MaxDay]
      /\ savedTrades' \in Nat /\ savedDay' \in 0 .. MaxDay
  <2>1. CASE ResetCounters(p)
    BY <1>1, <2>1 DEF TypeOK, ResetCounters, SaveRows, saved
  <2>2. CASE LoadRows(p) /\ UNCHANGED saved
    BY <1>1, <2>2 DEF TypeOK, LoadRows, saved
  <2>3. CASE UNCHANGED <<counters, saved>>
    BY <2>3 DEF TypeOK, counters, saved
  <2> QED BY <2>1, <2>2, <2>3 DEF Roll
<1>3. UNCHANGED <<lock, left, world>> /\ Goto(l, "check")
  BY DEF Roll
<1> QED BY <1>2, <1>3 DEF TypeOK, Goto, world, Working

\* The head of the loop keeps the types, whether it clears an old counter or not.
LEMMA TopTyped ==
  ASSUME TypeOK, NEW l \in Loop, Top(l) PROVE TypeOK'
<1>1. Owner[l] \in Process
  OBVIOUS
<1>2. /\ trades' \in [Process -> Nat] /\ resetDay' \in [Process -> 0 .. MaxDay]
      /\ savedTrades' \in Nat /\ savedDay' \in 0 .. MaxDay
  <2>1. CASE ResetCounters(Owner[l])
    BY <1>1, <2>1 DEF TypeOK, ResetCounters, SaveRows, saved
  <2>2. CASE UNCHANGED <<counters, saved>>
    BY <2>2 DEF TypeOK, counters, saved
  <2> QED BY <2>1, <2>2 DEF Top
<1>3. /\ UNCHANGED <<lock, left, world>>
      /\ \E where \in {"off", "sleep", "roll", "follow"} : Goto(l, where)
  BY DEF Top
<1> QED BY <1>2, <1>3 DEF TypeOK, Goto, world, Working

\* Every step of a loop keeps the types.
LEMMA TurnTyped ==
  ASSUME TypeOK, NEW l \in Loop, Turn(l) PROVE TypeOK'
<1>0. Owner[l] \in Process
  OBVIOUS
<1> USE DEF TypeOK, Goto, counters, saved, world, Working
<1>1. CASE Load(l)
  BY <1>0, <1>1 DEF Load, LoadRows
<1>2. CASE LoadFails(l) \/ TurnDone(l) \/ Wake(l)
  BY <1>2 DEF LoadFails, TurnDone, Wake
<1>3. CASE Roll(l) \/ Top(l)
  BY <1>3, RollTyped, TopTyped
<1>4. CASE Check(l)
  <2>1. /\ left' \in [Loop -> 0 .. MaxSignals]
        /\ phase' \in [Loop -> Working \cup {"off", "load", "top", "follow", "sleep"}]
    BY <1>4 DEF Check
  <2> QED BY <1>4, <2>1 DEF Check
<1>5. CASE Place(l)
  <2>1. left' \in [Loop -> 0 .. MaxSignals]
    BY <1>5 DEF Place, TakeSignal
  <2>2. /\ placed' \in 0 .. MaxPlaced /\ uncounted' \in 0 .. placed'
        /\ phase' \in [Loop -> Working \cup {"off", "load", "top", "follow", "sleep"}]
    BY <1>5 DEF Place, Execute
  <2> QED BY <1>5, <2>1, <2>2 DEF Place
<1>6. CASE Count(l)
  BY <1>0, <1>6 DEF Count
<1>7. CASE Save(l)
  BY <1>0, <1>7 DEF Save, SaveRows
<1>8. CASE EndBatch(l)
  BY <1>8 DEF EndBatch
<1>9. CASE FollowUp(l)
  BY <1>9 DEF FollowUp, Execute
<1> QED BY <1>1, <1>2, <1>3, <1>4, <1>5, <1>6, <1>7, <1>8, <1>9 DEF Turn

\* So does every other step.
LEMMA TypeNext == TypeOK /\ [Next]_vars => TypeOK'
<1> SUFFICES ASSUME TypeOK, [Next]_vars PROVE TypeOK'
  OBVIOUS
<1>1. ASSUME NEW l \in Loop, Start(l) \/ Turn(l) PROVE TypeOK'
  BY <1>1, StartTyped, TurnTyped
<1>2. ASSUME NEW p \in Process, Stop(p) PROVE TypeOK'
  <2>1. lockFile' \in Process \cup {NoProcess} /\ held' \in [Process -> BOOLEAN]
    BY <1>2 DEF TypeOK, Stop, Release
  <2>2. stops' \in 0 .. MaxStops
    BY <1>2 DEF TypeOK, Stop
  <2> QED BY <1>2, <2>1, <2>2 DEF TypeOK, Stop, counters, saved, Working
<1>3. ASSUME NEW p \in Process, Crash(p) PROVE TypeOK'
  BY <1>3 DEF TypeOK, Crash, saved, Working
<1>4. CASE NextDay
  BY <1>4 DEF TypeOK, NextDay, counters, saved, Working
<1>5. CASE UNCHANGED vars
  BY <1>5 DEF TypeOK, vars, counters, saved, world, Working
<1> QED BY <1>1, <1>2, <1>3, <1>4, <1>5 DEF Next

\* Type correctness, for any number of processes and loops and any cap.
THEOREM LoopTypeOK == Spec => []TypeOK
BY TypeInit, TypeNext, PTL DEF Spec
-----------------------------------------------------------------------------
(* The daily cap.  Undisturbed, one loop at most ever begins; Within       *)
(* relates its counter, the rest of its batch and the day's tally, and     *)
(* with OneLoop and the two properties it is inductive.                    *)

Batch == {"batch", "count", "save"}
\* An order executed and yet to be counted.
InFlight(l) == IF phase[l] = "count" THEN 1 ELSE 0

\* One loop at most has ever begun, and only the process that holds the lock has
\* read or moved its counter.
OneLoop ==
  /\ \A l \in Loop : phase[l] # "off" => lockFile = Owner[l]
  /\ \A l, m \in Loop : phase[l] # "off" /\ phase[m] # "off" => l = m
  /\ \A p \in Process : p # lockFile => trades[p] = 0 /\ resetDay[p] = 0
  /\ \A p \in Process : resetDay[p] = 0 => trades[p] = 0
  /\ (\A p \in Process : resetDay[p] = 0) => savedDay = 0 /\ Tallied = 0
  /\ \A l \in Loop : phase[l] = "load" => resetDay[Owner[l]] = 0
  /\ \A l \in Loop : phase[l] \in Batch \cup {"check"} => resetDay[Owner[l]] # 0
  /\ \A p \in Process : resetDay[p] <= day
  /\ \A l \in Loop : phase[l] \notin Batch => left[l] = 0

Within(l) ==
  LET p == Owner[l]
      counted == trades[p] + InFlight(l)
  IN  /\ counted + left[l] <= MaxTrades - 1 + MaxSignals
      /\ resetDay[p] = day => counted <= Tallied /\ Tallied <= MaxSignals + counted
      /\ resetDay[p] # day => Tallied + left[l] <= MaxSignals
      /\ resetDay[p] # day /\ phase[l] = "check" => Tallied = 0

CapInv ==
  Undisturbed =>
    /\ OneLoop
    /\ \A l \in Loop : phase[l] # "off" => Within(l)
    /\ CountedOverrunBounded /\ NoForeignTrades

\* What one step of the only loop may assume.
LoopFacts(l) ==
  /\ TypeOK /\ Undisturbed /\ OneLoop /\ Within(l)
  /\ phase[l] # "off"

\* Before any loop has begun there is nothing to bound.
LEMMA CapInit == Init => CapInv
<1> SUFFICES ASSUME Init PROVE CapInv
  OBVIOUS
<1>1. OneLoop
  BY DEF Init, OneLoop, Batch, Tallied
<1>2. CountedOverrunBounded /\ NoForeignTrades
  BY DEF Init, CountedOverrunBounded, NoForeignTrades, Tallied
<1> QED BY <1>1, <1>2 DEF Init, CapInv

\* A turn leaves the other loops and processes as they are.
LEMMA TurnIsLocal ==
  ASSUME NEW l \in Loop, TypeOK, Turn(l)
  PROVE  /\ \A m \in Loop : m # l => phase'[m] = phase[m] /\ left'[m] = left[m]
         /\ \A q \in Process : q # Owner[l] => trades'[q] = trades[q] /\ resetDay'[q] = resetDay[q]
         /\ UNCHANGED <<lockFile, day, crashes, stops>>
         /\ phase[l] # "off"
<1> USE DEF TypeOK, Goto, counters, saved, world, Working
<1>1. CASE Load(l)
  BY <1>1 DEF Load, LoadRows
<1>2. CASE LoadFails(l) \/ Wake(l) \/ EndBatch(l) \/ FollowUp(l) \/ TurnDone(l)
  BY <1>2 DEF LoadFails, Wake, EndBatch, FollowUp, TurnDone
<1>3. CASE Roll(l)
  <2>1. /\ phase[l] = "roll" /\ Goto(l, "check")
        /\ UNCHANGED <<lock, left, world>>
    BY <1>3 DEF Roll
  <2>2. \A q \in Process : q # Owner[l] => trades'[q] = trades[q] /\ resetDay'[q] = resetDay[q]
    BY <1>3 DEF Roll, ResetCounters, LoadRows
  <2> QED BY <2>1, <2>2
<1>4. CASE Check(l)
  BY <1>4 DEF Check
<1>5. CASE Place(l)
  BY <1>5 DEF Place, TakeSignal
<1>6. CASE Count(l) \/ Save(l)
  BY <1>6 DEF Count, Save
<1>7. CASE Top(l)
  <2>1. /\ phase[l] = "top" /\ UNCHANGED <<lock, left, world>>
        /\ \E where \in {"off", "sleep", "roll", "follow"} : Goto(l, where)
    BY <1>7 DEF Top
  <2>2. \A q \in Process : q # Owner[l] => trades'[q] = trades[q] /\ resetDay'[q] = resetDay[q]
    BY <1>7 DEF Top, ResetCounters
  <2> QED BY <2>1, <2>2
<1> QED BY <1>1, <1>2, <1>3, <1>4, <1>5, <1>6, <1>7 DEF Turn

\* What a turn does to the loop's own counter, batch and orders.
LEMMA TurnEffect ==
  ASSUME NEW l \in Loop, LoopFacts(l), Turn(l)
  PROVE  /\ phase'[l] # "off" => Within(l)'
         /\ resetDay'[Owner[l]] = 0 => resetDay[Owner[l]] = 0 /\ trades'[Owner[l]] = 0
                                       /\ savedDay' = savedDay /\ Tallied' = Tallied
         /\ resetDay'[Owner[l]] <= day
         /\ phase'[l] # "load"
         /\ phase'[l] \in Batch \cup {"check"} => resetDay'[Owner[l]] # 0
         /\ phase'[l] \notin Batch => left'[l] = 0
         /\ Tallied' # Tallied => phase'[l] # "off"
         /\ phase'[l] = "off" => UNCHANGED <<trades, resetDay>> /\ Tallied' = Tallied
<1> DEFINE p == Owner[l]
<1>0. p \in Process
  OBVIOUS
<1>1. /\ trades[p] \in Nat /\ resetDay[p] \in Nat /\ left[l] \in Nat
      /\ placed \in Nat /\ uncounted \in 0 .. placed
      /\ Tallied \in Nat /\ day \in Nat \ {0} /\ left[l] <= MaxSignals
  BY <1>0 DEF LoopFacts, TypeOK, Tallied
<1>2. /\ phase \in [Loop -> Working \cup {"off", "load", "top", "follow", "sleep"}]
      /\ left \in [Loop -> 0 .. MaxSignals]
      /\ trades \in [Process -> Nat] /\ resetDay \in [Process -> 0 .. MaxDay]
  BY DEF LoopFacts, TypeOK
<1>3. Within(l) /\ phase[l] # "off"
  BY DEF LoopFacts
<1>4. /\ resetDay[p] <= day
      /\ phase[l] \in Batch \cup {"check"} => resetDay[p] # 0
      /\ phase[l] \notin Batch => left[l] = 0
      /\ resetDay[p] = 0 => trades[p] = 0
      /\ phase[l] = "load" => resetDay[p] = 0
  BY <1>0 DEF LoopFacts, OneLoop
<1>5. resetDay[p] = 0 => savedDay = 0 /\ Tallied = 0
  <2>1. \A q \in Process : q # p => resetDay[q] = 0
    BY DEF LoopFacts, OneLoop
  <2> QED BY <2>1 DEF LoopFacts, OneLoop
<1> HIDE DEF p
<1> USE DEF Within, InFlight, Batch
<1>11. CASE Load(l)
  <2>1. UNCHANGED <<trades, resetDay, savedDay, left, day>> /\ Tallied' = Tallied
    BY <1>2, <1>4, <1>5, <1>11 DEF Load, LoadRows, saved, world, Tallied, p
  <2>2. phase[l] = "load" /\ phase'[l] = "top"
    BY <1>2, <1>11 DEF Load, Goto
  <2> QED BY <1>1, <1>3, <1>4, <1>5, <2>1, <2>2 DEF p
<1>12. CASE LoadFails(l) \/ TurnDone(l) \/ Wake(l)
  <2>1. UNCHANGED <<trades, resetDay, savedDay, left, day>> /\ Tallied' = Tallied
    BY <1>12 DEF LoadFails, TurnDone, Wake, counters, saved, world, Tallied
  <2>2. phase[l] \notin Batch \cup {"check"} /\ phase'[l] \in {"off", "sleep", "top"}
    BY <1>2, <1>12 DEF LoadFails, TurnDone, Wake, Goto
  <2> QED BY <1>1, <1>3, <1>4, <1>5, <2>1, <2>2 DEF p
<1>13. CASE Roll(l)
  <2>1. /\ UNCHANGED <<left, day>> /\ Tallied' = Tallied
        /\ phase[l] = "roll" /\ phase'[l] = "check"
    BY <1>2, <1>13 DEF Roll, Goto, world, Tallied
  <2>2. CASE resetDay[p] # day
    <3>1. (IF resetDay[p] = 0 THEN savedDay ELSE resetDay[p]) # day
      BY <1>1, <1>5, <2>2
    <3>2. ResetCounters(p)
      BY <1>13, <3>1 DEF Roll, p
    <3>3. trades'[p] = 0 /\ resetDay'[p] = day
      BY <1>0, <1>2, <3>2 DEF ResetCounters
    <3> QED BY <1>1, <1>3, <1>4, <2>1, <2>2, <3>3, LoopAssumption DEF p
  <2>3. CASE resetDay[p] = day
    <3>1. UNCHANGED <<counters, saved>>
      BY <1>1, <1>13, <2>3 DEF Roll, p
    <3> QED BY <1>1, <1>3, <1>4, <2>1, <2>3, <3>1 DEF p, counters, saved
  <2> QED BY <2>2, <2>3
<1>14. CASE Check(l)
  <2>1. UNCHANGED <<trades, resetDay, savedDay, day>> /\ Tallied' = Tallied /\ phase[l] = "check"
    BY <1>14 DEF Check, counters, saved, world, Tallied
  <2>2. CASE UnderCap(p)
    <3>1. phase'[l] = "batch" /\ left'[l] \in 0 .. MaxSignals /\ trades[p] < MaxTrades
      BY <1>2, <1>14, <2>2 DEF Check, Goto, UnderCap, p
    <3> QED BY <1>1, <1>3, <1>4, <2>1, <3>1 DEF p
  <2>3. CASE ~ UnderCap(p)
    <3>1. phase'[l] = "follow" /\ left' = left
      BY <1>2, <1>14, <2>3 DEF Check, Goto, p
    <3> QED BY <1>1, <1>3, <1>4, <2>1, <3>1 DEF p
  <2> QED BY <2>2, <2>3
<1>15. CASE Place(l)
  <2>1. /\ UNCHANGED <<trades, resetDay, savedDay, day>>
        /\ phase[l] = "batch" /\ left[l] > 0 /\ left'[l] = left[l] - 1
    BY <1>2, <1>15 DEF Place, TakeSignal, counters, saved
  <2>2. \/ Tallied' = Tallied + 1 /\ phase'[l] = "count"
        \/ Tallied' = Tallied /\ phase'[l] = "batch"
    BY <1>1, <1>2, <1>15, <2>1 DEF Place, Execute, Goto, Tallied
  <2> QED BY <1>1, <1>3, <1>4, <2>1, <2>2 DEF p
<1>16. CASE Count(l)
  <2>1. /\ UNCHANGED <<resetDay, savedDay, left, day>> /\ Tallied' = Tallied
        /\ phase[l] = "count" /\ phase'[l] = "save" /\ trades'[p] = trades[p] + 1
    BY <1>0, <1>2, <1>16 DEF Count, Goto, saved, world, Tallied, p
  <2> QED BY <1>1, <1>3, <1>4, <2>1 DEF p
<1>17. CASE Save(l)
  <2>1. /\ UNCHANGED <<trades, resetDay, left, day>> /\ Tallied' = Tallied
        /\ phase[l] = "save" /\ phase'[l] = "batch"
    BY <1>2, <1>17 DEF Save, Goto, counters, world, Tallied
  <2> QED BY <1>1, <1>3, <1>4, <2>1 DEF p
<1>18. CASE EndBatch(l)
  <2>1. /\ UNCHANGED <<trades, resetDay, savedDay, day>> /\ Tallied' = Tallied
        /\ phase[l] = "batch" /\ phase'[l] \in {"follow", "sleep"} /\ left'[l] = 0
    BY <1>2, <1>18 DEF EndBatch, Goto, counters, saved, world, Tallied
  <2> QED BY <1>1, <1>3, <1>4, <2>1 DEF p
<1>19. CASE FollowUp(l)
  <2>1. /\ UNCHANGED <<trades, resetDay, savedDay, left, day>> /\ phase' = phase
        /\ phase[l] = "follow" /\ placed' = placed + 1 /\ uncounted' = uncounted + 1
    BY <1>19 DEF FollowUp, Execute, counters, saved
  <2>2. Tallied' = Tallied
    BY <1>1, <2>1 DEF Tallied
  <2> QED BY <1>1, <1>3, <1>4, <1>5, <2>1, <2>2 DEF p
<1>20. CASE Top(l)
  <2>1. /\ UNCHANGED <<left, day>> /\ Tallied' = Tallied
        /\ phase[l] = "top" /\ phase'[l] \in {"off", "sleep", "roll", "follow"}
    BY <1>2, <1>20 DEF Top, Goto, world, Tallied
  <2>2. CASE UNCHANGED <<counters, saved>>
    BY <1>1, <1>3, <1>4, <1>5, <2>1, <2>2 DEF p, counters, saved
  <2>3. CASE ResetCounters(p) /\ resetDay[p] # day /\ phase'[l] = "sleep"
    <3>1. trades'[p] = 0 /\ resetDay'[p] = day
      BY <1>0, <1>2, <2>3 DEF ResetCounters
    <3> QED BY <1>1, <1>3, <1>4, <2>1, <2>3, <3>1, LoopAssumption DEF p
  <2>4. \/ UNCHANGED <<counters, saved>>
        \/ ResetCounters(p) /\ resetDay[p] # day /\ phase'[l] = "sleep"
    BY <1>2, <1>20 DEF Top, Goto, p
  <2> QED BY <2>2, <2>3, <2>4
<1> QED BY <1>11, <1>12, <1>13, <1>14, <1>15, <1>16, <1>17, <1>18, <1>19, <1>20 DEF Turn

\* The effect on the acting loop, and that the others are "off", give the whole
\* invariant.
LEMMA TurnKeepsCap ==
  ASSUME NEW l \in Loop, TypeOK, CapInv, Turn(l)
  PROVE  CapInv'
<1> SUFFICES ASSUME Undisturbed'
             PROVE  /\ OneLoop'
                    /\ \A m \in Loop : phase'[m] # "off" => Within(m)'
                    /\ CountedOverrunBounded' /\ NoForeignTrades'
  BY DEF CapInv
<1> DEFINE p == Owner[l]
<1>0. p \in Process
  OBVIOUS
<1>1. /\ \A m \in Loop : m # l => phase'[m] = phase[m] /\ left'[m] = left[m]
      /\ \A q \in Process : q # p => trades'[q] = trades[q] /\ resetDay'[q] = resetDay[q]
      /\ UNCHANGED <<lockFile, day, crashes, stops>>
      /\ phase[l] # "off"
  BY TurnIsLocal
<1>2. Undisturbed
  BY <1>1 DEF Undisturbed
<1>3. OneLoop /\ Within(l) /\ CountedOverrunBounded /\ NoForeignTrades
  BY <1>1, <1>2 DEF CapInv
<1>4. LoopFacts(l)
  BY <1>1, <1>2, <1>3 DEF LoopFacts
<1>5. /\ phase'[l] # "off" => Within(l)'
      /\ resetDay'[p] = 0 => resetDay[p] = 0 /\ trades'[p] = 0
                             /\ savedDay' = savedDay /\ Tallied' = Tallied
      /\ resetDay'[p] <= day
      /\ phase'[l] # "load"
      /\ phase'[l] \in Batch \cup {"check"} => resetDay'[p] # 0
      /\ phase'[l] \notin Batch => left'[l] = 0
      /\ Tallied' # Tallied => phase'[l] # "off"
      /\ phase'[l] = "off" => UNCHANGED <<trades, resetDay>> /\ Tallied' = Tallied
  BY <1>4, TurnEffect
<1>6. \A m \in Loop : m # l => phase[m] = "off" /\ phase'[m] = "off"
  BY <1>1, <1>3 DEF OneLoop
<1>7. lockFile = p
  BY <1>1, <1>3 DEF OneLoop
<1>8. TypeOK'
  BY TurnTyped
<1>9. /\ \A q \in Process : trades'[q] \in Nat /\ resetDay'[q] \in Nat
      /\ Tallied' \in Nat /\ day \in Nat \ {0} /\ left'[l] \in Nat
  BY <1>1, <1>8, TallyNext DEF TypeOK
<1> HIDE DEF p
<1>10. OneLoop'
  <2>1. \A m \in Loop : phase'[m] # "off" => lockFile' = Owner[m]
    BY <1>1, <1>6, <1>7 DEF p
  <2>2. \A m, n \in Loop : phase'[m] # "off" /\ phase'[n] # "off" => m = n
    BY <1>6
  <2>3. \A q \in Process : q # lockFile' => trades'[q] = 0 /\ resetDay'[q] = 0
    BY <1>1, <1>3, <1>7 DEF OneLoop
  <2>4. \A q \in Process : resetDay'[q] = 0 => trades'[q] = 0
    BY <1>1, <1>3, <1>5 DEF OneLoop
  <2>5. (\A q \in Process : resetDay'[q] = 0) => savedDay' = 0 /\ Tallied' = 0
    <3>1. SUFFICES ASSUME \A q \in Process : resetDay'[q] = 0
                   PROVE  savedDay' = 0 /\ Tallied' = 0
      OBVIOUS
    <3>2. \A q \in Process : resetDay[q] = 0
      BY <1>0, <1>1, <1>5, <3>1
    <3> QED BY <1>0, <1>3, <1>5, <3>1, <3>2 DEF OneLoop
  <2>6. \A m \in Loop : phase'[m] = "load" => resetDay'[Owner[m]] = 0
    BY <1>5, <1>6
  <2>7. \A m \in Loop : phase'[m] \in Batch \cup {"check"} => resetDay'[Owner[m]] # 0
    BY <1>5, <1>6 DEF Batch, p
  <2>8. \A q \in Process : resetDay'[q] <= day'
    BY <1>1, <1>3, <1>5 DEF OneLoop
  <2>9. \A m \in Loop : phase'[m] \notin Batch => left'[m] = 0
    BY <1>1, <1>3, <1>5, <1>6 DEF OneLoop, Batch
  <2> QED BY <2>1, <2>2, <2>3, <2>4, <2>5, <2>6, <2>7, <2>8, <2>9 DEF OneLoop
<1>11. \A m \in Loop : phase'[m] # "off" => Within(m)'
  BY <1>5, <1>6
<1>12. CountedOverrunBounded'
  <2>1. CASE phase'[l] = "off"
    BY <1>2, <1>3, <1>5, <2>1 DEF CountedOverrunBounded
  <2>2. CASE phase'[l] # "off"
    BY <1>0, <1>5, <1>9, <1>1, <2>2, LoopAssumption DEF Within, InFlight, CountedOverrunBounded, p
  <2> QED BY <2>1, <2>2
<1>13. NoForeignTrades'
  <2>1. \A q \in Process : q # p /\ resetDay'[q] = day' => trades'[q] <= Tallied'
    BY <1>1, <1>3, <1>7, <1>9 DEF OneLoop
  <2>2. resetDay'[p] = day' => trades'[p] <= Tallied'
    <3>1. CASE phase'[l] = "off"
      BY <1>0, <1>1, <1>2, <1>3, <1>5, <3>1 DEF NoForeignTrades
    <3>2. CASE phase'[l] # "off"
      BY <1>0, <1>5, <1>9, <1>1, <3>2 DEF Within, InFlight, p
    <3> QED BY <3>1, <3>2
  <2> QED BY <2>1, <2>2 DEF NoForeignTrades
<1> QED BY <1>10, <1>11, <1>12, <1>13

\* Undisturbed, a loop starts only when none has ever started.
LEMMA StartKeepsCap ==
  ASSUME NEW l \in Loop, TypeOK, CapInv, Start(l)
  PROVE  CapInv'
<1> SUFFICES ASSUME Undisturbed'
             PROVE  /\ OneLoop'
                    /\ \A m \in Loop : phase'[m] # "off" => Within(m)'
                    /\ CountedOverrunBounded' /\ NoForeignTrades'
  BY DEF CapInv
<1>1. /\ lockFile = NoProcess /\ lockFile' = Owner[l]
      /\ UNCHANGED <<trades, resetDay, savedDay, left, day, crashes, stops>> /\ Tallied' = Tallied
  BY DEF Start, Acquire, counters, saved, world, Tallied
<1>2. Undisturbed
  BY <1>1 DEF Undisturbed
<1>3. OneLoop /\ CountedOverrunBounded /\ NoForeignTrades
  BY <1>2 DEF CapInv
<1>4. /\ \A m \in Loop : phase[m] = "off" /\ left[m] = 0
      /\ \A q \in Process : trades[q] = 0 /\ resetDay[q] = 0
      /\ Tallied = 0 /\ savedDay = 0
  <2>1. \A m \in Loop : phase[m] = "off"
    BY <1>1, <1>3 DEF OneLoop
  <2>2. \A q \in Process : trades[q] = 0 /\ resetDay[q] = 0
    BY <1>1, <1>3 DEF OneLoop
  <2> QED BY <1>3, <2>1, <2>2 DEF OneLoop, Batch
<1>5. \A m \in Loop : phase'[m] = "off" \/ (m = l /\ phase'[m] = "load")
  BY <1>4 DEF Start, TypeOK
<1>6. day \in Nat \ {0}
  BY DEF TypeOK
<1>7. OneLoop'
  BY <1>1, <1>4, <1>5, <1>6 DEF OneLoop, Batch
<1>8. \A m \in Loop : phase'[m] # "off" => Within(m)'
  BY <1>1, <1>4, <1>5, <1>6, LoopAssumption DEF Within, InFlight
<1> QED BY <1>1, <1>3, <1>2, <1>7, <1>8 DEF CountedOverrunBounded, NoForeignTrades

\* At midnight the orders of the day are none, and no counter is of the new day.
LEMMA NextDayKeepsCap ==
  ASSUME TypeOK, CapInv, NextDay
  PROVE  CapInv'
<1> SUFFICES ASSUME Undisturbed'
             PROVE  /\ OneLoop'
                    /\ \A m \in Loop : phase'[m] # "off" => Within(m)'
                    /\ CountedOverrunBounded' /\ NoForeignTrades'
  BY DEF CapInv
<1>1. /\ day' = day + 1 /\ Tallied' = 0
      /\ UNCHANGED <<lockFile, trades, resetDay, savedDay, left, phase, crashes, stops>>
  BY DEF NextDay, lock, counters, saved, Tallied
<1>2. Undisturbed
  BY <1>1 DEF Undisturbed
<1>3. OneLoop /\ \A m \in Loop : phase[m] # "off" => Within(m)
  BY <1>2 DEF CapInv
<1>4. /\ day \in Nat \ {0}
      /\ \A q \in Process : trades[q] \in Nat /\ resetDay[q] \in Nat /\ resetDay[q] <= day
      /\ \A m \in Loop : left[m] \in 0 .. MaxSignals
  BY <1>3 DEF TypeOK, OneLoop
<1>5. \A q \in Process : resetDay'[q] # day' /\ resetDay'[q] <= day'
  BY <1>1, <1>4
<1>6. OneLoop'
  BY <1>1, <1>3, <1>5 DEF OneLoop
<1>7. ASSUME NEW m \in Loop, phase'[m] # "off" PROVE Within(m)'
  <2>1. Owner[m] \in Process
    OBVIOUS
  <2> QED BY <1>1, <1>3, <1>4, <1>5, <1>7, <2>1, LoopAssumption DEF Within, InFlight
<1>8. CountedOverrunBounded' /\ NoForeignTrades'
  BY <1>1, <1>5, LoopAssumption DEF CountedOverrunBounded, NoForeignTrades
<1> QED BY <1>6, <1>7, <1>8

\* A stop or a crash ends the claim; every other step keeps it.
LEMMA CapNext ==
  ASSUME TypeOK, CapInv, [Next]_vars
  PROVE  CapInv'
<1>1. ASSUME NEW l \in Loop, Start(l) \/ Turn(l) PROVE CapInv'
  BY <1>1, StartKeepsCap, TurnKeepsCap
<1>2. ASSUME NEW p \in Process, Stop(p) PROVE CapInv'
  BY <1>2 DEF CapInv, Undisturbed, Stop, TypeOK
<1>3. ASSUME NEW p \in Process, Crash(p) PROVE CapInv'
  BY <1>3 DEF CapInv, Undisturbed, Crash, TypeOK
<1>4. CASE NextDay
  BY <1>4, NextDayKeepsCap
<1>5. CASE UNCHANGED vars
  BY <1>5 DEF vars, counters, saved, world, CapInv, Undisturbed, OneLoop, Within,
              InFlight, Batch, Tallied, CountedOverrunBounded, NoForeignTrades
<1> QED BY <1>1, <1>2, <1>3, <1>4, <1>5 DEF Next

\* Left to itself the loop overruns the daily cap with the orders it counts by two
\* batches at most, for any number of processes, signals and days, and whatever
\* orders it does not count go in between.
THEOREM CapHolds == Spec => []CountedOverrunBounded
<1>1. Init => TypeOK /\ CapInv
  BY TypeInit, CapInit
<1>2. TypeOK /\ CapInv /\ [Next]_vars => (TypeOK /\ CapInv)'
  BY TypeNext, CapNext
<1>3. CapInv => CountedOverrunBounded
  BY DEF CapInv, CountedOverrunBounded
<1> QED BY <1>1, <1>2, <1>3, PTL DEF Spec

\* Nor does the counter ever hold orders of another day.
THEOREM CounterIsToday == Spec => []NoForeignTrades
<1>1. Init => TypeOK /\ CapInv
  BY TypeInit, CapInit
<1>2. TypeOK /\ CapInv /\ [Next]_vars => (TypeOK /\ CapInv)'
  BY TypeNext, CapNext
<1>3. CapInv => NoForeignTrades
  BY DEF CapInv, NoForeignTrades
<1> QED BY <1>1, <1>2, <1>3, PTL DEF Spec

-----------------------------------------------------------------------------
USE DEF guards, turn, history, guardVars

(***************************************************************************)
(* DayGuards.  The inductive invariant, in two halves.                     *)
(*                                                                         *)
(* PeakInv: the history "high" and the code's peak are the same thing,     *)
(* except between a measurement and update_drawdown, when the peak lacks   *)
(* the value just measured.  Once update_drawdown has run, a drawdown      *)
(* beyond the limit has set the kill switch, unless it was lifted.         *)
(*                                                                         *)
(* LossInv: a turn that traded at a loss (losing = 1) leaves that loss in  *)
(* dayValue; the next measurement hands it to get_day_pnl, and the         *)
(* question cannot be reached again without check_daily_loss seeing it.    *)
(***************************************************************************)
MaxOf(a, b) == IF a > b THEN a ELSE b

PeakInv ==
  /\ high = IF stage \in {"store", "drawdown"} THEN MaxOf(measured, peak) ELSE peak
  /\ LossBeyond(Drawdown, high, measured - high) =>
       /\ stage \in {"loss", "ask"} => kill \/ cleared
       /\ stage = "trade" => cleared

DayLoss(pnl) == LossBeyond(LossLimit, dayStart, pnl)

LossInv ==
  /\ losing <= 1
  /\ stage \in {"drawdown", "loss", "ask", "trade"} => dayValue = measured
  /\ losing = 1 /\ ~ kill =>
       /\ stage \in {"off", "sleep", "measure", "trade"} => DayLoss(dayValue - dayStart)
       /\ stage \in {"store", "drawdown", "loss"} => DayLoss(oldPnl)
       /\ stage # "ask"

GuardInv == GuardTypeOK /\ PeakInv /\ LossInv

-----------------------------------------------------------------------------
\* The larger of two values is one of them.
LEMMA MaxOfTwo ==
  ASSUME NEW a \in Int, NEW b \in Int
  PROVE  MaxOf(a, b) \in {a, b} /\ MaxOf(a, b) >= a /\ MaxOf(a, b) >= b
BY DEF MaxOf

\* What the loop measures and stores is a value of the portfolio, or 0.
LEMMA ValuesAreNumbers ==
  ASSUME GuardTypeOK
  PROVE  /\ value \in Nat /\ measured \in Nat /\ peak \in Nat /\ high \in Nat
         /\ dayStart \in Nat /\ dayValue \in Nat
BY GuardAssumption DEF GuardTypeOK

LEMMA GuardInvInit == GuardInit => GuardInv
<1> SUFFICES ASSUME GuardInit PROVE GuardInv
  OBVIOUS
<1>1. GuardTypeOK
  <2>1. events \in 0 .. MaxEvents
    BY GuardAssumption DEF GuardInit
  <2>2. /\ measured \in Value \cup {0} /\ high \in Value \cup {0} /\ peak \in Value \cup {0}
        /\ dayStart \in Balance \cup {0} /\ dayValue \in Value \cup Balance \cup {0}
    BY Zenon DEF GuardInit
  <2>3. value \in Value /\ kill \in BOOLEAN /\ cleared \in BOOLEAN
    BY Zenon DEF GuardInit
  <2>4. stage \in Stage /\ oldPnl \in Int
    BY DEF GuardInit, Stage
  <2>5. losing \in 0 .. 2
    BY DEF GuardInit
  <2> QED BY <2>1, <2>2, <2>3, <2>4, <2>5 DEF GuardTypeOK
<1>2. ~ LossBeyond(Drawdown, high, measured - high)
  BY DEF GuardInit, LossBeyond
<1>3. PeakInv /\ LossInv
  BY <1>2 DEF GuardInit, PeakInv, LossInv
<1> QED BY <1>1, <1>3 DEF GuardInv

\* The bound on events, for the actions that count one.
LEMMA EventCounted ==
  ASSUME GuardTypeOK, Event
  PROVE  events' \in 0 .. MaxEvents
BY GuardAssumption DEF GuardTypeOK, Event

\* The loop is started, or stopped: peak and loss survive both.
LEMMA LoopEndsKeep ==
  ASSUME GuardInv, StartLoop \/ StopLoop \/ EndTurn \/ WakeUp
  PROVE  GuardInv'
<1>1. GuardTypeOK'
  <2>1. CASE StartLoop
    <3>1. PICK b \in Balance : StartDay(b)
      BY <2>1 DEF StartLoop
    <3>2. events' \in 0 .. MaxEvents
      BY <2>1, EventCounted DEF GuardInv, StartLoop
    <3> QED BY <2>1, <3>1, <3>2 DEF GuardInv, GuardTypeOK, StartLoop, StartDay, Stage
  <2>2. CASE StopLoop \/ EndTurn \/ WakeUp
    BY <2>2 DEF GuardInv, GuardTypeOK, StopLoop, EndTurn, WakeUp, Stage
  <2> QED BY <2>1, <2>2
<1>2. PeakInv'
  BY DEF GuardInv, PeakInv, StartLoop, StartDay, StopLoop, EndTurn, WakeUp
<1>3. LossInv'
  BY DEF GuardInv, LossInv, DayLoss, StartLoop, StartDay, StopLoop, EndTurn, WakeUp
<1> QED BY <1>1, <1>2, <1>3 DEF GuardInv

\* A measurement raises the history's peak and takes the old profit with it.
LEMMA CheckDailyPnlKeeps ==
  ASSUME GuardInv, CheckDailyPnl
  PROVE  GuardInv'
<1> USE DEF CheckDailyPnl
<1>1. CASE Measure
  <2>1. GuardTypeOK'
    BY <1>1, ValuesAreNumbers DEF GuardInv, GuardTypeOK, Measure, Stage
  <2>2. PeakInv'
    BY <1>1, ValuesAreNumbers DEF GuardInv, PeakInv, Measure, MaxOf
  <2>3. LossInv'
    BY <1>1 DEF GuardInv, LossInv, DayLoss, Measure
  <2> QED BY <2>1, <2>2, <2>3 DEF GuardInv
<1>2. CASE MeasureFails
  BY <1>2 DEF MeasureFails, GuardInv, GuardTypeOK, PeakInv, LossInv, DayLoss, Stage
<1> QED BY <1>1, <1>2

\* The new value is stored after the profit was read.
LEMMA UpdateDayValueKeeps ==
  ASSUME GuardInv, UpdateDayValue
  PROVE  GuardInv'
<1>1. GuardTypeOK'
  BY DEF GuardInv, GuardTypeOK, UpdateDayValue, Stage
<1>2. PeakInv'
  BY DEF GuardInv, PeakInv, UpdateDayValue
<1>3. LossInv'
  BY DEF GuardInv, LossInv, DayLoss, UpdateDayValue
<1> QED BY <1>1, <1>2, <1>3 DEF GuardInv

\* The peak catches up with the history, and is what the drawdown is taken from.
LEMMA UpdateDrawdownKeeps ==
  ASSUME GuardInv, UpdateDrawdown
  PROVE  GuardInv'
<1>1. peak' = MaxOf(measured, peak) /\ high = MaxOf(measured, peak)
  BY DEF UpdateDrawdown, NewPeak, MaxOf, GuardInv, PeakInv
<1>2. peak' \in {measured, peak}
  BY <1>1, MaxOfTwo, ValuesAreNumbers DEF GuardInv
<1>3. GuardTypeOK'
  BY <1>2 DEF GuardInv, GuardTypeOK, UpdateDrawdown, Stage
<1>4. PeakInv'
  BY <1>1 DEF PeakInv, UpdateDrawdown
<1>5. LossInv'
  BY DEF GuardInv, GuardTypeOK, LossInv, DayLoss, UpdateDrawdown
<1> QED BY <1>3, <1>4, <1>5 DEF GuardInv

\* A loss the last turn traded at is what the guard judges now.
LEMMA JudgeDayKeeps ==
  ASSUME GuardInv, JudgeDay
  PROVE  GuardInv'
<1>1. GuardTypeOK'
  BY DEF GuardInv, GuardTypeOK, JudgeDay, CheckDailyLoss, Stage
<1>2. PeakInv'
  BY DEF GuardInv, GuardTypeOK, PeakInv, JudgeDay, CheckDailyLoss
<1>3. LossInv'
  BY DEF GuardInv, GuardTypeOK, LossInv, DayLoss, JudgeDay, CheckDailyLoss
<1> QED BY <1>1, <1>2, <1>3 DEF GuardInv

\* Only a turn that follows one without such a loss can count its own.
LEMMA AskKeeps ==
  ASSUME GuardInv, Ask
  PROVE  GuardInv'
<1>1. CASE stage' = "sleep"
  <2>1. losing' = losing /\ UNCHANGED <<value, guards, measured, oldPnl, high, cleared, events>>
    BY <1>1 DEF Ask
  <2>2. losing # 1 \/ kill
    BY DEF Ask, GuardInv, LossInv
  <2> QED BY <1>1, <2>1, <2>2 DEF Ask, GuardInv, GuardTypeOK, PeakInv, LossInv, Stage
<1>2. CASE stage' = "trade"
  <2>1. ~ kill /\ losing # 1 /\ dayValue = measured
    BY <1>2 DEF Ask, GuardInv, LossInv
  <2>2. losing = 0
    BY <2>1 DEF GuardInv, GuardTypeOK, LossInv
  <2>3. /\ losing' \in {0, 1}
        /\ losing' = 1 => DayLoss(measured - dayStart)
    BY <1>2, <2>2 DEF Ask, DayLoss
  <2>4. GuardTypeOK'
    BY <1>2, <2>3 DEF Ask, GuardInv, GuardTypeOK, Stage
  <2>5. PeakInv'
    BY <1>2, <2>1 DEF Ask, GuardInv, PeakInv
  <2>6. LossInv'
    BY <1>2, <2>1, <2>3 DEF Ask, LossInv, DayLoss
  <2> QED BY <2>4, <2>5, <2>6 DEF GuardInv
<1> QED BY <1>1, <1>2 DEF Ask

\* Prices move, operators halt and resume, the process dies.
LEMMA OthersKeep ==
  ASSUME GuardInv, Market \/ Activate \/ Deactivate \/ Die \/ UNCHANGED guardVars
  PROVE  GuardInv'
<1>1. GuardTypeOK'
  <2>1. CASE Market \/ UNCHANGED guardVars
    BY <2>1 DEF GuardInv, GuardTypeOK, Market
  <2>2. CASE Activate \/ Deactivate \/ Die
    <3>1. events' \in 0 .. MaxEvents
      BY <2>2, EventCounted DEF GuardInv, Activate, Deactivate, Die
    <3>2. kill' \in BOOLEAN /\ cleared' \in BOOLEAN
      BY <2>2, Zenon DEF GuardInv, GuardTypeOK, Activate, Deactivate, Die
    <3>3. losing' \in 0 .. 2
      BY <2>2 DEF GuardInv, GuardTypeOK, Activate, Deactivate, Die
    <3>4. CASE Activate \/ Deactivate
      <4>1. UNCHANGED <<value, dayStart, dayValue, peak, turn, high>>
        BY <3>4 DEF Activate, Deactivate
      <4> QED BY <3>1, <3>2, <3>3, <4>1 DEF GuardInv, GuardTypeOK
    <3>5. CASE Die
      <4>1. /\ measured' \in Value \cup {0} /\ high' \in Value \cup {0}
            /\ peak' \in Value \cup {0} /\ dayStart' \in Balance \cup {0}
            /\ dayValue' \in Value \cup Balance \cup {0}
        BY <3>5, Zenon DEF Die
      <4>2. stage' \in Stage /\ oldPnl' \in Int /\ value' = value
        BY <3>5 DEF Die, Stage
      <4> QED BY <3>1, <3>2, <3>3, <4>1, <4>2 DEF GuardInv, GuardTypeOK
    <3> QED BY <2>2, <3>4, <3>5
  <2> QED BY <2>1, <2>2
<1>2. PeakInv'
  BY DEF GuardInv, PeakInv, MaxOf, Market, Activate, Deactivate, Die, LossBeyond
<1>3. LossInv'
  BY DEF GuardInv, LossInv, DayLoss, Market, Activate, Deactivate, Die
<1> QED BY <1>1, <1>2, <1>3 DEF GuardInv

\* GuardInv holds in every behaviour of the guards and the loop.
THEOREM GuardInvariant == GuardSpec => []GuardInv
<1>1. GuardInv /\ [GuardNext]_guardVars => GuardInv'
  BY LoopEndsKeep, CheckDailyPnlKeeps, UpdateDayValueKeeps, UpdateDrawdownKeeps,
     JudgeDayKeeps, AskKeeps, OthersKeep DEF GuardNext, GuardedTurn
<1> QED BY GuardInvInit, <1>1, PTL DEF GuardSpec

-----------------------------------------------------------------------------
\* Type correctness of the guards' globals and of the turn, for all values and
\* limits.
THEOREM GuardsTypeOK == GuardSpec => []GuardTypeOK
BY GuardInvariant, PTL DEF GuardInv

\* No turn trades on a value beyond the drawdown from the highest value measured
\* since the process started, unless an operator lifted the halt in this turn:
\* update_drawdown has judged this very value before the loop asks.
THEOREM NoTradeBeyondDrawdown == GuardSpec => []DrawdownStopsTurn
<1>1. GuardInv => DrawdownStopsTurn
  BY DEF GuardInv, PeakInv, DrawdownStopsTurn
<1> QED BY <1>1, GuardInvariant, PTL

\* check_daily_loss is late by one turn and no more, for every limit: of two turns
\* in a row that trade at least one was within it.
THEOREM DailyLossLateByOneTurn == GuardSpec => []LossStopsNextTurn
<1>1. GuardInv => LossStopsNextTurn
  BY DEF GuardInv, LossInv, LossStopsNextTurn
<1> QED BY <1>1, GuardInvariant, PTL
=============================================================================
