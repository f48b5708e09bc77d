--------------------------- MODULE ExecutionLoop ---------------------------
(***************************************************************************)
(* src/trading/execution/loop.py: run_execution_loop and stop, the lock    *)
(* file, and the daily trade counter with its copy in user_settings.       *)
(*                                                                         *)
(* A loop is one call of run_execution_loop, a coroutine; a process can    *)
(* start it again after stop().  Module globals belong to the process,     *)
(* the lock file and the settings rows to all of them.  Loops are cut into *)
(* actions at their awaits.  Signals, prices and the filters in front of   *)
(* an order only decide how many orders a batch holds.                     *)
(***************************************************************************)
EXTENDS Integers, FiniteSets

CONSTANTS
  Process,    \* processes that may run the loop
  Loop,       \* calls of run_execution_loop
  Owner,      \* Owner[l]: the process that makes call l
  NoProcess,  \* there is no lock file
  Trading,    \* the processes with settings.enable_trading, which nothing changes
  MaxTrades,  \* _max_trades_per_day
  MaxSignals, \* bound: orders in one batch of signals
  MaxDay,     \* bound: days
  MaxPlaced,  \* bound: orders executed in a day
  MaxCrashes, \* bound: processes that die
  MaxStops    \* bound: calls of stop()

ASSUME LoopAssumption ==
  /\ Owner \in [Loop -> Process]
  /\ NoProcess \notin Process
  /\ Trading \subseteq Process
  /\ MaxTrades \in Nat \ {0} /\ MaxSignals \in Nat /\ MaxDay \in Nat \ {0}
  /\ MaxPlaced \in Nat /\ MaxCrashes \in Nat /\ MaxStops \in Nat

VARIABLES
  lockFile,  \* the process whose pid is in finn_execution.lock
  held,      \* held[p]: _EXECUTION_LOCK_HELD
  running,   \* running[p]: _running
  trades,    \* trades[p]: _trades_today
  resetDay,  \* resetDay[p]: _last_reset_day, 0 for None
  savedTrades, savedDay, \* the two user_settings rows, savedDay = 0: none
  phase,     \* where each loop is
  left,      \* orders left in its batch
  day,       \* the UTC day
  placed,    \* history: orders executed today
  uncounted, \* history: those of them that _trades_today never hears of
  crashes, stops

lock == <<lockFile, held, running>>
counters == <<trades, resetDay>>
saved == <<savedTrades, savedDay>>
world == <<day, placed, uncounted, crashes, stops>>
vars == <<lock, counters, saved, phase, left, world>>

\* Phases of _process_signals.
Working == {"roll", "check", "batch", "count", "save"}

TypeOK ==
  /\ lockFile \in Process \cup {NoProcess}
  /\ held \in [Process -> BOOLEAN]
  /\ running \in [Process -> BOOLEAN]
  /\ trades \in [Process -> Nat]
  /\ resetDay \in [Process -> 0 .. MaxDay]
  /\ savedTrades \in Nat /\ savedDay \in 0 .. MaxDay
  /\ phase \in [Loop -> Working \cup {"off", "load", "top", "follow", "sleep"}]
  /\ left \in [Loop -> 0 .. MaxSignals]
  /\ day \in 1 .. MaxDay
  /\ placed \in 0 .. MaxPlaced /\ uncounted \in 0 .. placed
  /\ crashes \in 0 .. MaxCrashes
  /\ stops \in 0 .. MaxStops

Init ==
  /\ lockFile = NoProcess
  /\ held = [p \in Process |-> FALSE]
  /\ running = [p \in Process |-> FALSE]
  /\ trades = [p \in Process |-> 0]
  /\ resetDay = [p \in Process |-> 0]
  /\ savedTrades = 0 /\ savedDay = 0
  /\ phase = [l \in Loop |-> "off"]
  /\ left = [l \in Loop |-> 0]
  /\ day = 1 /\ placed = 0 /\ uncounted = 0
  /\ crashes = 0 /\ stops = 0

Goto(l, where) == phase' = [phase EXCEPT ![l] = where]

-----------------------------------------------------------------------------
(* Starting and stopping.                                                  *)

\* O_CREAT | O_EXCL: refused while the file exists, whoever wrote it.
Acquire(p) ==
  /\ lockFile = NoProcess
  /\ lockFile' = p
  /\ held' = [held EXCEPT ![p] = TRUE]

\* Under the lock, a process whose _running is set returns at once ("Execution
\* loop already running") and the lock stays taken.
Start(l) ==
  /\ phase[l] = "off"
  /\ Acquire(Owner[l])
  /\ running' = [running EXCEPT ![Owner[l]] = TRUE]
  /\ phase' = IF running[Owner[l]] THEN phase ELSE [phase EXCEPT ![l] = "load"]
  /\ UNCHANGED <<counters, saved, left, world>>

\* Mutant: stop() removes the file whether or not the lock is held.
ReleaseAnyway(p) == lockFile' = NoProcess /\ held' = [held EXCEPT ![p] = FALSE]

Release(p) ==
  \/ held[p] /\ lockFile' = NoProcess /\ held' = [held EXCEPT ![p] = FALSE]
  \/ ~ held[p] /\ UNCHANGED <<lockFile, held>>

\* stop() does not wait for the loop: it notices at its next turn.
Stop(p) ==
  /\ stops < MaxStops
  /\ stops' = stops + 1
  /\ Release(p)
  /\ running' = [running EXCEPT ![p] = FALSE]
  /\ UNCHANGED <<counters, saved, phase, left, day, placed, uncounted, crashes>>

\* The process dies without stop(): the file stays.
Crash(p) ==
  /\ crashes < MaxCrashes
  /\ crashes' = crashes + 1
  /\ held' = [held EXCEPT ![p] = FALSE]
  /\ running' = [running EXCEPT ![p] = FALSE]
  /\ trades' = [trades EXCEPT ![p] = 0]
  /\ resetDay' = [resetDay EXCEPT ![p] = 0]
  /\ phase' = [l \in Loop |-> IF Owner[l] = p THEN "off" ELSE phase[l]]
  /\ left' = [l \in Loop |-> IF Owner[l] = p THEN 0 ELSE left[l]]
  /\ UNCHANGED <<lockFile, saved, day, placed, uncounted, stops>>

-----------------------------------------------------------------------------
(* One turn of the loop.                                                   *)

\* _load_daily_counters: rows that do not exist leave the globals alone.
LoadRows(p) ==
  /\ trades' = [trades EXCEPT ![p] = IF savedDay = 0 THEN @ ELSE savedTrades]
  /\ resetDay' = [resetDay EXCEPT ![p] = IF savedDay = 0 THEN @ ELSE savedDay]

Load(l) ==
  /\ phase[l] = "load"
  /\ LoadRows(Owner[l])
  /\ Goto(l, "top")
  /\ UNCHANGED <<lock, saved, left, world>>

\* The load is outside the loop's try: an error ends the coroutine, and leaves
\* _running and the lock as they are.
LoadFails(l) ==
  /\ phase[l] = "load"
  /\ Goto(l, "off")
  /\ UNCHANGED <<lock, counters, saved, left, world>>

\* Mutant: "while True" instead of "while _running".
GoesOnAlways(l) == TRUE

GoesOn(l) == running[Owner[l]]

\* The save succeeds or fails; an error is logged and swallowed.
SaveRows(n, d) ==
  \/ savedTrades' = n /\ savedDay' = d
  \/ UNCHANGED saved

\* Mutant: the day is set, the counter is not cleared.
ResetCountersDayOnly(p) ==
  /\ resetDay' = [resetDay EXCEPT ![p] = day]
  /\ UNCHANGED <<trades, saved>>

ResetCounters(p) ==
  /\ trades' = [trades EXCEPT ![p] = 0]
  /\ resetDay' = [resetDay EXCEPT ![p] = day]
  /\ SaveRows(0, day)

\* "while _running".  Outside market hours, halted or failing, a turn does nothing;
\* without enable_trading it only clears a counter of another day.
\* _process_signals is left before can_trade when the market closes in between.
Top(l) ==
  LET p == Owner[l]
      stale == trades[p] > 0 /\ resetDay[p] # day
  IN  /\ phase[l] = "top"
      /\ \/ ~ GoesOn(l) /\ Goto(l, "off") /\ UNCHANGED <<counters, saved>>
         \/ GoesOn(l) /\ Goto(l, "sleep") /\ UNCHANGED <<counters, saved>>
         \/ /\ GoesOn(l) /\ p \in Trading
            /\ Goto(l, "roll") \/ Goto(l, "follow")
            /\ UNCHANGED <<counters, saved>>
         \/ /\ GoesOn(l) /\ p \notin Trading
            /\ stale /\ ResetCounters(p)
            /\ Goto(l, "sleep")
      /\ UNCHANGED <<lock, left, world>>

\* can_trade, the day: the counter is loaded if that has not been done, and
\* cleared when it is not of today.
Roll(l) ==
  LET p == Owner[l]
      known == IF resetDay[p] = 0 THEN savedDay ELSE resetDay[p]
  IN  /\ phase[l] = "roll"
      /\ \/ known # day /\ ResetCounters(p)
         \/ known = day /\ resetDay[p] = 0 /\ LoadRows(p) /\ UNCHANGED saved
         \/ known = day /\ resetDay[p] # 0 /\ UNCHANGED <<counters, saved>>
      /\ Goto(l, "check")
      /\ UNCHANGED <<lock, left, world>>

\* Mutant: ">" for ">=" in the comparison with the cap.
UnderCapOrEqual(p) == trades[p] <= MaxTrades

UnderCap(p) == trades[p] < MaxTrades

\* can_trade, the cap: asked once, in front of the whole batch.
Check(l) ==
  /\ phase[l] = "check"
  /\ \/ /\ UnderCap(Owner[l])
        /\ \E n \in 0 .. MaxSignals : left' = [left EXCEPT ![l] = n]
        /\ Goto(l, "batch")
     \/ ~ UnderCap(Owner[l]) /\ Goto(l, "follow") /\ UNCHANGED left
  /\ UNCHANGED <<lock, counters, saved, world>>

TakeSignal(l) == left[l] > 0 /\ left' = [left EXCEPT ![l] = @ - 1]

Execute == placed < MaxPlaced /\ placed' = placed + 1

\* execute_order for the next signal.  Of the orders that are executed, those that
\* come back "filled", "simulated" or "submitted" are counted; T-Bank's AUTO orders
\* come back with the broker's own word and are not.
Place(l) ==
  /\ phase[l] = "batch"
  /\ TakeSignal(l)
  /\ \/ Execute /\ UNCHANGED uncounted /\ Goto(l, "count")
     \/ Execute /\ uncounted' = uncounted + 1 /\ UNCHANGED phase
     \/ UNCHANGED <<placed, uncounted, phase>>
  /\ UNCHANGED <<lock, counters, saved, day, crashes, stops>>

Count(l) ==
  /\ phase[l] = "count"
  /\ trades' = [trades EXCEPT ![Owner[l]] = @ + 1]
  /\ Goto(l, "save")
  /\ UNCHANGED <<lock, resetDay, saved, left, world>>

Save(l) ==
  /\ phase[l] = "save"
  /\ SaveRows(trades[Owner[l]], resetDay[Owner[l]])
  /\ Goto(l, "batch")
  /\ UNCHANGED <<lock, counters, left, world>>

\* The batch is through, or an exception ends the turn.
EndBatch(l) ==
  /\ phase[l] = "batch"
  /\ left' = [left EXCEPT ![l] = 0]
  /\ Goto(l, "follow") \/ Goto(l, "sleep")
  /\ UNCHANGED <<lock, counters, saved, world>>

\* _check_stop_losses and _rebalance_portfolio: their orders neither ask for the
\* cap nor are counted.
FollowUp(l) ==
  /\ phase[l] = "follow"
  /\ Execute
  /\ uncounted' = uncounted + 1
  /\ UNCHANGED <<lock, counters, saved, phase, left, day, crashes, stops>>

TurnDone(l) ==
  /\ phase[l] = "follow"
  /\ Goto(l, "sleep")
  /\ UNCHANGED <<lock, counters, saved, left, world>>

Wake(l) ==
  /\ phase[l] = "sleep"
  /\ Goto(l, "top")
  /\ UNCHANGED <<lock, counters, saved, left, world>>

NextDay ==
  /\ day < MaxDay
  /\ day' = day + 1
  /\ placed' = 0 /\ uncounted' = 0
  /\ UNCHANGED <<lock, counters, saved, phase, left, crashes, stops>>

Turn(l) ==
  \/ Load(l) \/ LoadFails(l) \/ Top(l) \/ Roll(l) \/ Check(l) \/ Place(l)
  \/ Count(l) \/ Save(l) \/ EndBatch(l) \/ FollowUp(l) \/ TurnDone(l) \/ Wake(l)

Next ==
  \/ \E l \in Loop : Start(l) \/ Turn(l)
  \/ \E p \in Process : Stop(p) \/ Crash(p)
  \/ NextDay

Spec == Init /\ [][Next]_vars

\* The event loop runs every coroutine on, sleeps included.
FairSpec == Spec /\ \A l \in Loop : WF_vars(Turn(l))

-----------------------------------------------------------------------------
(* Properties.                                                             *)

\* The lock file belongs to the process that believes to hold it, and only such
\* a process has _running set: so two processes never run at once, and the
\* "already running" branch of run_execution_loop is never taken
\* (_acquire_execution_lock, stop, l.521-531 and l.601-608).
LockOwned ==
  /\ \A p \in Process : held[p] => lockFile = p
  /\ \A p \in Process : running[p] => held[p]

Undisturbed == crashes = 0 /\ stops = 0
Tallied == placed - uncounted

\* As long as nobody has stopped or killed the loop, the day's orders that the code
\* counts overrun the cap by one batch at most, and by one more that began the day
\* before (can_trade is asked once per batch, the counter is cleared at midnight).
\* Of the day's other orders, T-Bank's in AUTO mode (l.398), stop-losses and
\* rebalancing, nothing is said: the cap does not bind them.
CountedOverrunBounded ==
  Undisturbed => Tallied <= MaxTrades - 1 + 2 * MaxSignals

\* Nor does the counter then hold orders of another day, or orders that were not
\* counted: what stops the loop is today's orders (can_trade, l.116-120).
NoForeignTrades ==
  Undisturbed =>
    \A p \in Process : resetDay[p] = day => trades[p] <= Tallied

\* stop() is honoured: a loop of a stopped process ends, unless it is started
\* again (run_execution_loop, "while _running").
StopIsHonoured ==
  \A l \in Loop :
    ~ running[Owner[l]] ~> (phase[l] = "off" \/ running[Owner[l]])

\* The lock file as a mutual exclusion of processes.
LockFile == INSTANCE Mutex WITH
  Nobody <- NoProcess,
  owner <- lockFile,
  inside <- {p \in Process : held[p]}

\* The lock file is never taken over and only removed by its owner: a process
\* that dies inside keeps the loop from being started again
\* (_acquire_execution_lock, _release_execution_lock, l.30-57).
ImplementsMutex == LockFile!MutexSpec
=============================================================================
