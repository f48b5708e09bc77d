# Formal models of FinAdvisor's trading core

FinAdvisor (finn-help) is a Python assistant for the Moscow exchange: it
collects market data, turns it into signals, and - if it is told to - sends
orders to a broker. Almost all of its nine hundred files are queries, statistics
and formatting. The part where a wrong step costs money is small, stateful and
concurrent: circuit breakers, the kill switch, order execution with its approval
workflow, the execution loop with its daily guards, the stop-loss checks, the
audit log, the paper account, the scheduler's lock and the tax lots. That part is
modelled here in TLA+, checked with TLC and, liveness apart, proved with TLAPS.

Source paths below are relative to the repository, line numbers are those of the
modelled commit.

Contents: 1. inventory - 2. the modules and how they correspond to the code -
3. the runs - 4. fairness - 5. the proofs - 6. findings - 7. behaviour of the
code no run claims anything about - 8. what is not modelled - 9. plan - 10. how
to run.

## 1. Inventory

The processes: an API server (`src/run_api.py`), a scheduler
(`src/scheduler/service.py`), a Telegram bot, the CLI, and the execution loop,
which any of them may start. Each runs asyncio coroutines on one thread (plus a
few thread pools). They share the database, the directory of audit files, the
paper-trading files and two lock files; module globals (log of orders, mode,
kill switch, positions, counters, breakers) belong to one process each and are
lost when it dies.

### Components with behaviour of their own

**Circuit breaker** (`src/core/resilience.py` l.25-208). State: CLOSED / OPEN /
HALF_OPEN, failure count, time of the last failure, probe slots taken, successes
of the episode. Operations: `call`, `reset`. `call` holds the breaker's lock to
decide on admission and again to record the outcome, not in between. Used by
broker clients, collectors, LLM clients. Hard: outcomes that arrive in another
state than the one that admitted them, cancelled calls, slots that are not given
back. Correct when: probes are limited, a closed breaker has a full budget, it
closes on evidence only, and what can keep it from recovering is known.

**Kill switch and breaker wiring** (`src/trading/risk/guards.py` l.18-164). State:
a flag, and the set of breakers that are open. Operations: activate (operator,
daily loss, drawdown), deactivate (operator), the callback of the breakers,
wiring. Asked by the risk gate and by the loop. Hard: openings, recoveries and
deactivations in any order; the callers of the breaker stop calling when it is
open; retries that come back to the breaker and not to the gate. Correct when: a
broken broker halts trading, nothing but an operator resumes it, a halt lets
through what was under way and no more, and the dead ends of a breaker are known.

**Order execution** (`src/trading/execution/engine.py`, `save_order` of
`audit.py`). State: the mode, an in-memory log of orders (a deque of 1000), the
orders table, a lock. Operations: `execute_order` (dry-run, manual, auto),
`approve_order`, `cancel_pending`, `set_mode`, `get_log`,
`reload_execution_log`; the attempts of the broker's client (`brokers/tbank.py`);
the other writers of the table: POST /order/cancel (`trading_v2.py`) and the other
processes, each with a log of its own. Hard: the long chain of awaits between the
risk gate and the broker, approvals racing cancellations, restarts, lost replies
and orders sent again, failing saves. Correct when: log and table agree, waiting
orders stay reachable, an approval is used once, the kill switch stops what has not
passed it.

**Execution loop** (`src/trading/execution/loop.py`). State: the lock file,
`_running`, the day's trade counter and its copy in `user_settings`. Operations:
`run_execution_loop`, `stop`, and one turn: reset of the day's counter, the cap,
a batch of signals, counting and saving. Hard: stop and start during a batch or a
sleep, death with the lock held, midnight, several loops over one counter.
Correct when: one process runs the loop, the cap bounds the orders of a day that
are counted, a stopped loop ends.

**Position tracker and stop-loss checks** (`src/trading/execution/stoploss.py`;
callers in engine.py and loop.py). State: long and short positions with levels,
in memory. Operations: update, add/cover short, set_sl_tp, check and execute
triggers, restore at start. Hard: other orders while a check awaits its own;
partial fills; orders that fail after the fill; restarts. Correct when: levels do
not outlive their shares, and a passed stop is served. (That the tracker agrees
with the broker's account is not even meant to hold: section 7.)

**Audit trail** (`src/trading/execution/audit.py`). State: one JSON-lines file per
month, rotated by size, each entry chained to the hash of an earlier one.
Operations: append, rotate, verify. Hard: several processes without any lock,
half-written lines, writes that fail after their last byte, the first lines of a
file. Correct when: acknowledged
entries are kept, a failed write spoils little, links point to what was written,
an honest log verifies.

**Risk guards** (`src/trading/risk/guards.py`, driven by `loop.py` l.449-485 and
l.578-598). State: the value of the day's start, the value of the last turn, the
peak, all in memory. Operations: `start_day`, `update_day_value`, `get_day_pnl`,
`update_drawdown`, `check_daily_loss`. Hard: the day's profit is read before it
is refreshed (l.482), a measurement may fail, the loop is stopped and started,
operators lift the halt in the middle of a turn. Correct when: no turn trades
beyond the drawdown, and a loss stops the orders.

**Paper account** (`src/trading/paper.py`). State: one JSON file per user, loaded
and saved whole by three processes. Operations: the four kinds of orders, reset,
price updates, load and save. Hard: lost updates, a torn file, orders that are cut
to the cash, the position or the short there is. Correct when: orders conserve
money, and the file is the account.

**Scheduler** (`src/scheduler/service.py`). State: a file with the pid of the one
instance. Operations: `start`, `stop`. Hard: two starters that find the same dead
pid (l.52), death before the pid is written (l.42), pids in use again. Correct
when: at most one instance runs, and a dead one does not keep out the next.

**Tax lots** (`src/trading/tax/reporter.py`). State: queues of open purchases and
shorts, the lots so far. Operations: one trade of the sorted list after the other,
matching first in, first out; loss harvesting over the result. Hard: splits and
remainders on both sides, commissions in shares, losses spent on tax-free wins.
Correct when: each unit is closed once, the oldest first; a commission is booked
once; harvesting takes off what the losses allow.

**Portfolio synchronisation** (`src/trading/brokers/sync.py`): portfolio rows
against the positions of several accounts. Hard: one account fails (its
positions look like orphans, l.133), one instrument in two accounts (the last
quantity wins, l.121). Correct when: only positions that no account has are removed.

**Notification receipts** (`src/notifications/retry.py`,
`src/scheduler/notifications.py` l.255-280): an hourly job takes the twenty
oldest. It looks for an address that receipts do not have and so never sends
(section 7).

**News alerts** (`src/alerts`): deduplication, cooldown per ticker, cap per run.
Hard: what the cap drops is already marked as sent (`engine.py` l.78). Correct
when: an alert that is dropped may come again.

**AML state** (`src/trading/compliance/aml.py`): per-user counters, cached by each
process and saved to one row. Hard: stale caches, midnight. **Rate limiter**
(`resilience.py` l.218-270): token bucket, waiters. **Prompt cache**
(`src/llm/router.py` l.300-366): LRU list with duplicates. **Login window and token
list** (`src/core/auth_service.py`). **SSE and event bus**
(`src/interfaces/api/sse.py`, `src/core/event_bus.py`): fan-out to at most 100
queues. **Plugins, executor, shutdown hooks** (`src/core`): small registries.

### Components without behaviour to model

Broker clients beyond retries and outcomes of `place_order` (translation of
external replies); collectors and HTTP clients (pure I/O behind breakers);
analysis, ML, signals, features (numeric code over data frames); portfolio
service, reports, metrics, commissions (queries, formulas); notification
checkers and briefs (stateless queries turned into texts); API routes, bot, CLI,
NLQ (thin callers: they are the environment of the models); database models and
configuration (schemas); health, tracing, logging (observation); DDD wrappers;
web UI and deployment.

### Who talks to whom

    loop --signals, stop-losses--> execute_order --gate--> kill switch <--callback-- breaker
      ^                                |    |                                          ^
      | counter, lock file             |    +--place_order (retries)-------------------+
      | daily guards --activate--> kill switch
    stop()                             +--> position tracker, log, orders table, audit file
    operator --approve, cancel, mode--> order execution; --activate, deactivate--> kill switch
    API, bot, CLI --orders--> paper account (file);  API, CLI --start, stop--> scheduler (pid file)
    trades (rows) --> tax lots --> report

## 2. The modules

One module per component, `M.tla`; its instances for TLC in `MCM.tla` with one
`.cfg` per question; its theorems in `M_proofs.tla`, those of `CircuitBreaker` in
`KillSwitch_proofs`, those of `DayGuards` in `ExecutionLoop_proofs`. `KillSwitch`
composes: it extends `CircuitBreaker` with the callback and the callers. Three modules
are abstract specifications that a detailed one implements: `TradingGate`, `Mutex`,
`UnitLedger`. The others share no variables with
each other; where one needs another's behaviour it takes
the outcome as a choice (the kill switch is one Boolean in `OrderExecution`, an
order is its outcome in `PositionTracker`, a batch is a number in
`ExecutionLoop`).

Conventions. asyncio code is atomic between two awaits, so a coroutine is cut into
actions where it awaits (or where a lock is free in between) and nowhere else.
Processes that share files are cut at every system call. Database statements that
fail are alternatives of the action that executes them. Definitions whose comment
begins with "Mutant" are plausible slips in the code, kept beside the definition
they change; replacing that definition by them must break the property they are
listed for in `PROJECT.json`. Variables marked "history" record what happened for
the properties to speak about; no guard reads them, bounds
apart.

### CircuitBreaker

`resilience.py` l.25-143. `Admit` is the first locked section of `call`, with a
disjunct per state that admits; a refused call raises and changes nothing.
`Fail`, `Succeed` are the second locked section; `Cancel` is the path on which
`except Exception` (l.115) does not see a `CancelledError`, so neither section
runs; `Reset` is `reset()`. `failureCount` saturates at the threshold and the
clock is kept as the age of the last failure, saturating at the timeout: both are
only compared with these values, so the abstraction is exact. `halfOpenCalls` is
*not* decremented when a probe ends: that is the code (l.109-111, l.126).
`probes` and `streak` are history.

### KillSwitch

`guards.py` l.18-164 with `_transition` (`resilience.py` l.70-87), the head of
`can_trade` (`manager.py` l.297-302), `is_open` in `execute_order`
(`engine.py` l.347-360) and `_call_with_retry` (`brokers/tbank.py` l.97-127). An
order goes idle - gated - checked - in the breaker; it awaits between these, so
the breaker may open at any point. A retry goes back to the breaker, not to the
gate. The module models one of the two breakers that are wired; `name`, chosen at
the start, says which. "tbank" is called by orders (`get_accounts`), which do not
look at `is_open` before, and by `Ungated` tasks, the callers that do not ask the
kill switch. "tbank_orders" is called by orders only, and only after the look
(`CheckOpen`). `budget` and `late` are history (`Watch`): the attempts each order
had left when trading was halted, and its calls since. `reset()` assigns the state before it calls `_transition`, so the callback does
not run (`ResetBreaker`). Names of the composition that would clash with the
breaker's begin with `Wired` (`WiredInit`, `WiredNext`, `WiredSpec`, `WiredTypeOK`).

### OrderExecution

`engine.py` l.109-561, `save_order` (`audit.py` l.157-228), `_call_with_retry` and
`place_order` of the client (`brokers/tbank.py` l.97-127, l.247-283), the
cancellation route (`trading_v2.py` l.340-358). A request is one
coroutine: idle - gate (sentiment scores are awaited; the kill switch was read
before) - delay (`delay_ms`) - connect (`get_accounts`) - place
(`place_order`) - idle; or it waits for `_mode_lock` to approve or cancel.
Each early return is its own action. `Approve` keeps the lock until the nested
`execute_order` returns and leaves the approved record as it is (l.532-549).
`Cancel` marks the oldest match of the ticker in the log and never the row.
`Crash` loses everything but the table and what the broker holds; `Reload` puts the
rows of the four statuses it selects (`Reloaded`, l.121) in front of the log, newest
first (`PlaceOf` counts them from one on), or its query fails and the log stays as
it is. A ticket stands for the (ticker, direction, quantity) by which an approval
finds its record; `TickerOf` is what a cancellation looks at.

The broker. While a request is at "place", its attempts come and go: the order is
delivered and the reply lost (`LoseReply`), not delivered (`AttemptFails`), or it is
the last attempt. Whether the broker takes a second order for one
`idempotency_key` is not in the code: `Deduplicates` says which, and the theorems
hold for both. What the client returns as status is a member of `BrokerWord`, any
set: T-Bank's client returns `str(execution_report_status)` (`tbank.py` l.275),
which is none of the words the rest of the code looks for; the generic client
returns the broker's own (`openapi.py` l.137).

`AcceptedAsFailed` deserves a word: a reply with zero executed lots makes
`result.executed_quantity or result.get(..)` (l.420) call a method that
`BrokerOrderResult` lacks; the exception handler writes "failed" for an order the
broker has. A lost last reply ends in the same place.

The other writers of the table. `ApiCancel` marks the row, whatever its status, and
neither log nor lock. `OtherProcessSaves` inserts a row; `foreign` is history, the
rows inserted after this process had loaded its log, which it will never see.

### ExecutionLoop

`loop.py` l.33-125, l.250-402, l.521-608. A loop is one call of
`run_execution_loop`; `Owner` says which process makes it. `Start` is O_EXCL
creation of the lock file, `Stop` removes it and clears `_running` without
waiting for the loop, `Crash` leaves the file. A turn is top - roll (the day) -
check (the cap, once per batch) - batch - count - save - ... - follow - sleep.
Where trading is disabled (a process outside `Trading`) the turn ends at its top
(l.584-586). Signals, prices and filters decide how many orders a batch has; that is
the choice in `Check`. An order that is executed is counted if it comes back
"filled", "simulated" or "submitted" (l.398), and otherwise not; orders of
stop-losses and rebalancing (`FollowUp`) neither ask for the cap nor count. `placed`
and `uncounted` are history: all executed orders of the day, and those of them
nobody counted.

### AuditChain

`audit.py` l.29-155. One writer's `audit_log_order` is: read the last hash and
build the entry; look for a free name if the file is too big; rename; append. An
entry is a number; the hash being collision free, the number is the hash, 0 the
empty one. The backwards search of `_read_last_entry_hash` fails in a file of
one line (`HasLineBefore`), and raises for bytes it cannot decode
(`Undecodable`). A write can stop half way (`AppendPart`), inside a multi-byte
character or not; the next line is glued to the rest (`LineOf`). It can stop just
before its line break (`AppendUnbroken`): such a line is read as an entry until
something is glued to it (`Closed`). And fsync can fail after the last byte
(`AppendUnsynced`): the entry is in the file and its writer is told it is not.
`written` is history: the entries whose whole line got into the file; `acked`, those
whose writer knows.
`AllLines`, `Accepted` are `verify_audit_chain`: files by modification time,
a refused line does not move the expected hash (l.130).

### PositionTracker

`stoploss.py`, the bookkeeping of `execute_order` (`engine.py` l.352-476) and
`_check_stop_losses` (`loop.py` l.404-446). Prices and levels appear only as
"armed" and "hit": `Move` flips them. A check reads tickers and prices once
(`ReadPrices`), then looks at one ticker after the other and awaits the order
it places; other orders run in between (`PlaceOrder`). An order is its outcome:
rejected or failed, simulated (also the fallback when the breaker is open),
filled in full or in part, or at the broker without the tracker hearing of it
(`Unbooked`: a lost reply, or a status that is neither "filled" nor "partial",
l.444). No code asks the broker again, so what it executes later changes nothing
here. The rows that give a check its tickers are those saved as "filled" or
"partial".

### DayGuards

`guards.py` l.203-209, l.341-393 and the turn of the loop (`loop.py` l.449-485,
l.578-598). A turn is: measure the portfolio and read the day's profit - store the
new value - update the drawdown - judge the day - ask the kill switch - trade -
sleep. Each function holds `_thread_lock`, so each is one action; the market moves
and operators intervene in between. `StartLoop` calls `start_day` with the configured
balance; the peak survives a restart of the loop, not one of the process (`Die`). A
measurement that fails skips the rest of the turn (`MeasureFails`). `high`,
`cleared`, `losing` are history.

### PaperAccount

`paper.py`. A client is a process that serves one request at a time with an engine
of its own, so the account lives in memory for one request: load - execute - save.
Opening a file truncates it, so `OpenForSave` and `WriteState` are two actions, and
death in between leaves a torn file. `LoadState` takes what cannot be parsed for
corrupt and `ReplaceCorrupt` moves away whatever is at the path *by then*. A file
that is being written stays the writer's when it is renamed (`fd`, `Rename`).
`Filled` is what each kind of order is cut to, `Fill` the second computation of
value and fees; a fee is a constant per unit at each price. Average prices and
`margin_held` are left out since no decision reads them.

### SchedulerLock

`service.py` l.36-73, l.149-157. Every system call is an action: `Create` (O_EXCL),
`Write` (the pid), and if the file is there `Read`, `Probe` (`os.kill(pid, 0)`) and
`Unlink`, after which the function calls itself. `Die` leaves the file as it is,
also empty; `PidReused` gives a dead pid to another program. One user and one
namespace of pids is assumed: then `os.kill` fails for dead processes only.

### TaxLots

`reporter.py` l.24-194. `Open` and `Close` take the next trade of the sorted list,
`Match` is one turn of the inner loop: it takes from the front of the queue, splits
the front if it is larger, and books a lot with its share of the commission
(`Share`: both roundings of a half are allowed). There is one queue for all tickers,
as in the code. `_apply_loss_harvesting` sorts the wins by falling profit and takes
one after the other; `Harvest` is that loop as a recursive function of the set of
wins that have had their turn, `SmallestWin` the last of them in the (stable) order
of the sort. Rates only matter as zero or not (`Taxable`).

### Abstract specifications

- `TradingGate`: a request is cleared only while trading is not halted, and each
  cleared request brings at most `Allowance` orders to the broker. `OrderExecution`
  implements it (`ImplementsGate`, checked and proved) with an allowance of one if
  the broker honours the key and of `MaxAttempts` otherwise; the mapping counts the
  broker's orders and takes the requests between gate and broker as cleared. So
  after the kill switch went on only stragglers place orders, and each no more than
  its attempts.
- `Mutex`: an owner that alone gives the lock back, and that keeps it when it
  dies. The lock file of `ExecutionLoop` implements it (`ImplementsMutex`, checked
  and proved).
- `UnitLedger`: single units, closed once each and in the order in which they were
  opened. `TaxLots` implements it (`ImplementsLedger`, checked and proved): a purchase of n is
  n units, a lot of k is k closings. The commission and the tax are not in it.

## 3. The runs

| run | instance | states | shows |
|---|---|---|---|
| `breaker` | 3 tasks, all cancellable; failure_threshold 3, timeout 2 ticks, 2 slots, success_threshold 2 | 475 | probe accounting, failure budget, closing on evidence |
| `kill_switch` | both breakers, 2 orders, 1 background caller that may be cancelled; 1 slot and 2 successes as shipped, 2 failures, 2 attempts | 135 000 | halting, resuming, calls after a halt, the two dead ends, recovery and the retry of an OPEN breaker outside them |
| `execution` | 2 requests, 1 ticket, 2 rows, 2 attempts, a broker that ignores the key, a raw and a known status, a log of 3 records, 1 unsaved record, 1 restart, other writers of the table | 1.42 million | agreement of log and table, reachability of waiting rows, exclusion of approval and cancellation, the gate |
| `execution_approved_twice` | 1 request, a broker that honours the key | - | *violated*: an approval is used once (finding 1) |
| `loop` | 2 processes, one without trading, 3 calls, cap 1, batches of 1, up to 4 executed orders a day, 2 days, 1 crash, 1 stop | 107 000 | the lock as a mutual exclusion, the bound of a day's counted orders, days do not mix, stop is honoured |
| `audit` | 2 writers, rotation above 1 line, 5 entries, 1 write that stops within its line, any number of failing fsyncs | 599 000 | rotation loses nothing, a failed write spoils one entry, links point to written entries |
| `audit_honest_log` | 1 writer, 3 entries, no failure | - | *violated*: an honest log verifies (finding 2) |
| `tracker` | 2 tickers, one of them shorted; up to 2 shares | 173 000 | levels need shares, a passed stop is served |
| `paper` | 2 processes, 1 ticker, 2 prices, 3 writing requests, 1 fault | 1.45 million | orders conserve money, only COVER overdraws, what a file can lose and when |
| `day_guards` | 4 values, 2 start balances, limits 4% and 15%, 4 interventions | 50 000 | no turn trades beyond the drawdown, the loss guard is one turn late at most, a loss that stays (of the day or from the peak) ends the orders |
| `scheduler` | 3 processes, 4 starts, 2 deaths, reused pids | 20 000 | who runs, how a lock is stolen, a lone starter gets in, `start()` returns |
| `tax` | up to 4 of 11 trades, pauses of 0 and 2 days, long term after 3 | 99 000 | the ledger of units, the commission, harvesting |

Three runs check a type invariant (`execution`, `day_guards`, `tax`); those of the
other modules, like these, are proved for every value of the constants (section 5).

Why the bounds suffice:

- *Breaker*: three tasks are the least with which a call admitted CLOSED fails
  during an episode with two probes. A threshold of three leaves room between
  one failure and an opening; with two slots and two successes the accounting can
  be off by one either way, which with the one slot of the shipped breakers it
  could not. No other constant is compared with anything.
- *Kill switch*: slots and successes are the defaults every breaker of the
  repository is built with. Two orders, so that one passes the gate while the
  other's failure opens the breaker; one ungated caller, so that an OPEN "tbank" can
  be probed during a halt, while "tbank_orders" has none; two attempts, so that a
  retry happens and runs out.
- *Execution*: two requests race for one ticket (a second ticket only adds
  records that nothing matches). Two rows suffice for a waiting row of an earlier
  process and one of this or of another one; a log of three can be full with two
  rows, as an unsaved or reloaded record takes a place without a new row. Two
  attempts bring an order to the broker twice. One restart is enough to reload.
  Exchanging the requests changes nothing, hence symmetry.
- *Loop*: two calls in one process (a second start after a stop) and one in
  another. Cap and batch of one already distinguish `<` from `<=`; two days
  give one midnight, which may fall between any two actions. Four executed orders a
  day are one more than the bound of the counted ones. One process has trading
  disabled.
- *Audit*: five entries allow two rotations with an entry behind them; one write
  that stops within its line allows every position of the rest, and fsync may fail
  for every entry.
- *Paper*: two processes are the least that overlap; three requests allow one to
  be lost between two others; quantities 1 and 3 at prices 2 and 5 with a capital
  of 7 are filled, cut and refused; a second ticker only repeats the first.
- *Day guards*: the values lie below both limits, beyond one and beyond both, as
  seen from either balance; zero is the portfolio that cannot be valued. Four
  interventions allow a stop, a start, a halt and its lifting in one turn.
- *Scheduler*: a theft takes three processes, of which one is dead; four starts
  and two deaths repeat it.
- *Tax*: four trades make two lots of one sale and a remainder behind them;
  pauses of two days cross the holding period at the second.
- *Tracker*: an order of two shares can be filled in part; one ticker is only
  traded long, so that short positions (whose exits raise) do not end every
  check.

`CHECK_DEADLOCK FALSE` is used where the system may stop: in the loop and the
scheduler (no more calls to start), in the audit log (no more entries), in the tax
report (no more trades).

Each property of a passing run is broken by at least one mutant of the code.

## 4. Fairness

Liveness is checked under weak fairness only, and only of what the code's
scheduling provides:

- time passes (`Tick`, `TimePasses`);
- a wrapped call ends, as a success or a failure: the HTTP clients below the
  breaker have timeouts; of the broker's gRPC SDK, which is external, it is an
  assumption. Which of the two is free;
- background jobs and the loop call again: they are periodic;
- a coroutine that can run is run by the event loop (`Turn` of the loop, `GuardedTurn` of the
  day guards, `CheckStops`, `PassGate`, `CheckOpen`);
- a process that is alive goes on with the call it is in (`Acquire` of the
  scheduler's lock).

Nothing makes an operator act, a call be cancelled, a breaker be wired or reset, an
order succeed, a price move, or a process start or die. Where a
property needs a healthy service it says so in its premise
(`<>[][no call fails]_vars`), and where the code loses something for good the
property names the exception (`DeadEnd`: slots that are spent, an orders breaker
nobody probes; `CheckFails`: a short position whose exit raises). `OrderExecution`, `AuditChain`, `PaperAccount`
and `TaxLots` have no liveness properties: nothing there is promised to happen.

## 5. The proofs

Every invariant, action property and refinement that a passing run checks is also a
theorem; only liveness is not. The theorems hold for every value of the constants
that satisfies the module's assumptions (`BreakerAssumption`, `KillSwitchAssumption`,
`ExecutionAssumption`, `LoopAssumption`, `AuditAssumption`, `TrackerAssumption`,
`PaperAssumption`, `FileAssumption`, `LockAssumption`, `GuardAssumption`,
`TaxAssumption`; TLC evaluates them in the runs). They are about the safety part of
each specification: no fairness is assumed.

**`KillSwitch_proofs`**, the breaker. `ProbeLimit` is not inductive: it bounds the
probes in flight by the configured maximum, but what the code compares with the
maximum is the slot counter. `ProbesHoldSlots` says that the probes never outnumber
the slots taken. `ClosesOnEvidence` needs `SuccessesReported`: in HALF_OPEN the
counted successes have all been reported since the last failure, and are below the
threshold. With `TypeOK` and `ClosedHasBudget` these form `BreakerInv`
(`BreakerInvariant`), from which follow `BreakerTypeOK`, `BreakerProbeLimit`,
`BreakerClosedHasBudget` and, looking at one step, `BreakerClosesOnEvidence`.
The cardinality argument (a probe more needs a slot more) rests on the lemmas on
finite sets of the library.

The composition. Every step of it is a step of the breaker or leaves the breaker's
variables alone: that is how it is written, and only a lemma (`WiredIsBreaker`), by
which the wired breaker keeps the promises of the single one
(`WiredBreakerKeepsPromises`) without a second induction. `BrokenBreakerHalts` and
`ResumeByOperator` need `HaltInv`: a reported opening leaves the breaker in the set
of reasons until it is CLOSED, and a reason that no operator has acknowledged implies
the flag. The second conjunct is the reason why recovery alone cannot resume trading:
the callback takes the reason away, the flag stays. `LateCallsStayBounded` needs
`TallyInv`: during a halt an order's calls since, and the attempts it has left, are
together at most its budget; a retry adds nothing to the sum, and an order that
would start anew with all its attempts must pass the gate, which is shut.
`DeadEndsAreFinal` looks at one step and needs the types. `KillSwitchTypeOK` takes
the breaker's types from the lemma and needs one fact more: an order on its way has
an attempt left.

**`OrderExecution_proofs`**, the gate. `KillInv`: while the kill switch is on, every
request between gate and broker was there when it went on. It holds because `PassGate`
asks the switch in the same atomic step that enters the gate. `KillStopsOrders`
follows with the lemma that only `place_order` changes what the broker holds
(`BrokerChanges`): for any number of requests and attempts, approvals included.
`GateImplemented`: the same, for any number of restarts, as a refinement of
`TradingGate`, which says in addition how many orders a cleared request may bring to
the broker. It needs `AttemptsCounted`: a request has at most as many orders at the
broker as it has attempts behind it, and one attempt is always left while it is at
"place".

The books. `OrderInvariant` is the induction behind `LogAndOrdersAgree`,
`WaitingOrdersReachable`, `NoCancelUnderApproval` and `ExecutionTypeOK`; its parts:

- `Books`: what log and table say of each other. Every operation that appends a
  record does so through `Save`, so one lemma serves all of them; `Cancel` changes a
  record, `ApiCancel` a row, `OtherProcessSaves` adds a row without a record, and
  `Reload` is the one step that makes records from rows. Its lemmas say that the
  places counted by `PlaceOf` are those of the waiting rows, each once;
- `RoomReserved`: rows plus requests that may still write one do not exceed the
  bound of rows. Without it nothing says that a request that is under way can end,
  and the types are not inductive;
- `LockHeld`: who holds `_mode_lock` is inside the nested `execute_order`. It is what
  makes `ApprovalExcludesCancel` inductive: a cancellation needs the lock, and so
  finds no approval half done.

**`ExecutionLoop_proofs`**, the loop. `LockInv`: the process that believes to hold the lock is
the one whose pid is in the file, and only such a process has `_running` set.
`OneProcessRuns`: two processes never run at the same time. `NeverStartedAgain`:
a process whose `_running` is set cannot start a loop, the "already running"
branch of `run_execution_loop` is dead code. `MutexImplemented` uses the same
invariant for the refinement of `Mutex`. `CapHolds` and `CounterIsToday` bound the
day's orders (`CapInv`): while nothing is stopped or killed, one loop at most ever
begins (`OneLoop`), and for it `Within` relates counter, rest of the batch and
counted orders of the day (`Tallied`, all executed orders but the uncounted ones): on
the day of the counter they are what it says plus at most one batch that began before
midnight; on a day the counter does not know they are at most what is left of such a
batch. However many orders nobody counts, they change neither side. `LoopTypeOK` is
proved by the way.

The guards of the loop (`DayGuards`), with `GuardInvariant` = types, `PeakInv`,
`LossInv`. `PeakInv`: the peak is the highest value measured, except between the
measurement and the update that compares it; and beyond the drawdown from it the
question is reached only with the switch on, or after an operator has lifted the halt
in this very turn. From it `NoTradeBeyondDrawdown`. `LossInv` follows the stale
profit: the loss with which a turn has traded is kept in `dayValue`, becomes `oldPnl`
at the next measurement, and cannot pass `check_daily_loss` a second time. From it
`DailyLossLateByOneTurn`: one turn late, for any values, balances and percentages.

**`AuditChain_proofs`.** `RotationKeepsEntries` needs `FreeNames`: as long as two
writers were never about to rename at once, the name a writer has found is still
free when it renames. Without the premise the claim is false, see section 7.
`ChainedToWritten` needs the same of entries not written yet (`EntriesLinked`):
what an entry is chained to was in the file to its last byte before it was built.
Acknowledged it need not be: its fsync may have failed, its line break be missing.
`OneSpoiledPerFailure` needs `SpoilInv`: spoiled entries and files that end in a
rest are together at most as many as the writes that stopped within their line - a
rest moves with its file, and the line glued to it takes it away. Two invariants
speak of the line without a line break, which the next one takes out of the chain:
an entry that is still to be written is on no line (`Fresh`), and the last line of
an open file was never acknowledged (`OpenUnacked`), so `RotationKeepsEntries` loses
nothing with it. `AuditTypeOK` is part of all of them.

**`PositionTracker_proofs`.** `Inv`: positions without shares have no levels
(`SoundPosition`). Each operation is shown to preserve `Kept`, the part that
orders change, separately from `Rest`, the part the check changes. Theorems:
`TrackerTypeOK`, `StopsNeedShares`.

**`PaperAccount_proofs`.** `TypeCorrect`: positions never become negative, since each
order is cut before it is filled. `MoneyConserved` and `OthersSolvent` follow from
the types and the arithmetic of one order, for any prices, fees and quantities.
`GoodFileStays` needs `Alone`: without overlap one client at most is inside a
request, and the file it has found corrupt is still that file when it moves it
away. `NothingLostAlone` needs `Quiet`, which follows one request from load to save:
what is in memory or on disk is every unit traded since the last reset.

**`SchedulerLock_proofs`.** `LockInv`: the dead do nothing (`DeadAreStill`), a file has
an owner that is past its creation (`FileHasOwner`), and unless a lock was stolen a
running scheduler is the one in the file (`LockNamed`). From it `SchedulerIsNamed`,
`OneSchedulerUnlessStolen`, `TheftNeedsThree`; `LoneStarterGetsIn` needs
`StartsAlone` in addition: while a starter is alone, a file is its own or a dead
process's.

**`TaxLots_proofs`.** Its sums and its loop over the wins are recursive functions. The
library's induction theorems cannot be used (they take an operator as a parameter);
the module proves induction on sets of numbers from the existence of a least one
(`AllNumbers`), then that recursion over the subsets of a finite set defines a function
(`RecursionExists`), and from these what sums over functions do when an index is added
or a value grows.

- `LotInvariant`: types and dates; no position is younger than the sale that closes
  it. From it `LotsTypeOK`.
- `CommissionIsBooked` is not inductive, it speaks of sales that have found all their
  units. `Booked` speaks of the turns before: the commission in the lots so far,
  compared with the exact share of the units sold so far, is off by half a kopeck per
  lot at most. Both sides are multiplied by the size of the sale, so that the argument
  stays in whole numbers.
- `HarvestIsAlwaysFair`, by induction on the number of wins that have had their turn:
  `FairTurns` says that what has been taken off the tax is at most the losses spent,
  and without tax-free wins is exactly that, with nothing taxed while losses are left.
- `LotsImplementLedger`: a trade or a turn of the matching loop is one step of
  `UnitLedger` under the mapping that spreads positions and lots into units. Its lemmas
  are about the concatenation of sequences of any length: what appending, dropping and
  shortening the first position does to the units. `DayInv` bounds the dates, which the
  ledger has as a constant.

Only model-checked:

- liveness: `RecoversOrDeadEnd`, `OpenIsRetried`, `StopIsHonoured`, `StopIsServed`,
  `LossHaltsForGood`, `StartReturns`. Fairness and ENABLED are
  beyond the prover;
- what `Accepted` (`verify_audit_chain`, a recursive function) computes; it occurs
  in the violated claim of finding 2 only.

## 6. Findings

Two runs check what a doc, a comment, a message or a test of the repository says,
and TLC finds it violated by what the code does. `PROJECT.json` quotes the lines.

1. **An approval can be used twice** (`execution_approved_twice`, `engine.py`
   l.539). `approve_order` executes a new record and leaves the approved one
   waiting.
2. **An untouched audit log does not verify** (`audit_honest_log`, `audit.py`
   l.57). The second entry of every file has an empty link, and everything
   after it is refused as well.

## 7. Behaviour of the code no run claims anything about

Met while modelling and part of the models; the properties are stated around it.

Breakers and kill switch:

- With the shipped defaults (`resilience.py` l.35-36: one probe slot, two successes
  required) a breaker never closes again by itself: the first good probe uses the
  only slot, and HALF_OPEN has no timeout. The run `kill_switch` has these numbers:
  `SlotsSpent` is that dead end, `DeadEndIsFinal` says that only `reset()` leaves it,
  and `RecoversOrDeadEnd` that beside the dead ends nothing keeps a breaker of a
  healthy service from closing.
- An open orders breaker is never probed: `is_open` (`engine.py` l.352) turns every
  order into a simulation before it can call the breaker, and orders are its only
  callers. That is the other dead end, `Unprobed`.
- `reset()` of a breaker leaves its name among the reasons to halt: the callback
  does not run (`ResetBreaker`).
- Kill switch, breakers and their reasons belong to one process: the API's kill
  switch does not stop the loop of another.
- A success in CLOSED never lowers the failure count: failures add up over any
  time (`SucceedOtherwise`).

Orders, loop, positions:

- A reply with nothing executed yet is recorded as "failed" (`AcceptedAsFailed`).
  A reply without a price raises after the status was set: the row says
  "filled", the tracker does not know (`Unbooked`).
- T-Bank's AUTO orders are saved with a raw status (`tbank.py` l.275). The loop does
  not count them (`loop.py` l.398), the tracker does not book them (`engine.py`
  l.444), so they get no levels, and a later process does not reload them (l.121).
- An order whose reply is lost is sent again, up to three times
  (`tbank.py` l.112-127). Only the broker's respect for the `idempotency_key` keeps
  it from being three orders. If the breaker opens between two attempts, the record
  says "simulated" and the tracker books it, though the broker may have the order
  (`BreakerFallback`).
- POST /order/cancel (`trading_v2.py` l.350-358) changes the row only and takes no
  `_mode_lock`: in the process that has the record the order can still be approved
  and executed (`ApiCancel`).
- A row another process saves after this one has loaded its log has no record here:
  this process can neither approve nor cancel it until it restarts (`foreign`).
- `cancel_pending` changes the record in memory only; after a restart the order
  waits again (`LogMatchesOrders` names this difference).
- An order saved before the log is loaded gets a second record by the reload.
- A process that dies with the loop's lock leaves the file; no loop starts until
  somebody removes it. An error while counters are loaded has the same effect and
  leaves `_running` set (`LoadFails`).
- `stop()` gives the lock away while the loop works or sleeps (l.604); a new call sets
  `_running` again, which revives the old loop: two of them then work at once, on one
  counter (`CountedOverrunBounded` and `NoForeignTrades` exclude it by `Undisturbed`).
- The cap on a day's orders is asked once per batch, so it is overrun by up to a
  batch, and by another that began the day before (`CountedOverrunBounded`). Orders
  that are not counted - raw statuses, stop-losses, rebalancing - it does not bind
  at all.
- Two writers that rotate the audit file at once: the second rename overwrites the
  file the first has just made (the premise `~ overlap` of `NothingLost`).
- A torn line that ends inside a multi-byte character makes `audit_log_order` raise
  for the rest of the file's life (`Undecodable`).
- An entry whose fsync failed, or whose line lacks only its line break, was reported
  as failed and is in the log all the same; the next entry is chained to it
  (`AppendUnsynced`, `AppendUnbroken`).
- Positions do not survive a restart: `_table_exists` (`stoploss.py` l.19-29) passes a
  string to `Session.execute`, which SQLAlchemy 2 refuses, and the exception is taken
  for a missing table (`Restart`). `tests/test_stoploss.py` l.101-114 sees the restore
  work, with a mock for a session.
- With the orders breaker open an AUTO order is booked in the tracker although the
  broker never saw it; a sale makes the tracker forget shares (`Simulated`). A
  simulated short sale also reduces the long position. The remainder of a partial
  order that the broker fills later is booked by nobody. So no run claims that
  tracker and account agree.
- The exit of a short position raises in the gate (`manager.py` l.399 passes two
  of four arguments) and ends the check for all later tickers (`CheckFails`).
- In MANUAL mode a passed stop creates a waiting order in every check.
- `can_trade` of the risk manager reads `Portfolio.total_value`, which the model
  does not have; the portfolio value is then 0 and the size, concentration, VaR,
  daily-loss and drawdown checks are skipped. They are not modelled.

Daily guards:

- `start_day` runs once, when the loop starts, with the configured balance (1,000,000
  by default): a portfolio of 100,000 has lost 90% at its second turn and is
  halted. It does not run again at midnight; a restart of the loop starts the day
  anew but keeps the peak. (`StopLoop` is taken between two turns: a `stop()` and a
  new start in the middle of one leave the old coroutine running, as above.) Nothing in `src` calls `deactivate_kill_switch` or
  `reset_peak`: lifting a halt is the operator's.

Paper account:

- There is no lock: of two overlapping requests the later save wins, and a load in
  the middle of a save takes the file for corrupt and begins a fresh account (the
  premises of `QuietAccountKept` and `GoodFileKept`). COVER is the one order that
  does not look at the cash.

Scheduler:

- An empty file left by a death between creation and write (or, with its process
  alive, by a write that raises, `service.py` l.42), or a pid in use again, keeps everybody out for good (`LoneStartSucceeds` names both). Two starters that
  read the same dead pid can steal a lock that has just been taken
  (`TheftTakesThree`).

Tax:

- One queue serves all tickers: a sale of B closes a purchase of A, and the filter by
  ticker changes the result. The filter by year drops the purchases of earlier
  years, whose sales then have no lots. The API route reads
  `report.total_realised_pnl` (`trading_v2.py`), the report has
  `total_realized_pnl`.

Read, not modelled:

- Receipts: the retry job looks for `to_email`, which receipts lack
  (`scheduler/notifications.py` l.261), so nothing is sent again.
- Synchronisation: `orphan.instrument` is loaded lazily on an async session
  (`sync.py` after l.150), which raises, so orphans are never removed; in the daily
  update (`scheduler/tasks.py` l.92) the signals that follow are then not generated.
- AML: the endpoint passes no user, so all share the counters of user 0.

## 8. What is not modelled

*Within the modelled components*: texts, notifications, slippage and commission
arithmetic, prices and averages (compared only), the change of month in the audit
log, `update_order_status`, `log_trade` and the compliance tables of `audit.py`
(plain inserts and updates of single rows), the filters in front of a signal
(liquidity, news, VaR), rebalancing, sector kill switches (a set nobody but its
setters changes), the statistics classes at the end of `guards.py`, dividends and
the declaration of the tax report.

*Whole components*: see `PROJECT.json`, `components`, each with its reason. In
short: planned (section 9), pure I/O (clients, collectors, routes), numeric code
without states (analysis, ML, allocation, sizing), stateless queries (reports,
briefs), seed data and document generators. These are by far the most lines of the
repository, so the models cover a small share of its text; of the code that
keeps state across awaits, processes or restarts they cover the greater part.

One thing no tool here can do: liveness for every value of the constants.

## 9. Plan

Done, in the order of what a mistake costs: CircuitBreaker, KillSwitch (composes
it), OrderExecution (implements TradingGate), ExecutionLoop (implements Mutex),
AuditChain, PositionTracker, PaperAccount, DayGuards, SchedulerLock, TaxLots
(implements UnitLedger).

Next modules, in this order:

1. **BrokerSync** (`sync.py`): accounts that fail, instruments in two accounts.
2. **AmlState** (`aml.py`): the cached counters of two processes over one row,
   midnight.
3. **AlertPipeline** (`src/alerts`): what the cap drops is marked as sent.
4. **PromptCache**, the rate limiter, the login window and the event bus.

Composition: ExecutionLoop with PositionTracker and DayGuards over one kill switch,
so that the check of stops during a halt is seen end to end.

Abstract specifications: *orders once* (asked, waits, executed or refused) with
OrderExecution as its implementation, up to the repeated approval of finding 1;
*an append-only log* with AuditChain, up to the simultaneous renames.

Theorems: every safety property of the modules above is proved. Next are the
invariants of the planned modules, stated with recursive functions and folds where
something is repeated, so that the lemmas of `TaxLots_proofs` apply.

## 10. How to run

    tlasany M.tla                                   parse a module
    tlc -workers 2 -config MCM.cfg MCM              check an instance
    tlapm M_proofs.tla                              check the proofs

`PROJECT.json` lists the runs with their properties, the mutants, the mapping from
definitions to lines of the source, the hazards with the properties that cover
them, and the theorems. The longest runs take about two minutes (`execution`) and one
and a half (`tax`) on two workers; all proofs together take a few minutes.
