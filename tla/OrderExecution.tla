--------------------------- MODULE OrderExecution ---------------------------
(***************************************************************************)
(* src/trading/execution/engine.py: execute_order in its three modes,      *)
(* approve_order, cancel_pending, set_mode, get_log and the execution log  *)
(* that reload_execution_log fills from the orders table, with the parts   *)
(* of audit.save_order and RiskManager.can_trade they call.                *)
(*                                                                         *)
(* A request is one running coroutine.  It is cut into actions where the   *)
(* code awaits: loading sentiment scores inside the risk gate, the         *)
(* configured delay, get_accounts, place_order, and waiting for            *)
(* _mode_lock.  Between two awaits the code is atomic.                     *)
(*                                                                         *)
(* A ticket stands for the (ticker, direction, quantity) that approve      *)
(* matches records by; cancel looks at its ticker only.  The orders table  *)
(* has other writers: the API route that cancels a row, and the other      *)
(* processes, each with a log of its own.  Prices, quantities and the      *)
(* position tracker are left to PositionTracker.tla.                       *)
(***************************************************************************)
EXTENDS Naturals, Sequences, FiniteSets

CONSTANTS
  Ticket,      \* what can be ordered
  TickerOf,    \* its ticker
  Request,     \* the coroutines that may run at the same time
  Nobody,      \* no request holds _mode_lock
  LogMax,      \* capacity of _execution_log, a deque(maxlen=1000)
  MaxAttempts, \* stop_after_attempt(3) of the broker's client
  Deduplicates,\* the broker takes one order for each idempotency_key
  BrokerWord,  \* what the broker's client may return as the order's status
  MaxRecords,  \* bound: requests start while the orders table has fewer rows
  MaxPlaced,   \* bound: ... and the broker fewer orders
  MaxUnsaved,  \* bound: records in the log whose row could not be saved
  MaxCrashes   \* bound: process restarts

ASSUME ExecutionAssumption ==
  /\ Ticket # {}
  /\ Nobody \notin Request
  /\ LogMax \in Nat \ {0}
  /\ MaxAttempts \in Nat \ {0}
  /\ Deduplicates \in BOOLEAN
  /\ MaxCrashes \in Nat

VARIABLES
  log,        \* _execution_log: sequence of [ticket, status, row]
  logLoaded,  \* _log_loaded
  orders,     \* the orders table: row i is orders[i] = [ticket, status]
  mode,       \* _mode
  lock,       \* holder of _mode_lock
  pc,         \* where each request is
  job,        \* its parameters, and its attempts at place_order so far
  kill,       \* is_kill_switch_active()
  exchange,   \* orders the broker has of this process: the row approved, or 0
  past,       \* history: requests past the gate when the kill switch went on
  foreign,    \* history: rows other processes saved after this log was loaded
  crashes     \* restarts so far

memory == <<log, logLoaded, mode, lock, pc, job, kill>>
durable == <<orders, exchange>>
history == <<past, foreign, crashes>>
vars == <<memory, durable, history>>

Mode == {"dry_run", "manual", "auto"}
Status == {"simulated", "rejected", "failed", "pending_approval", "cancelled"}
            \cup BrokerWord
\* The statuses reload_execution_log selects.
Reloaded == {"pending", "pending_approval", "submitted", "partial"}
InFlight == {"gate", "delay", "connect", "place"}

Record == [ticket : Ticket, status : Status, row : Nat]
Row == [ticket : Ticket, status : Status]
\* tries: attempts at place_order that came back without a reply; sent: orders
\* the broker has of them.
Job == [ticket : Ticket, mode : Mode, origin : Nat, tries : Nat, sent : Nat]

TypeOK ==
  /\ log \in Seq(Record) /\ Len(log) <= LogMax
  /\ logLoaded \in BOOLEAN
  /\ orders \in Seq(Row)
  /\ mode \in Mode
  /\ lock \in Request \cup {Nobody}
  /\ pc \in [Request -> InFlight \cup {"idle", "to_approve", "to_cancel"}]
  /\ job \in [Request -> Job]
  /\ kill \in BOOLEAN
  /\ exchange \in Seq(Nat)
  /\ past \subseteq Request
  /\ foreign \subseteq Nat
  /\ crashes \in 0 .. MaxCrashes

\* The parameters of a call that starts.
Call(tk, m, origin) ==
  [ticket |-> tk, mode |-> m, origin |-> origin, tries |-> 0, sent |-> 0]

NoJob == Call(CHOOSE tk \in Ticket : TRUE, "dry_run", 0)

Init ==
  /\ log = <<>>
  /\ logLoaded = FALSE
  /\ mode = "dry_run"
  /\ lock = Nobody
  /\ pc = [r \in Request |-> "idle"]
  /\ job = [r \in Request |-> NoJob]
  /\ kill = FALSE
  /\ orders = <<>>
  /\ exchange = <<>>
  /\ past = {}
  /\ foreign = {}
  /\ crashes = 0

Lesser(a, b) == IF a < b THEN a ELSE b

-----------------------------------------------------------------------------
(* reload_execution_log: once per process, the open rows go in front.      *)

\* Mutant: the filter misses the status of the orders that wait.
NoneWaiting ==
  {i \in DOMAIN orders : orders[i].status \in Reloaded \ {"pending_approval"}}

Waiting == {i \in DOMAIN orders : orders[i].status \in Reloaded}

\* The selected rows in the order appendleft leaves them: newest leftmost, so
\* that row i has the place of the waiting rows from i on.
PlaceOf(i) == Cardinality({j \in Waiting : j >= i})

WaitingRows ==
  [k \in 1 .. Cardinality(Waiting) |-> CHOOSE i \in Waiting : PlaceOf(i) = k]

RecordsOf(rows) ==
  [k \in DOMAIN rows |->
     [ticket |-> orders[rows[k]].ticket, status |-> orders[rows[k]].status,
      row |-> rows[k]]]

\* appendleft drops records at the right end of a full deque.
LogAfterReload ==
  LET full == RecordsOf(WaitingRows) \o log
  IN  IF logLoaded THEN log ELSE SubSeq(full, 1, Lesser(LogMax, Len(full)))

\* A query that fails is only reported: the next call tries again.
Reload ==
  \/ log' = LogAfterReload /\ logLoaded' = TRUE
  \/ UNCHANGED <<log, logLoaded>>

-----------------------------------------------------------------------------
(* The end of execute_order: append the record, save_order, return.        *)

\* Mutant: a list instead of a deque.
LogAppendForever(tk, status, row) ==
  log' = Append(log, [ticket |-> tk, status |-> status, row |-> row])

\* append drops the record at the left end of a full deque.
LogAppend(tk, status, row) ==
  LET full == Append(log, [ticket |-> tk, status |-> status, row |-> row])
  IN  log' = IF Len(full) > LogMax THEN Tail(full) ELSE full

\* Mutant: the row keeps the record's first status.
SavePending(tk, status) ==
  /\ orders' = Append(orders, [ticket |-> tk, status |-> "pending_approval"])
  /\ LogAppend(tk, status, Len(orders) + 1)

\* save_order inserts a row, or fails (any exception) and returns 0.
Save(tk, status) ==
  \/ /\ orders' = Append(orders, [ticket |-> tk, status |-> status])
     /\ LogAppend(tk, status, Len(orders) + 1)
  \/ /\ Cardinality({i \in DOMAIN log : log[i].row = 0}) < MaxUnsaved
     /\ LogAppend(tk, status, 0)
     /\ UNCHANGED orders

Release(r) == lock' = IF lock = r THEN Nobody ELSE lock

\* Back to idle; the parameters of the call are gone.
Leave(r) ==
  /\ pc' = [pc EXCEPT ![r] = "idle"]
  /\ job' = [job EXCEPT ![r] = NoJob]

Finish(r, status) ==
  /\ Save(job[r].ticket, status)
  /\ Leave(r)
  /\ Release(r)
  /\ past' = past \ {r}
  /\ UNCHANGED <<logLoaded, mode, kill, foreign, crashes>>

Continue(r, where) ==
  /\ pc' = [pc EXCEPT ![r] = where]
  /\ UNCHANGED <<log, logLoaded, orders, mode, lock, job, kill, exchange, history>>

\* Room for every request in flight to write its record.
Room ==
  LET busy == Cardinality({r \in Request : pc[r] \notin {"idle", "to_cancel"}})
  IN  /\ Len(orders) + busy < MaxRecords
      /\ Len(exchange) + busy < MaxPlaced

-----------------------------------------------------------------------------
(* Entering execute_order (l.208-264) up to its first await: the effective *)
(* mode is captured, the kill switch is the first check of the risk gate.  *)

\* The gate found no kill switch; it now awaits the sentiment scores.
PassGate(r, tk, m, origin) ==
  /\ m # "dry_run"
  /\ ~ kill
  /\ pc' = [pc EXCEPT ![r] = "gate"]
  /\ job' = [job EXCEPT ![r] = Call(tk, m, origin)]
  /\ UNCHANGED <<log, orders>>

\* The record is complete at once: simulated in DRY_RUN, rejected otherwise.
EndAtOnce(r, tk, m) ==
  /\ \/ m = "dry_run" /\ Save(tk, "simulated")
     \/ m # "dry_run" /\ kill /\ Save(tk, "rejected")
  /\ Leave(r)

\* execute_order called by the loop, a stop-loss trigger or a user.
Submit(r, tk) ==
  /\ pc[r] = "idle"
  /\ Room
  /\ EndAtOnce(r, tk, mode) \/ PassGate(r, tk, mode, 0)
  /\ UNCHANGED <<logLoaded, mode, lock, kill, exchange, history>>

\* The sentiment check, the last of can_trade, refuses.
GateRejects(r) ==
  /\ pc[r] = "gate"
  /\ Finish(r, "rejected")
  /\ UNCHANGED exchange

\* An exception leaves the gate, and with it execute_order: no record at all.
GateRaises(r) ==
  /\ pc[r] = "gate"
  /\ Leave(r)
  /\ Release(r)
  /\ past' = past \ {r}
  /\ UNCHANGED <<log, logLoaded, orders, mode, kill, exchange, foreign, crashes>>

\* MANUAL: the record waits for approve_order or cancel_pending.
AwaitApproval(r) ==
  /\ pc[r] = "gate"
  /\ job[r].mode = "manual"
  /\ Finish(r, "pending_approval")
  /\ UNCHANGED exchange

\* AUTO: token, FIGI and lot size are there; sleep for delay_ms.
Delay(r) ==
  /\ pc[r] = "gate"
  /\ job[r].mode = "auto"
  /\ Continue(r, "delay")

\* After the delay: the orders breaker is not OPEN, ask for the accounts.
Connect(r) ==
  /\ pc[r] = "delay"
  /\ Continue(r, "connect")

ReadyToPlace(r) ==
  /\ pc[r] = "connect"
  /\ Continue(r, "place")

\* The early returns and failures of AUTO that never reach place_order: no
\* token, no FIGI, less than a lot, no accounts, or an exception of the client.
FailEarly(r) ==
  /\ \/ pc[r] = "gate" /\ job[r].mode = "auto"
     \/ pc[r] = "connect"
  /\ Finish(r, "failed")
  /\ UNCHANGED exchange

\* The orders breaker is OPEN before (l.352) or during (l.397) place_order: the
\* order is simulated, also when an earlier attempt has reached the broker.
BreakerFallback(r) ==
  /\ pc[r] \in {"delay", "place"}
  /\ Finish(r, "simulated")
  /\ UNCHANGED exchange

-----------------------------------------------------------------------------
(* place_order.  The broker's client sends the order again when its reply  *)
(* is late or the connection breaks (tbank.py, _call_with_retry), always   *)
(* with the idempotency_key of the record; whether the broker looks at the *)
(* key is not in the code.                                                 *)

\* The broker has an order of this key and will not take another.
Known(r) == Deduplicates /\ job[r].sent > 0

Deliver(r) ==
  exchange' = IF Known(r) THEN exchange ELSE Append(exchange, job[r].origin)

\* The broker has the order, record.status ends as "status".
Accepted(r, status) ==
  /\ pc[r] = "place"
  /\ Finish(r, status)
  /\ Deliver(r)

\* Executed at once, in full or in part: the status is the client's own word.
AcceptedExecuted(r) == \E word \in BrokerWord : Accepted(r, word)

\* Accepted, but recorded as failed: nothing is executed yet, and
\* "result.executed_quantity or result.get(..)" calls a method BrokerOrderResult
\* does not have; or the reply to the last attempt was lost.
AcceptedAsFailed(r) == Accepted(r, "failed")

\* place_order raises, and this attempt did not reach the broker.
PlaceFails(r) ==
  /\ pc[r] = "place"
  /\ Finish(r, "failed")
  /\ UNCHANGED exchange

AnotherAttempt(r) == job[r].tries + 1 < MaxAttempts

\* Mutant: retry without stop_after_attempt.
LoseEveryReply(r) ==
  /\ pc[r] = "place"
  /\ Deliver(r)
  /\ job' = [job EXCEPT ![r].sent = IF Known(r) THEN @ ELSE @ + 1]
  /\ UNCHANGED <<log, logLoaded, mode, lock, pc, kill, orders, history>>

\* The broker has the order, its reply is lost, and the order is sent again.
LoseReply(r) ==
  /\ pc[r] = "place"
  /\ AnotherAttempt(r)
  /\ Deliver(r)
  /\ job' = [job EXCEPT ![r].tries = @ + 1,
                        ![r].sent = IF Known(r) THEN @ ELSE @ + 1]
  /\ UNCHANGED <<log, logLoaded, mode, lock, pc, kill, orders, history>>

\* The order does not reach the broker, and is sent again.
AttemptFails(r) ==
  /\ pc[r] = "place"
  /\ AnotherAttempt(r)
  /\ job' = [job EXCEPT ![r].tries = @ + 1]
  /\ UNCHANGED <<log, logLoaded, mode, lock, pc, kill, durable, history>>

-----------------------------------------------------------------------------
(* approve_order and cancel_pending: reload, then wait for _mode_lock.     *)

Ask(r, tk, what) ==
  /\ pc[r] = "idle"
  /\ Reload
  /\ pc' = [pc EXCEPT ![r] = what]
  /\ job' = [job EXCEPT ![r] = Call(tk, "auto", 0)]
  /\ UNCHANGED <<durable, mode, lock, kill, history>>

AskApprove(r, tk) == Room /\ Ask(r, tk, "to_approve")
AskCancel(r, tk) == Ask(r, tk, "to_cancel")

Pending == {i \in DOMAIN log : log[i].status = "pending_approval"}

\* approve_order compares ticker, direction and quantity, cancel_pending the
\* ticker.
Matches(tk) == {i \in Pending : log[i].ticket = tk}
OfTicker(tk) == {i \in Pending : TickerOf[log[i].ticket] = TickerOf[tk]}

Newest(S) == CHOOSE i \in S : \A j \in S : j <= i
Oldest(S) == CHOOSE i \in S : \A j \in S : i <= j

\* The lock is held until the nested execute_order returns; the record that is
\* approved is not touched.
Approve(r) ==
  LET found == Matches(job[r].ticket)
      rec == log[Newest(found)]
  IN  /\ pc[r] = "to_approve"
      /\ lock = Nobody
      /\ found # {}
      /\ \/ PassGate(r, rec.ticket, "auto", rec.row) /\ lock' = r
         \/ EndAtOnce(r, rec.ticket, "auto") /\ UNCHANGED lock
      /\ UNCHANGED <<logLoaded, mode, kill, exchange, history>>

NothingFound(r) ==
  /\ \/ pc[r] = "to_approve" /\ Matches(job[r].ticket) = {}
     \/ pc[r] = "to_cancel" /\ OfTicker(job[r].ticket) = {}
  /\ lock = Nobody
  /\ Leave(r)
  /\ UNCHANGED <<log, logLoaded, mode, lock, kill, durable, history>>

\* Mutant: cancel_pending forgets "async with _mode_lock".
CancelUnlocked(r) ==
  LET found == OfTicker(job[r].ticket)
      i == Oldest(found)
  IN  /\ pc[r] = "to_cancel"
      /\ found # {}
      /\ log' = [log EXCEPT ![i].status = "cancelled"]
      /\ Leave(r)
      /\ UNCHANGED <<durable, logLoaded, mode, lock, kill, history>>

\* The first match from the left is marked in the log; its row is not updated.
Cancel(r) == lock = Nobody /\ CancelUnlocked(r)

-----------------------------------------------------------------------------

GetLog == Reload /\ UNCHANGED <<durable, mode, lock, pc, job, kill, history>>

SetMode ==
  /\ lock = Nobody
  /\ mode' \in Mode
  /\ UNCHANGED <<log, logLoaded, lock, pc, job, kill, durable, history>>

\* POST /order/cancel: the row is cancelled, whatever its status; neither the
\* log nor _mode_lock is looked at, nor the broker told.
ApiCancel(n) ==
  /\ orders' = [orders EXCEPT ![n].status = "cancelled"]
  /\ UNCHANGED <<memory, exchange, history>>

\* Another process (API, bot, CLI, loop) saves an open order; its row is known
\* here only if the log is still to be loaded.  Rows of other statuses are
\* never read.
OtherProcessSaves(tk, status) ==
  /\ Room
  /\ orders' = Append(orders, [ticket |-> tk, status |-> status])
  /\ foreign' = IF logLoaded THEN foreign \cup {Len(orders) + 1} ELSE foreign
  /\ UNCHANGED <<memory, exchange, past, crashes>>

KillSwitchOn ==
  /\ ~ kill
  /\ kill' = TRUE
  /\ past' = {r \in Request : pc[r] \in InFlight}
  /\ UNCHANGED <<log, logLoaded, mode, lock, pc, job, durable, foreign, crashes>>

KillSwitchOff ==
  /\ kill
  /\ kill' = FALSE
  /\ past' = {}
  /\ UNCHANGED <<log, logLoaded, mode, lock, pc, job, durable, foreign, crashes>>

\* The process dies and starts again: everything in memory is lost, the kill
\* switch and the mode included.
Crash ==
  /\ crashes < MaxCrashes
  /\ crashes' = crashes + 1
  /\ log' = <<>>
  /\ logLoaded' = FALSE
  /\ mode' = "dry_run"
  /\ lock' = Nobody
  /\ pc' = [r \in Request |-> "idle"]
  /\ job' = [r \in Request |-> NoJob]
  /\ kill' = FALSE
  /\ past' = {}
  /\ foreign' = {}
  /\ UNCHANGED durable

Gate(r) == GateRejects(r) \/ GateRaises(r) \/ AwaitApproval(r) \/ Delay(r)
Broker(r) ==
  \/ Connect(r) \/ ReadyToPlace(r) \/ FailEarly(r) \/ BreakerFallback(r)
  \/ AcceptedExecuted(r) \/ AcceptedAsFailed(r) \/ PlaceFails(r)
  \/ LoseReply(r) \/ AttemptFails(r)
Operator(r) == Approve(r) \/ NothingFound(r) \/ Cancel(r)

Next ==
  \/ \E r \in Request, tk \in Ticket :
       Submit(r, tk) \/ AskApprove(r, tk) \/ AskCancel(r, tk)
  \/ \E r \in Request : Gate(r) \/ Broker(r) \/ Operator(r)
  \/ \E n \in DOMAIN orders : ApiCancel(n)
  \/ \E tk \in Ticket, status \in Reloaded \cap Status : OtherProcessSaves(tk, status)
  \/ GetLog \/ SetMode \/ KillSwitchOn \/ KillSwitchOff \/ Crash

Spec == Init /\ [][Next]_vars

-----------------------------------------------------------------------------
(* Properties.                                                             *)

\* The log and the orders table tell the same story: a record that was saved
\* points at a row of the same ticket and status, through reloads, crashes and
\* failed saves.  There are two differences, both cancellations: cancel_pending
\* marks the record only, POST /order/cancel the row only (save_order;
\* reload_execution_log; cancel_pending; cancel_order).
LogMatchesOrders ==
  \A i \in DOMAIN log :
    log[i].row # 0 =>
      /\ log[i].row \in DOMAIN orders
      /\ orders[log[i].row].ticket = log[i].ticket
      /\ \/ orders[log[i].row].status = log[i].status
         \/ /\ log[i].status = "cancelled"
            /\ orders[log[i].row].status = "pending_approval"
         \/ orders[log[i].row].status = "cancelled"

\* Once the log is loaded, an order that waits for approval is within reach of
\* the operator of this process: a waiting row has a record in the log, also a
\* row of an earlier process or one that another process saved before the load.
\* Out of reach are the rows other processes save later, and what a log of
\* LogMax records has dropped (reload_execution_log).
WaitingRowsReachable ==
  logLoaded /\ Len(log) < LogMax =>
    \A n \in DOMAIN orders \ foreign :
      orders[n].status = "pending_approval" => \E i \in DOMAIN log : log[i].row = n

\* While an approval is being executed cancel_pending cannot cancel its record
\* under it: _mode_lock is held from the search of the record to the last line
\* of execute_order (approve_order, l.531-549; cancel_pending, l.555).  It is
\* said of the record: POST /order/cancel takes no lock and may cancel the row.
ApprovalExcludesCancel ==
  \A r \in Request :
    lock = r /\ job[r].origin # 0 /\ Len(log) < LogMax =>
      \E i \in DOMAIN log :
        log[i].row = job[r].origin /\ log[i].status = "pending_approval"

\* The kill switch is read once, at the start of the gate.  Whatever reaches
\* the broker while it is on was past that check when it went on, the orders
\* that are sent again included: none is of a request that started later, by
\* the loop or by an approval (can_trade, l.297-302; execute_order, l.229-262).
OnlyStragglersAfterKill ==
  [][kill /\ exchange' # exchange => \E r \in past : pc[r] = "place"]_vars

\* Order execution as the kill switch sees it.
Gatekeeper == INSTANCE TradingGate WITH
  Allowance <- IF Deduplicates THEN 1 ELSE MaxAttempts,
  halted <- kill,
  cleared <- {r \in Request : pc[r] \in InFlight},
  sent <- [r \in Request |-> job[r].sent],
  placed <- Len(exchange)

\* Whatever the modes, the locks, the awaits and the retries do, order execution
\* is the gate of TradingGate: a clearance is given only while the kill switch
\* is off, it is worth one order at most if the broker honours idempotency_key
\* and MaxAttempts otherwise, and nothing else reaches the broker
\* (execute_order, l.229-487; tbank.py, l.112-127).
ImplementsGate == Gatekeeper!GateSpec

\* An order the operator approved is executed once.
ApprovedOnce ==
  \A i, j \in DOMAIN exchange :
    i # j => exchange[i] = 0 \/ exchange[i] # exchange[j]
=============================================================================
