----------------------------- MODULE KillSwitch -----------------------------
(***************************************************************************)
(* A broker's circuit breaker wired to the kill switch: the parts of       *)
(* src/trading/risk/guards.py that listen to the breaker, and the callers  *)
(* of the breaker.                                                         *)
(*                                                                         *)
(* An order (execute_order, then TBankClient._call_with_retry) first       *)
(* passes the kill switch and only later calls the breaker; it awaits in   *)
(* between.  Two breakers are wired and called, and called differently:    *)
(*   "tbank"         by orders (get_accounts), which do not look whether   *)
(*                   it is open, and by callers that do not ask the kill   *)
(*                   switch (portfolio, balance, candles);                 *)
(*   "tbank_orders"  by orders only (place_order), and only by those that  *)
(*                   looked at is_open first.                              *)
(* One of the two is modelled: "name" says which, chosen at the start.     *)
(*                                                                         *)
(* The breaker is that of CircuitBreaker.tla: this module adds what its    *)
(* callback does and restricts who calls it when.  Every action that       *)
(* touches the breaker is an action of CircuitBreaker with the callback.   *)
(***************************************************************************)
EXTENDS CircuitBreaker

CONSTANTS
  Ungated,      \* the tasks that call "tbank" without the risk gate
  MaxAttempts   \* stop_after_attempt(3) in _call_with_retry

ASSUME KillSwitchAssumption ==
  /\ Ungated \subseteq Task
  /\ MaxAttempts \in Nat \ {0}

VARIABLES
  name,      \* which of the wired breakers this is
  wired,     \* wire_circuit_breakers_to_kill_switch has run
  flag,      \* _kill_switch_active
  reason,    \* the breaker's name is in _CB_KILL_SWITCH_REASONS
  phase,     \* where each order is on its way to the breaker
  attempts,  \* calls each order has made
  reported,  \* history: the breaker last opened when it was wired
  acked,     \* history: deactivated since the handler last saw it open
  budget,    \* history: the attempts each order had left when trading was halted
  late       \* history: the calls each order has made since

guards == <<wired, flag, reason, reported, acked>>
callers == <<name, phase, attempts>>
tally == <<budget, late>>
wiredVars == <<vars, guards, callers, tally>>

Order == Task \ Ungated

WiredTypeOK ==
  /\ TypeOK
  /\ wired \in BOOLEAN /\ flag \in BOOLEAN /\ reason \in BOOLEAN
  /\ phase \in [Order -> {"idle", "gated", "checked"}]
  /\ attempts \in [Order -> 0 .. MaxAttempts]
  /\ reported \in BOOLEAN /\ acked \in BOOLEAN
  /\ name \in {"tbank", "tbank_orders"}
  /\ budget \in [Order -> 0 .. MaxAttempts]
  /\ late \in [Order -> 0 .. MaxAttempts]

WiredInit ==
  /\ Init
  /\ wired = FALSE /\ flag = FALSE /\ reason = FALSE
  /\ phase = [t \in Order |-> "idle"]
  /\ attempts = [t \in Order |-> 0]
  /\ reported = FALSE
  /\ acked = FALSE
  /\ name \in {"tbank", "tbank_orders"}
  /\ budget = [t \in Order |-> 0]
  /\ late = [t \in Order |-> 0]

\* is_kill_switch_active()
Halted == flag \/ reason

\* The calls an order that is under way may still make.
AttemptsLeft ==
  [t \in Order |-> IF phase[t] # "idle" \/ t \in running
                   THEN MaxAttempts - attempts[t] ELSE 0]

\* History: who calls while trading is halted, against what they had left when
\* it was halted.
Watch(calling) ==
  IF Halted /\ Halted'
  THEN /\ late' = [t \in Order |-> IF t \in calling THEN late[t] + 1 ELSE late[t]]
       /\ UNCHANGED budget
  ELSE /\ late' = [t \in Order |-> 0]
       /\ budget' = AttemptsLeft'

-----------------------------------------------------------------------------
(* The callback.  _transition calls it only when the state changes.        *)

Silent == UNCHANGED <<flag, reason, acked>>

HandleOpened ==
  flag' = TRUE /\ reason' = TRUE /\ acked' = FALSE

\* Mutant: recovery also deactivates the kill switch.
HandleClosedDeactivates ==
  flag' = FALSE /\ reason' = FALSE /\ UNCHANGED acked

HandleClosed == reason' = FALSE /\ UNCHANGED <<flag, acked>>

\* Mutant: the reason goes away as soon as the breaker is probed.
StateChangeHandlerHalfOpen ==
  \/ state' = "OPEN" /\ HandleOpened
  \/ state' # "OPEN" /\ HandleClosed

StateChangeHandler ==
  \/ state' = "OPEN" /\ HandleOpened
  \/ state' = "CLOSED" /\ HandleClosed
  \/ state' = "HALF_OPEN" /\ Silent

Notify ==
  /\ IF wired /\ state' # state THEN StateChangeHandler ELSE Silent
  /\ reported' = IF state' = state THEN reported
                 ELSE IF state' = "OPEN" THEN wired
                 ELSE IF state' = "CLOSED" THEN FALSE
                 ELSE reported
  /\ UNCHANGED wired

-----------------------------------------------------------------------------
(* An order on its way to the breaker.                                     *)

Move(t, where) ==
  /\ phase' = [phase EXCEPT ![t] = where]
  /\ UNCHANGED <<vars, guards, name, attempts>>
  /\ Watch({})

PassGate(t) ==
  /\ phase[t] = "idle" /\ t \notin running
  /\ ~ Halted
  /\ phase' = [phase EXCEPT ![t] = "gated"]
  /\ attempts' = [attempts EXCEPT ![t] = 0]
  /\ UNCHANGED <<vars, guards, name>>
  /\ Watch({})

\* Mutant: nobody looks whether the orders breaker is open.
CheckOpenBlindly(t) ==
  /\ phase[t] = "gated"
  /\ Move(t, "checked")

\* "if orders_cb.is_open": the order is only simulated.
CheckOpen(t) ==
  /\ phase[t] = "gated"
  /\ Move(t, IF name = "tbank_orders" /\ state = "OPEN" THEN "idle" ELSE "checked")

\* No accounts, an exception of the client, or cancelled while it waits.
GiveUp(t) ==
  /\ phase[t] = "checked"
  /\ Move(t, "idle")

Refuses ==
  \/ state = "OPEN" /\ failureAge < RecoveryTimeout
  \/ state = "HALF_OPEN" /\ halfOpenCalls >= HalfOpenMaxCalls

\* CircuitBreakerOpenError ends the retries.
Refused(t) ==
  /\ phase[t] = "checked"
  /\ Refuses
  /\ Move(t, "idle")

Call(t) ==
  /\ phase[t] = "checked"
  /\ Admit(t)
  /\ Notify
  /\ phase' = [phase EXCEPT ![t] = "idle"]
  /\ attempts' = [attempts EXCEPT ![t] = @ + 1]
  /\ UNCHANGED name
  /\ Watch({t})

\* Mutant: background callers look at is_open first, too.
CallUngatedChecked(t) ==
  /\ t \in Ungated /\ name = "tbank"
  /\ state # "OPEN"
  /\ Admit(t)
  /\ Notify
  /\ UNCHANGED callers
  /\ Watch({})

CallUngated(t) ==
  /\ t \in Ungated /\ name = "tbank"
  /\ Admit(t)
  /\ Notify
  /\ UNCHANGED callers
  /\ Watch({})

\* Mutant: without stop=stop_after_attempt(3) tenacity retries for ever.
RetryForever(t) ==
  /\ Fail(t)
  /\ Notify
  /\ t \in Order
  /\ phase' = [phase EXCEPT ![t] = "checked"]
  /\ UNCHANGED <<name, attempts>>
  /\ Watch({})

\* A retryable error (timeout, status, connection) and attempts left: the order
\* goes back to the breaker, not to the gate and not to is_open.
Retry(t) ==
  /\ Fail(t)
  /\ Notify
  /\ t \in Order
  /\ attempts[t] < MaxAttempts
  /\ phase' = [phase EXCEPT ![t] = "checked"]
  /\ UNCHANGED <<name, attempts>>
  /\ Watch({})

CallFails(t) == Fail(t) /\ Notify /\ UNCHANGED callers /\ Watch({})

CallSucceeds(t) == Succeed(t) /\ Notify /\ UNCHANGED callers /\ Watch({})

CallCancelled(t) == Cancel(t) /\ Notify /\ UNCHANGED callers /\ Watch({})

-----------------------------------------------------------------------------

Wire == /\ ~ wired /\ wired' = TRUE
        /\ UNCHANGED <<vars, flag, reason, reported, acked, callers>>
        /\ Watch({})

\* activate_kill_switch by daily loss, drawdown or an operator.
Activate ==
  /\ ~ flag
  /\ flag' = TRUE
  /\ UNCHANGED <<vars, wired, reason, reported, acked, callers>>
  /\ Watch({})

Deactivate ==
  /\ flag
  /\ flag' = FALSE
  /\ acked' = TRUE
  /\ UNCHANGED <<vars, wired, reason, reported, callers>>
  /\ Watch({})

\* reset() assigns _state before it calls _transition, which then sees no
\* change: the callback does not run.
ResetBreaker ==
  /\ Reset
  /\ reported' = FALSE
  /\ UNCHANGED <<wired, flag, reason, acked, callers>>
  /\ Watch({})

TimePasses == Tick /\ UNCHANGED <<guards, callers>> /\ Watch({})

OrderStep(t) ==
  PassGate(t) \/ CheckOpen(t) \/ GiveUp(t) \/ Refused(t) \/ Call(t)

WiredNext ==
  \/ \E t \in Order : OrderStep(t) \/ Retry(t)
  \/ \E t \in Task : \/ CallUngated(t) \/ CallFails(t)
                     \/ CallSucceeds(t) \/ CallCancelled(t)
  \/ Wire \/ Activate \/ Deactivate \/ ResetBreaker \/ TimePasses

WiredSpec == WiredInit /\ [][WiredNext]_wiredVars

(***************************************************************************)
(* Fairness: time passes, calls end, coroutines run on, the loop keeps     *)
(* asking for orders and the background jobs keep calling.  Nothing forces *)
(* a failure, a wiring, or any act of the operator.                        *)
(***************************************************************************)
FairWiredSpec ==
  /\ WiredSpec
  /\ WF_wiredVars(TimePasses)
  /\ \A t \in Order : WF_wiredVars(PassGate(t)) /\ WF_wiredVars(CheckOpen(t))
                      /\ WF_wiredVars(Refused(t) \/ Call(t))
  /\ \A t \in Ungated : WF_wiredVars(CallUngated(t))
  /\ \A t \in Task : WF_wiredVars(CallFails(t) \/ CallSucceeds(t))

-----------------------------------------------------------------------------
(* Properties.                                                             *)

\* A breaker that opened under the eyes of the handler halts trading until it
\* is CLOSED again, HALF_OPEN included, whatever the operator deactivates in
\* the meantime (is_kill_switch_active, l.162-164; handler, l.27-41).
BrokenHalts == reported => Halted /\ state # "CLOSED"

\* Trading never resumes by itself: between the opening that halted it and the
\* first order let through again an operator has deactivated the kill switch
\* (handler, l.36-41: recovery takes the reason away, never the flag).
ResumeNeedsOperator == [][Halted /\ ~ Halted' => acked']_wiredVars

\* A halt does not recall what is under way: _call_with_retry goes back to the
\* breaker, never to the risk gate.  But an order makes no more calls after the
\* halt than it had attempts left when trading was halted, and one that was not
\* under way makes none, whoever halts or resumes trading meanwhile
\* (_call_with_retry, l.108-127; _check_kill_switch, l.297-302).
LateCallsBounded == Halted => \A t \in Order : late[t] <= budget[t]

\* The two states from which no caller can bring the breaker back.  With all
\* slots taken and no outcome to come it stays HALF_OPEN, its successes fewer
\* than required; as shipped there is one slot and two successes are required.
\* The OPEN orders breaker is never probed once everybody looks at it first.
SlotsSpent ==
  /\ state = "HALF_OPEN" /\ running = {}
  /\ halfOpenCalls >= HalfOpenMaxCalls
  /\ consecutiveSuccesses < SuccessThreshold

Unprobed ==
  /\ name = "tbank_orders" /\ state = "OPEN" /\ running = {}
  /\ \A t \in Order : phase[t] # "checked"

DeadEnd == SlotsSpent \/ Unprobed

\* Nothing but reset() ends a dead end: no order, no retry, no background call,
\* no passing of time and no act of an operator on the kill switch
\* (resilience.py, l.108-111; execute_order, l.350-352).
DeadEndIsFinal == [][DeadEnd => DeadEnd' \/ Reset]_wiredVars

\* Once the service stops failing the breaker is CLOSED again and again, or in a
\* dead end: nothing else keeps it OPEN or HALF_OPEN (call, l.96-131).
RecoversOrDeadEnd ==
  (<>[][\A t \in Task : ~ Fail(t)]_wiredVars)
    => []<>(state = "CLOSED" \/ DeadEnd)

\* An OPEN breaker is tried again some time after its timeout, whatever fails
\* meanwhile, except the orders breaker that nobody probes any more
\* (call, l.96-99; execute_order, l.350-372).
OpenIsRetried == state = "OPEN" ~> state # "OPEN" \/ Unprobed
=============================================================================
