--------------------------- MODULE CircuitBreaker ---------------------------
(***************************************************************************)
(* One circuit breaker of src/core/resilience.py: CircuitBreaker.call and  *)
(* CircuitBreaker.reset, run by several asyncio tasks.                     *)
(*                                                                         *)
(* call() holds the breaker's lock while it decides on admission and again *)
(* while it records the outcome, but NOT while the wrapped coroutine runs: *)
(* each call is therefore two actions, and every other task may run in     *)
(* between.  A call that was admitted while the breaker was CLOSED may     *)
(* report its outcome long after the breaker opened.                       *)
(*                                                                         *)
(* Data abstractions, both exact for the comparisons the code makes:       *)
(*   - the failure counter is only compared with >= FailureThreshold, so   *)
(*     it saturates there;                                                 *)
(*   - the clock is only read as "now - last failure >= timeout", so the   *)
(*     age of the last failure is kept, saturating at RecoveryTimeout.     *)
(***************************************************************************)
EXTENDS Naturals, FiniteSets

CONSTANTS
  Task,               \* the asyncio tasks that use this breaker
  Cancellable,        \* those whose call may be cancelled (asyncio.wait_for)
  FailureThreshold,   \* config.failure_threshold
  RecoveryTimeout,    \* config.recovery_timeout, in ticks
  HalfOpenMaxCalls,   \* config.half_open_max_calls
  SuccessThreshold    \* config.success_threshold

ASSUME BreakerAssumption ==
  /\ IsFiniteSet(Task)
  /\ Cancellable \subseteq Task
  /\ FailureThreshold \in Nat \ {0}
  /\ RecoveryTimeout \in Nat
  /\ HalfOpenMaxCalls \in Nat \ {0}
  /\ SuccessThreshold \in Nat \ {0}

VARIABLES
  state,                 \* _state
  failureCount,          \* _failure_count, saturating
  failureAge,            \* time.monotonic() - _last_failure_time, saturating
  halfOpenCalls,         \* _half_open_calls
  consecutiveSuccesses,  \* _consecutive_successes
  running,               \* tasks suspended in "await fn(...)"
  probes,                \* those admitted in the current HALF_OPEN episode
  streak                 \* history: successes reported since the last failure

breaker == <<state, failureCount, failureAge, halfOpenCalls,
             consecutiveSuccesses>>
vars == <<breaker, running, probes, streak>>

CircuitState == {"CLOSED", "OPEN", "HALF_OPEN"}

TypeOK ==
  /\ state \in CircuitState
  /\ failureCount \in 0 .. FailureThreshold
  /\ failureAge \in 0 .. RecoveryTimeout
  /\ halfOpenCalls \in 0 .. HalfOpenMaxCalls
  /\ consecutiveSuccesses \in 0 .. SuccessThreshold
  /\ running \subseteq Task
  /\ probes \subseteq Task
  /\ streak \in 0 .. SuccessThreshold

Saturate(n, top) == IF n < top THEN n + 1 ELSE top

\* _last_failure_time starts at 0.0: with respect to a running monotonic
\* clock that is an old failure.
Init ==
  /\ state = "CLOSED"
  /\ failureCount = 0
  /\ failureAge = RecoveryTimeout
  /\ halfOpenCalls = 0
  /\ consecutiveSuccesses = 0
  /\ running = {}
  /\ probes = {}
  /\ streak = 0

-----------------------------------------------------------------------------
(* Admission: the first locked section of call().                          *)

AdmitClosed(t) ==
  /\ state = "CLOSED"
  /\ UNCHANGED <<breaker, probes>>

\* OPEN and the timeout has elapsed: the breaker turns HALF_OPEN and this call
\* takes the first probe slot (HalfOpenMaxCalls >= 1).
AdmitFirstProbe(t) ==
  /\ state = "OPEN"
  /\ failureAge >= RecoveryTimeout
  /\ state' = "HALF_OPEN"
  /\ consecutiveSuccesses' = 0
  /\ halfOpenCalls' = 1
  /\ probes' = {t}
  /\ UNCHANGED <<failureCount, failureAge>>

\* Mutant: "_half_open_calls += 1" is forgotten.
AdmitNextProbeUncounted(t) ==
  /\ state = "HALF_OPEN"
  /\ halfOpenCalls < HalfOpenMaxCalls
  /\ probes' = probes \cup {t}
  /\ UNCHANGED breaker

AdmitNextProbe(t) ==
  /\ state = "HALF_OPEN"
  /\ halfOpenCalls < HalfOpenMaxCalls
  /\ halfOpenCalls' = halfOpenCalls + 1
  /\ probes' = probes \cup {t}
  /\ UNCHANGED <<state, failureCount, failureAge, consecutiveSuccesses>>

\* A call that is refused raises CircuitBreakerOpenError and changes nothing,
\* so refusals are stuttering steps.
Admit(t) ==
  /\ t \notin running
  /\ \/ AdmitClosed(t)
     \/ AdmitFirstProbe(t)
     \/ AdmitNextProbe(t)
  /\ running' = running \cup {t}
  /\ UNCHANGED streak

-----------------------------------------------------------------------------
(* Completion: the second locked section of call().                        *)

Return(t) ==
  /\ t \in running
  /\ running' = running \ {t}

\* The breaker leaves HALF_OPEN: whoever still runs is no probe any more.
ProbesAfter(t, newState) == IF newState = "HALF_OPEN" THEN probes \ {t} ELSE {}

Fail(t) ==
  /\ Return(t)
  /\ failureCount' = Saturate(failureCount, FailureThreshold)
  /\ consecutiveSuccesses' = 0
  /\ failureAge' = 0
  /\ state' = IF state = "HALF_OPEN" \/ failureCount' >= FailureThreshold
              THEN "OPEN" ELSE state
  /\ probes' = ProbesAfter(t, state')
  /\ streak' = 0
  /\ UNCHANGED halfOpenCalls

\* A success in HALF_OPEN that closes the breaker once "enough" is met; the
\* breaker restarts with the failure count "budget".
HalfOpenSuccess(enough, budget) ==
  /\ state = "HALF_OPEN"
  /\ IF enough
     THEN /\ failureCount' = budget
          /\ halfOpenCalls' = 0
          /\ consecutiveSuccesses' = 0
          /\ state' = "CLOSED"
     ELSE /\ consecutiveSuccesses' = consecutiveSuccesses + 1
          /\ UNCHANGED <<state, failureCount, halfOpenCalls>>
  /\ UNCHANGED failureAge

\* Mutants: _failure_count is not cleared; the threshold is missed by one on
\* either side.
SucceedHalfOpenKeepsFailures(t) ==
  HalfOpenSuccess(consecutiveSuccesses + 1 >= SuccessThreshold, failureCount)
SucceedHalfOpenTooEarly(t) ==
  HalfOpenSuccess(consecutiveSuccesses + 2 >= SuccessThreshold, 0)
SucceedHalfOpenTooLate(t) ==
  HalfOpenSuccess(consecutiveSuccesses + 1 > SuccessThreshold, 0)

\* Only in HALF_OPEN does a success count; failure_count of a CLOSED breaker is
\* never lowered by one.
SucceedHalfOpen(t) ==
  HalfOpenSuccess(consecutiveSuccesses + 1 >= SuccessThreshold, 0)

SucceedOtherwise(t) ==
  /\ state # "HALF_OPEN"
  /\ UNCHANGED breaker

Succeed(t) ==
  /\ Return(t)
  /\ SucceedHalfOpen(t) \/ SucceedOtherwise(t)
  /\ probes' = ProbesAfter(t, state')
  /\ streak' = Saturate(streak, SuccessThreshold)

\* asyncio.CancelledError is a BaseException: "except Exception" does not see
\* it, so a cancelled call reports nothing and gives no probe slot back.
Cancel(t) ==
  /\ t \in Cancellable
  /\ Return(t)
  /\ probes' = probes \ {t}
  /\ UNCHANGED <<breaker, streak>>

-----------------------------------------------------------------------------

\* reset() clears everything but _last_failure_time.
Reset ==
  /\ state' = "CLOSED"
  /\ failureCount' = 0
  /\ halfOpenCalls' = 0
  /\ consecutiveSuccesses' = 0
  /\ probes' = {}
  /\ UNCHANGED <<failureAge, running, streak>>

Tick ==
  /\ failureAge < RecoveryTimeout
  /\ failureAge' = failureAge + 1
  /\ UNCHANGED <<state, failureCount, halfOpenCalls, consecutiveSuccesses,
                 running, probes, streak>>

Next ==
  \/ \E t \in Task : Admit(t) \/ Fail(t) \/ Succeed(t) \/ Cancel(t)
  \/ Reset
  \/ Tick

\* Nothing is assumed fair here: who calls, and when, is said by KillSwitch.
Spec == Init /\ [][Next]_vars

-----------------------------------------------------------------------------
(* Properties.                                                             *)

\* The calls in flight that were admitted as probes of the current HALF_OPEN
\* episode never outnumber half_open_max_calls, whatever slot accounting
\* completions, resets and reopenings have left behind (call, l.108-111).
ProbeLimit ==
  /\ probes \subseteq running
  /\ Cardinality(probes) <= HalfOpenMaxCalls
  /\ state # "HALF_OPEN" => probes = {}

\* A CLOSED breaker has always counted fewer than failure_threshold failures:
\* no path (recovery, late failures, reset) leaves it closed with a spent
\* budget, so a breaker is never "closed but one success away from opening".
ClosedHasBudget == state = "CLOSED" => failureCount < FailureThreshold

\* The breaker goes from HALF_OPEN to CLOSED only on evidence: at least
\* success_threshold successes reported after the last reported failure, or an
\* explicit reset (call, l.124-131).
ClosesOnEvidence ==
  [][state = "HALF_OPEN" /\ state' = "CLOSED"
       => Reset \/ streak' >= SuccessThreshold]_vars
=============================================================================
