------------------------- MODULE KillSwitch_proofs -------------------------
(***************************************************************************)
(* What TLAPS proves of the circuit breaker and of the kill switch wired   *)
(* to it, for every set of tasks and every configuration: first of         *)
(* CircuitBreaker by itself, then that the wired breaker implements it and *)
(* so keeps its promises, then what the callback guarantees about halting  *)
(* and resuming, and types.                                                *)
(***************************************************************************)
EXTENDS KillSwitch, FiniteSetTheorems, TLAPS

(***************************************************************************)
(* The inductive invariant.  ProbeLimit is not inductive by itself: what   *)
(* keeps the probes few is that each of them holds a slot, so the number   *)
(* of probes in flight is bounded by halfOpenCalls, which is bounded by    *)
(* the configuration.  ClosedHasBudget is inductive with TypeOK alone.     *)
(* Closing on evidence needs the counter of consecutive successes to be    *)
(* covered by the history, and to stay below the threshold.                *)
(***************************************************************************)
ProbesHoldSlots ==
  /\ probes \subseteq running
  /\ state = "HALF_OPEN" => Cardinality(probes) <= halfOpenCalls
  /\ state # "HALF_OPEN" => probes = {}

SuccessesReported ==
  state = "HALF_OPEN" =>
    /\ consecutiveSuccesses <= streak
    /\ consecutiveSuccesses < SuccessThreshold

BreakerInv == TypeOK /\ ProbesHoldSlots /\ ClosedHasBudget /\ SuccessesReported

-----------------------------------------------------------------------------
\* A counter that saturates stays in its range and never falls.
LEMMA SaturateRange ==
  ASSUME NEW top \in Nat, NEW n \in 0 .. top
  PROVE  /\ Saturate(n, top) \in 0 .. top
         /\ Saturate(n, top) >= n
         /\ \A m \in 0 .. n : m < top => m + 1 <= Saturate(n, top)
BY DEF Saturate

\* The breaker's variables keep their types, and the auxiliary invariant holds
\* in every step of call() and reset().
LEMMA BreakerInvInit == Init => BreakerInv
BY BreakerAssumption, FS_EmptySet
   DEF Init, BreakerInv, TypeOK, CircuitState, ProbesHoldSlots, ClosedHasBudget,
       SuccessesReported

LEMMA ProbesFinite ==
  ASSUME BreakerInv, NEW S \in SUBSET probes
  PROVE  /\ IsFiniteSet(S) /\ IsFiniteSet(probes)
         /\ Cardinality(S) <= Cardinality(probes)
<1>1. probes \subseteq Task
  BY DEF BreakerInv, TypeOK
<1>2. IsFiniteSet(probes)
  BY <1>1, BreakerAssumption, FS_Subset
<1>3. QED
  BY <1>2, FS_Subset

LEMMA AdmitKeeps ==
  ASSUME BreakerInv, NEW t \in Task, Admit(t)
  PROVE  BreakerInv'
<1> USE BreakerAssumption
<1>a. IsFiniteSet(probes)
  BY ProbesFinite
<1>b. /\ Cardinality(probes) \in Nat /\ Cardinality(probes \cup {t}) \in Nat
      /\ Cardinality(probes \cup {t}) <= Cardinality(probes) + 1
  <2>1. Cardinality(probes) \in Nat
    BY <1>a, FS_CardinalityType
  <2>2. Cardinality(probes \cup {t}) \in {Cardinality(probes), Cardinality(probes) + 1}
    BY <1>a, FS_AddElement, Zenon
  <2>3. QED
    BY <2>1, <2>2
<1>c. Cardinality({t}) = 1
  BY FS_Singleton
<1>1. CASE AdmitClosed(t)
  BY <1>1 DEF AdmitClosed, Admit, BreakerInv, TypeOK, CircuitState, breaker,
       ProbesHoldSlots, ClosedHasBudget, SuccessesReported
<1>2. CASE AdmitFirstProbe(t)
  BY <1>2, <1>c DEF AdmitFirstProbe, Admit, BreakerInv, TypeOK, CircuitState,
       ProbesHoldSlots, ClosedHasBudget, SuccessesReported
<1>3. CASE AdmitNextProbe(t)
  BY <1>3, <1>b DEF AdmitNextProbe, Admit, BreakerInv, TypeOK, CircuitState,
       ProbesHoldSlots, ClosedHasBudget, SuccessesReported
<1>4. QED
  BY <1>1, <1>2, <1>3 DEF Admit

LEMMA FailKeeps ==
  ASSUME BreakerInv, NEW t \in Task, Fail(t)
  PROVE  BreakerInv'
<1> USE BreakerAssumption
<1>1. failureCount' \in 0 .. FailureThreshold
  BY SaturateRange DEF Fail, BreakerInv, TypeOK
<1>2. state' \in {state, "OPEN"} /\ (state = "HALF_OPEN" => state' = "OPEN")
  BY DEF Fail
<1>3. probes' = {}
  BY <1>2 DEF Fail, ProbesAfter, BreakerInv, ProbesHoldSlots
<1>4. TypeOK'
  BY <1>1, <1>2, <1>3 DEF Fail, Return, BreakerInv, TypeOK, CircuitState
<1>5. ClosedHasBudget'
  BY <1>1 DEF Fail, ClosedHasBudget, BreakerInv, TypeOK
<1>6. ProbesHoldSlots' /\ SuccessesReported'
  BY <1>2, <1>3 DEF ProbesHoldSlots, SuccessesReported, Fail, BreakerInv, TypeOK,
       CircuitState
<1>7. QED
  BY <1>4, <1>5, <1>6 DEF BreakerInv

LEMMA SucceedKeeps ==
  ASSUME BreakerInv, NEW t \in Task, Succeed(t)
  PROVE  BreakerInv'
<1> USE BreakerAssumption
<1>1. streak' \in 0 .. SuccessThreshold /\ streak' >= streak
  BY SaturateRange DEF Succeed, BreakerInv, TypeOK
<1>2. /\ IsFiniteSet(probes \ {t})
      /\ Cardinality(probes \ {t}) <= Cardinality(probes)
      /\ Cardinality(probes) \in Nat /\ Cardinality(probes \ {t}) \in Nat
  BY ProbesFinite, FS_CardinalityType
<1>3. CASE SucceedOtherwise(t)
  <2>1. probes' = {} /\ state' # "HALF_OPEN" /\ UNCHANGED breaker
    BY <1>3 DEF SucceedOtherwise, Succeed, ProbesAfter, breaker
  <2>2. QED
    BY <1>1, <2>1 DEF Succeed, Return, breaker, BreakerInv, TypeOK,
       CircuitState, ProbesHoldSlots, ClosedHasBudget, SuccessesReported
<1>4. CASE SucceedHalfOpen(t)
  <2>1. CASE consecutiveSuccesses + 1 >= SuccessThreshold
    <3>1. /\ state' = "CLOSED" /\ failureCount' = 0 /\ halfOpenCalls' = 0
          /\ consecutiveSuccesses' = 0 /\ failureAge' = failureAge
      BY <1>4, <2>1 DEF SucceedHalfOpen, HalfOpenSuccess
    <3>2. probes' = {} /\ running' \subseteq Task
      BY <3>1 DEF Succeed, Return, ProbesAfter, BreakerInv, TypeOK
    <3>3. QED
      BY <1>1, <3>1, <3>2 DEF BreakerInv, TypeOK, CircuitState, ProbesHoldSlots,
         ClosedHasBudget, SuccessesReported
  <2>2. CASE ~ (consecutiveSuccesses + 1 >= SuccessThreshold)
    <3>1. /\ state = "HALF_OPEN"
          /\ UNCHANGED <<state, failureCount, halfOpenCalls, failureAge>>
          /\ consecutiveSuccesses' = consecutiveSuccesses + 1
      BY <1>4, <2>2 DEF SucceedHalfOpen, HalfOpenSuccess
    <3>2. probes' = probes \ {t} /\ running' = running \ {t}
      BY <3>1 DEF Succeed, Return, ProbesAfter
    <3>3. consecutiveSuccesses' <= streak' /\ consecutiveSuccesses' < SuccessThreshold
      BY <2>2, <3>1, SaturateRange
         DEF Succeed, BreakerInv, TypeOK, SuccessesReported
    <3>4. QED
      BY <1>1, <1>2, <3>1, <3>2, <3>3 DEF BreakerInv, TypeOK, CircuitState,
         ProbesHoldSlots, ClosedHasBudget, SuccessesReported
  <2>3. QED
    BY <2>1, <2>2
<1>5. QED
  BY <1>3, <1>4 DEF Succeed

LEMMA OtherStepsKeep ==
  ASSUME BreakerInv,
         Reset \/ Tick \/ (\E t \in Task : Cancel(t)) \/ UNCHANGED vars
  PROVE  BreakerInv'
<1> USE BreakerAssumption DEF BreakerInv, TypeOK, CircuitState, ProbesHoldSlots,
                              ClosedHasBudget, SuccessesReported
<1>1. CASE Reset
  BY <1>1 DEF Reset
<1>2. CASE Tick
  BY <1>2 DEF Tick
<1>3. ASSUME NEW t \in Task, Cancel(t) PROVE BreakerInv'
  <2>1. /\ Cardinality(probes \ {t}) <= Cardinality(probes)
        /\ Cardinality(probes) \in Nat /\ Cardinality(probes \ {t}) \in Nat
    BY ProbesFinite, FS_CardinalityType
  <2>2. QED
    BY <1>3, <2>1 DEF Cancel, Return, breaker
<1>4. CASE UNCHANGED vars
  BY <1>4 DEF vars, breaker
<1>5. QED
  BY <1>1, <1>2, <1>3, <1>4

\* BreakerInv is an inductive invariant of the breaker.
THEOREM BreakerInvariant == Spec => []BreakerInv
<1>1. BreakerInv /\ [Next]_vars => BreakerInv'
  BY AdmitKeeps, FailKeeps, SucceedKeeps, OtherStepsKeep DEF Next
<1>2. QED
  BY BreakerInvInit, <1>1, PTL DEF Spec

-----------------------------------------------------------------------------
\* Type correctness of the breaker, for every configuration.
THEOREM BreakerTypeOK == Spec => []TypeOK
BY BreakerInvariant, PTL DEF BreakerInv

\* Never more running probes than half_open_max_calls, for every number of
\* tasks, thresholds and interleaving of late completions.
THEOREM BreakerProbeLimit == Spec => []ProbeLimit
<1>1. BreakerInv => ProbeLimit
  <2> SUFFICES ASSUME BreakerInv PROVE ProbeLimit
    OBVIOUS
  <2>1. Cardinality(probes) \in Nat /\ (probes = {} => Cardinality(probes) = 0)
    BY ProbesFinite, FS_CardinalityType, FS_EmptySet
  <2>2. QED
    BY <2>1, BreakerAssumption
       DEF BreakerInv, TypeOK, CircuitState, ProbesHoldSlots, ProbeLimit
<1>2. QED
  BY <1>1, BreakerInvariant, PTL

\* A closed breaker always has failures left before it opens.
THEOREM BreakerClosedHasBudget == Spec => []ClosedHasBudget
BY BreakerInvariant, PTL DEF BreakerInv

\* HALF_OPEN turns CLOSED only by a reset or after success_threshold successes
\* reported since the last failure.
THEOREM BreakerClosesOnEvidence == Spec => ClosesOnEvidence
<1>1. BreakerInv /\ [Next]_vars =>
        [state = "HALF_OPEN" /\ state' = "CLOSED"
           => Reset \/ streak' >= SuccessThreshold]_vars
  <2> SUFFICES ASSUME BreakerInv, Next, ~ Reset,
                      state = "HALF_OPEN", state' = "CLOSED"
               PROVE  streak' >= SuccessThreshold
    BY DEF vars, breaker
  <2>1. PICK t \in Task : Succeed(t)
    <3>1. ASSUME NEW u \in Task, Admit(u) PROVE FALSE
      BY <3>1 DEF Admit, AdmitClosed, AdmitFirstProbe, AdmitNextProbe, breaker
    <3>2. ASSUME NEW u \in Task, Fail(u) PROVE FALSE
      BY <3>2 DEF Fail
    <3>3. ASSUME NEW u \in Task, Cancel(u) PROVE FALSE
      BY <3>3 DEF Cancel, breaker
    <3>4. ~ Tick
      BY DEF Tick
    <3>5. QED
      BY <3>1, <3>2, <3>3, <3>4 DEF Next
  <2>2. consecutiveSuccesses + 1 >= SuccessThreshold
    BY <2>1 DEF Succeed, SucceedHalfOpen, SucceedOtherwise, HalfOpenSuccess
  <2>3. /\ streak \in 0 .. SuccessThreshold /\ SuccessThreshold \in Nat
        /\ consecutiveSuccesses \in 0 .. SuccessThreshold
        /\ consecutiveSuccesses <= streak
        /\ streak' = Saturate(streak, SuccessThreshold)
    BY <2>1, BreakerAssumption DEF Succeed, BreakerInv, TypeOK, SuccessesReported
  <2>4. QED
    BY <2>2, <2>3 DEF Saturate
<1>2. QED
  BY <1>1, BreakerInvariant, PTL DEF Spec, ClosesOnEvidence

-----------------------------------------------------------------------------
USE DEF breaker, vars, guards, callers, tally, wiredVars

(* Refinement: the variables of the breaker are the same, so the mapping   *)
(* is the identity and every action is one of CircuitBreaker or a stutter. *)

\* A step that leaves the breaker alone is a stutter of CircuitBreaker.
LEMMA StepRefines == [WiredNext]_wiredVars => [Next]_vars
<1> SUFFICES ASSUME [WiredNext]_wiredVars PROVE [Next]_vars
  OBVIOUS
<1>1. CASE \E t \in Order : OrderStep(t) \/ Retry(t)
  <2> PICK t \in Order : OrderStep(t) \/ Retry(t)
    BY <1>1
  <2>1. t \in Task
    BY DEF Order
  <2>2. CASE PassGate(t) \/ CheckOpen(t) \/ GiveUp(t) \/ Refused(t)
    BY <2>2 DEF PassGate, CheckOpen, GiveUp, Refused, Move
  <2>3. CASE Call(t)
    BY <2>1, <2>3 DEF Call, Next
  <2>4. CASE Retry(t)
    BY <2>1, <2>4 DEF Retry, Next
  <2> QED BY <2>2, <2>3, <2>4 DEF OrderStep
<1>2. CASE \E t \in Task : \/ CallUngated(t) \/ CallFails(t)
                           \/ CallSucceeds(t) \/ CallCancelled(t)
  BY <1>2 DEF CallUngated, CallFails, CallSucceeds, CallCancelled, Next
<1>3. CASE Wire \/ Activate \/ Deactivate
  BY <1>3 DEF Wire, Activate, Deactivate
<1>4. CASE ResetBreaker
  BY <1>4 DEF ResetBreaker, Next
<1>5. CASE TimePasses
  BY <1>5 DEF TimePasses, Next
<1>6. CASE UNCHANGED wiredVars
  BY <1>6
<1> QED BY <1>1, <1>2, <1>3, <1>4, <1>5, <1>6 DEF WiredNext

\* Whatever is proved of CircuitBreaker holds of the wired breaker.
LEMMA WiredIsBreaker == WiredSpec => Spec
<1>1. WiredInit => Init
  BY DEF WiredInit
<1>2. [WiredNext]_wiredVars => [Next]_vars
  BY StepRefines
<1> QED BY <1>1, <1>2, PTL DEF WiredSpec, Spec

\* The wired breaker, with its gated and ungated callers, keeps the promises of
\* the breaker by itself: few probes, budget when CLOSED, evidence for closing.
THEOREM WiredBreakerKeepsPromises ==
  WiredSpec => [](ProbeLimit /\ ClosedHasBudget) /\ ClosesOnEvidence
BY WiredIsBreaker, BreakerProbeLimit, BreakerClosedHasBudget,
   BreakerClosesOnEvidence, PTL

-----------------------------------------------------------------------------
(* The callback.  HaltInv is inductive: a breaker reported OPEN is a       *)
(* reason, and stays one until the handler hears that it is CLOSED; the    *)
(* flag is up unless somebody has deactivated it since.                    *)

HaltInv ==
  /\ state \in {"CLOSED", "OPEN", "HALF_OPEN"}
  /\ wired \in BOOLEAN /\ flag \in BOOLEAN /\ reason \in BOOLEAN
  /\ reported \in BOOLEAN /\ acked \in BOOLEAN
  /\ reported => reason /\ wired /\ state # "CLOSED"
  /\ reason /\ ~ acked => flag

\* What one call of _transition does to the invariant.
LEMMA NotifyKeeps ==
  ASSUME HaltInv, Notify, state' \in {"CLOSED", "OPEN", "HALF_OPEN"}
  PROVE  HaltInv'
BY DEF HaltInv, Notify, StateChangeHandler, HandleOpened, HandleClosed, Silent

\* The three places where a call changes the breaker's state.
LEMMA BreakerStates ==
  ASSUME HaltInv, NEW t,
         Admit(t) \/ Fail(t) \/ Succeed(t) \/ Cancel(t)
  PROVE  state' \in {"CLOSED", "OPEN", "HALF_OPEN"}
BY DEF HaltInv, Admit, AdmitClosed, AdmitFirstProbe,
       AdmitNextProbe, Fail, Succeed,
       SucceedHalfOpen, SucceedOtherwise, HalfOpenSuccess,
       Cancel, breaker

\* Every step either goes through Notify, or resets the breaker, or leaves its
\* state alone and moves the flag only by Activate and Deactivate.
LEMMA StepKinds ==
  ASSUME HaltInv, [WiredNext]_wiredVars
  PROVE  \/ Notify /\ state' \in {"CLOSED", "OPEN", "HALF_OPEN"}
         \/ ResetBreaker
         \/ UNCHANGED <<state, guards>>
         \/ state' = state /\ (Wire \/ Activate \/ Deactivate)
<1>1. CASE \E t \in Order : OrderStep(t) \/ Retry(t)
  <2> PICK t \in Order : OrderStep(t) \/ Retry(t)
    BY <1>1
  <2>1. CASE PassGate(t) \/ CheckOpen(t) \/ GiveUp(t) \/ Refused(t)
    BY <2>1 DEF PassGate, CheckOpen, GiveUp, Refused, Move
  <2>2. CASE Call(t)
    BY <2>2, BreakerStates DEF Call
  <2>3. CASE Retry(t)
    BY <2>3, BreakerStates DEF Retry
  <2> QED BY <2>1, <2>2, <2>3 DEF OrderStep
<1>2. CASE \E t \in Task : \/ CallUngated(t) \/ CallFails(t)
                           \/ CallSucceeds(t) \/ CallCancelled(t)
  BY <1>2, BreakerStates DEF CallUngated, CallFails, CallSucceeds, CallCancelled
<1>3. CASE Wire \/ Activate \/ Deactivate
  BY <1>3 DEF Wire, Activate, Deactivate
<1>4. CASE TimePasses
  BY <1>4 DEF TimePasses, Tick
<1>5. CASE ResetBreaker \/ UNCHANGED wiredVars
  BY <1>5
<1> QED BY <1>1, <1>2, <1>3, <1>4, <1>5 DEF WiredNext

LEMMA HaltInvStep == HaltInv /\ [WiredNext]_wiredVars => HaltInv'
<1> SUFFICES ASSUME HaltInv, [WiredNext]_wiredVars PROVE HaltInv'
  OBVIOUS
<1>1. CASE Notify /\ state' \in {"CLOSED", "OPEN", "HALF_OPEN"}
  BY <1>1, NotifyKeeps
<1>2. CASE ResetBreaker
  BY <1>2 DEF ResetBreaker, Reset, HaltInv
<1>3. CASE UNCHANGED <<state, guards>>
  BY <1>3 DEF HaltInv
<1>4. CASE state' = state /\ Wire
  BY <1>4 DEF Wire, HaltInv
<1>5. CASE state' = state /\ Activate
  BY <1>5 DEF Activate, HaltInv
<1>6. CASE state' = state /\ Deactivate
  BY <1>6 DEF Deactivate, HaltInv
<1> QED BY <1>1, <1>2, <1>3, <1>4, <1>5, <1>6, StepKinds

\* The halting invariant holds in every behaviour.
THEOREM HaltInvariant == WiredSpec => []HaltInv
<1>1. WiredInit => HaltInv
  BY DEF WiredInit, Init, HaltInv
<1> QED BY <1>1, HaltInvStep, PTL DEF WiredSpec

\* Trading is halted from the opening of a wired breaker to its closing.
THEOREM BrokenBreakerHalts == WiredSpec => []BrokenHalts
<1>1. HaltInv => BrokenHalts
  BY DEF HaltInv, BrokenHalts, Halted
<1> QED BY <1>1, HaltInvariant, PTL

\* It is an operator who lets trading resume.
THEOREM ResumeByOperator == WiredSpec => ResumeNeedsOperator
<1>1. HaltInv /\ [WiredNext]_wiredVars => [Halted /\ ~ Halted' => acked']_wiredVars
  <2> SUFFICES ASSUME HaltInv, [WiredNext]_wiredVars, Halted, ~ Halted'
               PROVE  acked'
    OBVIOUS
  <2>1. CASE Notify
    BY <2>1 DEF HaltInv, Halted, Notify, StateChangeHandler, HandleOpened,
                HandleClosed, Silent
  <2>2. CASE ResetBreaker
    BY <2>2 DEF ResetBreaker, Halted
  <2>3. CASE UNCHANGED <<state, guards>>
    BY <2>3 DEF Halted
  <2>4. CASE Wire \/ Activate \/ Deactivate
    BY <2>4 DEF Wire, Activate, Deactivate, Halted
  <2> QED BY <2>1, <2>2, <2>3, <2>4, StepKinds
<1> QED BY <1>1, HaltInvariant, PTL DEF WiredSpec, ResumeNeedsOperator
-----------------------------------------------------------------------------
(* Types.  Those of the breaker come from the refinement; those of the     *)
(* callers need one fact more: an order on its way has an attempt left.    *)

CallersTyped ==
  /\ wired \in BOOLEAN /\ flag \in BOOLEAN /\ reason \in BOOLEAN
  /\ phase \in [Order -> {"idle", "gated", "checked"}]
  /\ attempts \in [Order -> 0 .. MaxAttempts]
  /\ reported \in BOOLEAN /\ acked \in BOOLEAN
  /\ \A t \in Order : phase[t] # "idle" => attempts[t] < MaxAttempts

\* The callback keeps the types of the flag, the reason and the history.
LEMMA NotifyTyped ==
  ASSUME CallersTyped, Notify
  PROVE  /\ wired' \in BOOLEAN /\ flag' \in BOOLEAN /\ reason' \in BOOLEAN
         /\ reported' \in BOOLEAN /\ acked' \in BOOLEAN
BY DEF CallersTyped, Notify, StateChangeHandler, HandleOpened, HandleClosed, Silent

\* Every step keeps the types of the callers and of the flag.
LEMMA CallersStepTyped ==
  ASSUME CallersTyped, [WiredNext]_wiredVars
  PROVE  CallersTyped'
<1> USE KillSwitchAssumption
<1>1. ASSUME NEW t \in Order, OrderStep(t) PROVE CallersTyped'
  <2>1. CASE PassGate(t)
    BY <2>1 DEF PassGate, CallersTyped
  <2>2. CASE CheckOpen(t) \/ GiveUp(t) \/ Refused(t)
    BY <2>2 DEF CheckOpen, GiveUp, Refused, Move, CallersTyped
  <2>3. CASE Call(t)
    <3>1. /\ wired' \in BOOLEAN /\ flag' \in BOOLEAN /\ reason' \in BOOLEAN
          /\ reported' \in BOOLEAN /\ acked' \in BOOLEAN
      BY <2>3, NotifyTyped DEF Call
    <3> QED BY <2>3, <3>1 DEF Call, CallersTyped
  <2> QED BY <1>1, <2>1, <2>2, <2>3 DEF OrderStep
<1>2. ASSUME NEW t \in Order, Retry(t) PROVE CallersTyped'
  <2>1. /\ wired' \in BOOLEAN /\ flag' \in BOOLEAN /\ reason' \in BOOLEAN
        /\ reported' \in BOOLEAN /\ acked' \in BOOLEAN
    BY <1>2, NotifyTyped DEF Retry
  <2> QED BY <1>2, <2>1 DEF Retry, CallersTyped
<1>3. ASSUME NEW t \in Task,
             \/ CallUngated(t) \/ CallFails(t)
             \/ CallSucceeds(t) \/ CallCancelled(t)
      PROVE  CallersTyped'
  <2>1. Notify /\ UNCHANGED callers
    BY <1>3 DEF CallUngated, CallFails, CallSucceeds, CallCancelled
  <2> QED BY <2>1, NotifyTyped DEF CallersTyped
<1>4. CASE Wire \/ Activate \/ Deactivate
  BY <1>4 DEF Wire, Activate, Deactivate, CallersTyped
<1>5. CASE ResetBreaker \/ TimePasses \/ UNCHANGED wiredVars
  BY <1>5 DEF ResetBreaker, TimePasses, CallersTyped
<1> QED BY <1>1, <1>2, <1>3, <1>4, <1>5 DEF WiredNext

\* The initial state is well typed.
LEMMA CallersInit == WiredInit => CallersTyped
<1> SUFFICES ASSUME WiredInit PROVE CallersTyped
  OBVIOUS
<1>1. /\ phase \in [Order -> {"idle", "gated", "checked"}]
      /\ \A t \in Order : phase[t] = "idle"
  BY DEF WiredInit
<1>2. attempts \in [Order -> 0 .. MaxAttempts]
  BY KillSwitchAssumption DEF WiredInit
<1> QED BY <1>1, <1>2 DEF WiredInit, CallersTyped

-----------------------------------------------------------------------------
(* Orders under way when trading is halted.  What an order has called since *)
(* the halt and what it may still call never exceed what it had left then.  *)

TallyInv ==
  /\ name \in {"tbank", "tbank_orders"}
  /\ budget \in [Order -> 0 .. MaxAttempts]
  /\ late \in [Order -> 0 .. MaxAttempts]
  /\ Halted => \A t \in Order : late[t] + AttemptsLeft[t] <= budget[t]

\* The attempts left are a number of attempts.
LEMMA AttemptsLeftRange ==
  ASSUME CallersTyped
  PROVE  AttemptsLeft \in [Order -> 0 .. MaxAttempts]
<1>1. \A t \in Order : attempts[t] \in 0 .. MaxAttempts
  BY DEF CallersTyped
<1>2. \A t \in Order : MaxAttempts - attempts[t] \in 0 .. MaxAttempts
  BY <1>1, KillSwitchAssumption
<1> QED BY <1>2, KillSwitchAssumption DEF AttemptsLeft

\* The history is right as long as a step takes from the attempts left of every
\* order at least the calls it counts.
LEMMA WatchKeeps ==
  ASSUME TallyInv, CallersTyped, CallersTyped', NEW S \in SUBSET Order,
         Watch(S), UNCHANGED name,
         \/ ~ Halted
         \/ \A t \in Order : AttemptsLeft'[t] + (IF t \in S THEN 1 ELSE 0)
                               <= AttemptsLeft[t]
  PROVE  TallyInv'
<1> USE KillSwitchAssumption
<1>1. /\ AttemptsLeft \in [Order -> 0 .. MaxAttempts]
      /\ AttemptsLeft' \in [Order -> 0 .. MaxAttempts]
  <2>1. AttemptsLeft \in [Order -> 0 .. MaxAttempts]
    BY AttemptsLeftRange
  <2>2. CallersTyped => AttemptsLeft \in [Order -> 0 .. MaxAttempts]
    BY AttemptsLeftRange
  <2>3. (CallersTyped => AttemptsLeft \in [Order -> 0 .. MaxAttempts])'
    BY AttemptsLeftRange, PTL
  <2> QED BY <2>1, <2>3
<1>2. CASE Halted /\ Halted'
  <2>1. /\ late' = [t \in Order |-> IF t \in S THEN late[t] + 1 ELSE late[t]]
        /\ budget' = budget
    BY <1>2 DEF Watch
  <2>2. ASSUME NEW t \in Order
        PROVE  /\ late'[t] \in 0 .. MaxAttempts
               /\ late'[t] + AttemptsLeft'[t] <= budget'[t]
    <3>1. /\ late[t] \in 0 .. MaxAttempts /\ budget[t] \in 0 .. MaxAttempts
          /\ late[t] + AttemptsLeft[t] <= budget[t]
      BY <1>2 DEF TallyInv
    <3>2. /\ AttemptsLeft[t] \in 0 .. MaxAttempts
          /\ AttemptsLeft'[t] \in 0 .. MaxAttempts
      BY <1>1
    <3>3. AttemptsLeft'[t] + (IF t \in S THEN 1 ELSE 0) <= AttemptsLeft[t]
      BY <1>2
    <3>4. late'[t] = IF t \in S THEN late[t] + 1 ELSE late[t]
      BY <2>1
    <3> QED BY <2>1, <3>1, <3>2, <3>3, <3>4
  <2>3. late' \in [Order -> 0 .. MaxAttempts]
    BY <2>1, <2>2
  <2> QED BY <1>2, <2>1, <2>2, <2>3 DEF TallyInv
<1>3. CASE ~ (Halted /\ Halted')
  <2>1. late' = [t \in Order |-> 0] /\ budget' = AttemptsLeft'
    BY <1>3 DEF Watch
  <2>2. \A t \in Order : late'[t] + AttemptsLeft'[t] <= budget'[t]
    BY <1>1, <2>1
  <2> QED BY <1>1, <2>1, <2>2 DEF TallyInv
<1> QED BY <1>2, <1>3

\* A step that moves no order and lets no order call takes no attempts; one that
\* ends calls may take them all.
LEMMA QuietKeeps ==
  ASSUME TallyInv, CallersTyped, CallersTyped', Watch({}), UNCHANGED callers,
         running' \cap Order \subseteq running
  PROVE  TallyInv'
<1>1. AttemptsLeft \in [Order -> 0 .. MaxAttempts]
  BY AttemptsLeftRange
<1>2. ASSUME NEW t \in Order PROVE AttemptsLeft'[t] <= AttemptsLeft[t]
  <2>1. AttemptsLeft[t] \in 0 .. MaxAttempts
    BY <1>1
  <2>2. AttemptsLeft'[t] \in {0, AttemptsLeft[t]}
    BY DEF AttemptsLeft
  <2> QED BY <2>1, <2>2, KillSwitchAssumption
<1>3. \A t \in Order : AttemptsLeft'[t] + (IF t \in {} THEN 1 ELSE 0) <= AttemptsLeft[t]
  <2>1. \A t \in Order : AttemptsLeft'[t] \in Nat
    <3>1. (CallersTyped => AttemptsLeft \in [Order -> 0 .. MaxAttempts])'
      BY AttemptsLeftRange, PTL
    <3> QED BY <3>1, KillSwitchAssumption
  <2> QED BY <1>2, <2>1
<1> QED BY <1>3, WatchKeeps

\* Every step keeps the history right.
LEMMA TallyStep ==
  ASSUME TallyInv, CallersTyped, CallersTyped', [WiredNext]_wiredVars
  PROVE  TallyInv'
<1> USE KillSwitchAssumption
<1>1. /\ AttemptsLeft \in [Order -> 0 .. MaxAttempts]
      /\ \A t \in Order : attempts[t] \in 0 .. MaxAttempts
  BY AttemptsLeftRange DEF CallersTyped
<1>2. ASSUME NEW t \in Order, PassGate(t) PROVE TallyInv'
  BY <1>2, WatchKeeps DEF PassGate
<1>3. ASSUME NEW t \in Order, NEW where, phase[t] # "idle", Move(t, where)
      PROVE  TallyInv'
  <2>1. ASSUME NEW u \in Order
        PROVE  AttemptsLeft'[u] + (IF u \in {} THEN 1 ELSE 0) <= AttemptsLeft[u]
    <3>1. AttemptsLeft'[u] \in {0, AttemptsLeft[u]}
      BY <1>3 DEF Move, AttemptsLeft, CallersTyped
    <3> QED BY <1>1, <3>1
  <2> QED BY <1>3, <2>1, WatchKeeps DEF Move
<1>4. ASSUME NEW t \in Order, Call(t) PROVE TallyInv'
  <2>1. running' = running \cup {t}
    BY <1>4 DEF Call, Admit
  <2>2. ASSUME NEW u \in Order
        PROVE  AttemptsLeft'[u] + (IF u \in {t} THEN 1 ELSE 0) <= AttemptsLeft[u]
    <3>1. CASE u = t
      <4>1. /\ AttemptsLeft[t] = MaxAttempts - attempts[t]
            /\ AttemptsLeft'[t] = MaxAttempts - (attempts[t] + 1)
        BY <1>4, <2>1 DEF Call, AttemptsLeft, CallersTyped
      <4> QED BY <1>1, <3>1, <4>1
    <3>2. CASE u # t
      <4>1. AttemptsLeft'[u] = AttemptsLeft[u]
        BY <1>4, <2>1, <3>2 DEF Call, AttemptsLeft, CallersTyped
      <4> QED BY <1>1, <3>2, <4>1
    <3> QED BY <3>1, <3>2
  <2>3. Watch({t}) /\ UNCHANGED name
    BY <1>4 DEF Call
  <2> QED BY <2>2, <2>3, WatchKeeps
<1>5. ASSUME NEW t \in Order, Retry(t) PROVE TallyInv'
  <2>1. t \in running /\ running' = running \ {t}
    BY <1>5 DEF Retry, Fail, Return
  <2>2. ASSUME NEW u \in Order
        PROVE  AttemptsLeft'[u] + (IF u \in {} THEN 1 ELSE 0) <= AttemptsLeft[u]
    <3>1. AttemptsLeft'[u] = AttemptsLeft[u]
      BY <1>5, <2>1 DEF Retry, AttemptsLeft, CallersTyped
    <3> QED BY <1>1, <3>1
  <2>3. Watch({}) /\ UNCHANGED name
    BY <1>5 DEF Retry
  <2> QED BY <2>2, <2>3, WatchKeeps
<1>6. ASSUME NEW t \in Task,
             \/ CallUngated(t) \/ CallFails(t)
             \/ CallSucceeds(t) \/ CallCancelled(t)
      PROVE  TallyInv'
  <2>1. running' \cap Order \subseteq running
    BY <1>6 DEF CallUngated, CallFails, CallSucceeds, CallCancelled, Order, Admit,
                Fail, Succeed, Cancel, Return
  <2>2. Watch({}) /\ UNCHANGED callers
    BY <1>6 DEF CallUngated, CallFails, CallSucceeds, CallCancelled
  <2> QED BY <2>1, <2>2, QuietKeeps
<1>7. CASE Wire \/ Activate \/ Deactivate \/ ResetBreaker \/ TimePasses
  <2>1. Watch({}) /\ UNCHANGED callers /\ UNCHANGED running
    BY <1>7 DEF Wire, Activate, Deactivate, ResetBreaker, TimePasses, Reset, Tick
  <2> QED BY <2>1, QuietKeeps
<1>8. CASE UNCHANGED wiredVars
  BY <1>8 DEF TallyInv, Halted, AttemptsLeft
<1>9. ASSUME NEW t \in Order, OrderStep(t) PROVE TallyInv'
  BY <1>9, <1>2, <1>3, <1>4 DEF OrderStep, CheckOpen, GiveUp, Refused
<1> QED BY <1>5, <1>6, <1>7, <1>8, <1>9 DEF WiredNext

\* Types and history together are an inductive invariant.
THEOREM TallyInvariant == WiredSpec => [](CallersTyped /\ TallyInv)
<1>1. WiredInit => TallyInv
  BY KillSwitchAssumption DEF WiredInit, Init, TallyInv, Halted
<1>2. CallersTyped /\ TallyInv /\ [WiredNext]_wiredVars => (CallersTyped /\ TallyInv)'
  BY CallersStepTyped, TallyStep
<1> QED BY CallersInit, <1>1, <1>2, PTL DEF WiredSpec

\* A halt stops everything but the attempts left to the orders under way.
THEOREM LateCallsStayBounded == WiredSpec => []LateCallsBounded
<1>1. CallersTyped /\ TallyInv => LateCallsBounded
  <2> SUFFICES ASSUME CallersTyped, TallyInv, Halted, NEW t \in Order
               PROVE  late[t] <= budget[t]
    BY DEF LateCallsBounded
  <2>1. /\ late[t] \in 0 .. MaxAttempts /\ budget[t] \in 0 .. MaxAttempts
        /\ late[t] + AttemptsLeft[t] <= budget[t]
    BY DEF TallyInv
  <2>2. AttemptsLeft[t] \in 0 .. MaxAttempts
    BY AttemptsLeftRange
  <2> QED BY <2>1, <2>2, KillSwitchAssumption
<1> QED BY <1>1, TallyInvariant, PTL

\* Type correctness of the wired breaker and its callers: in particular no order
\* makes more attempts than it is allowed, whatever fails and retries.
THEOREM KillSwitchTypeOK == WiredSpec => []WiredTypeOK
<1>1. WiredSpec => []TypeOK
  BY WiredIsBreaker, BreakerTypeOK, PTL
<1>2. TypeOK /\ CallersTyped /\ TallyInv => WiredTypeOK
  BY DEF CallersTyped, TallyInv, WiredTypeOK
<1> QED BY <1>1, <1>2, TallyInvariant, PTL

-----------------------------------------------------------------------------
(* Dead ends.  No caller gets past a breaker whose slots are spent, and    *)
(* none that looks first reaches an open one.                              *)

\* Without a running call and without a call admitted nothing but reset moves
\* the breaker or the orders past their look.
LEMMA DeadEndStays ==
  ASSUME BreakerInv, DeadEnd, [WiredNext]_wiredVars, ~ Reset
  PROVE  DeadEnd'
<1>1. running = {} /\ state \in {"OPEN", "HALF_OPEN"}
  BY DEF DeadEnd, SlotsSpent, Unprobed
<1>2. ASSUME NEW t, Fail(t) \/ Succeed(t) \/ Cancel(t) PROVE FALSE
  BY <1>1, <1>2 DEF Fail, Succeed, Cancel, Return
<1>3. ASSUME SlotsSpent, NEW t, Admit(t) PROVE FALSE
  BY <1>3, BreakerAssumption
     DEF SlotsSpent, Admit, AdmitClosed, AdmitFirstProbe, AdmitNextProbe,
         BreakerInv, TypeOK
<1>4. CASE \E t \in Order : OrderStep(t) \/ Retry(t)
  <2> PICK t \in Order : OrderStep(t) \/ Retry(t)
    BY <1>4
  <2>1. ~ Retry(t)
    BY <1>2 DEF Retry
  <2>2. CASE Call(t)
    BY <1>3, <2>2 DEF Call, DeadEnd, Unprobed
  <2>3. CASE PassGate(t)
    BY <2>3 DEF PassGate, DeadEnd, SlotsSpent, Unprobed
  <2>4. CASE CheckOpen(t)
    BY <2>4 DEF CheckOpen, Move, DeadEnd, SlotsSpent, Unprobed
  <2>5. CASE GiveUp(t) \/ Refused(t)
    BY <2>5 DEF GiveUp, Refused, Move, DeadEnd, SlotsSpent, Unprobed
  <2> QED BY <2>1, <2>2, <2>3, <2>4, <2>5 DEF OrderStep
<1>5. CASE \E t \in Task : \/ CallUngated(t) \/ CallFails(t)
                           \/ CallSucceeds(t) \/ CallCancelled(t)
  BY <1>5, <1>2, <1>3
     DEF CallUngated, CallFails, CallSucceeds, CallCancelled, DeadEnd, Unprobed
<1>6. CASE Wire \/ Activate \/ Deactivate \/ UNCHANGED wiredVars
  BY <1>6 DEF Wire, Activate, Deactivate, DeadEnd, SlotsSpent, Unprobed
<1>7. CASE ResetBreaker
  BY <1>7 DEF ResetBreaker
<1>8. CASE TimePasses
  BY <1>8 DEF TimePasses, Tick, DeadEnd, SlotsSpent, Unprobed
<1> QED BY <1>4, <1>5, <1>6, <1>7, <1>8 DEF WiredNext

\* Only reset() ends a dead end.
THEOREM DeadEndsAreFinal == WiredSpec => DeadEndIsFinal
<1>1. BreakerInv /\ [WiredNext]_wiredVars => [DeadEnd => DeadEnd' \/ Reset]_wiredVars
  BY DeadEndStays
<1>2. WiredSpec => []BreakerInv
  BY WiredIsBreaker, BreakerInvariant, PTL
<1> QED BY <1>1, <1>2, PTL DEF WiredSpec, DeadEndIsFinal
=============================================================================
