----------------------------- MODULE DayGuards -----------------------------
(***************************************************************************)
(* src/trading/risk/guards.py: the daily-loss and drawdown guards, as the  *)
(* execution loop drives them (src/trading/execution/loop.py,              *)
(* _check_daily_pnl and run_execution_loop).                               *)
(*                                                                         *)
(* Each function of guards.py holds _thread_lock, so calls are atomic and  *)
(* other threads run in between.  The portfolio's value changes at any     *)
(* time.  Values are whole numbers, the limits are percentages.            *)
(***************************************************************************)
EXTENDS Integers

CONSTANTS
  Value,     \* what the portfolio may be worth
  Balance,   \* day_start_balance, or 1,000,000: settings may change it
  LossLimit, \* _daily_loss_limit, in percent
  Drawdown,  \* _max_drawdown_pct, in percent
  MaxEvents  \* bound: starts, deaths and operators' interventions

ASSUME GuardAssumption ==
  /\ Value \subseteq Nat /\ Value # {}
  /\ Balance \subseteq Nat /\ Balance # {}
  /\ LossLimit \in Nat /\ Drawdown \in Nat
  /\ MaxEvents \in Nat

VARIABLES
  value,    \* the portfolio's value at current prices
  kill,     \* is_kill_switch_active()
  dayStart, \* _day_start_value, 0 before the first start_day
  dayValue, \* _current_day_value
  peak,     \* _peak_value; 0 stands for None, which is treated alike
  stage,    \* where the loop's turn is
  measured, \* its current_value
  oldPnl,   \* its pnl, read before the new value is stored
  high,     \* history: the highest value measured since the process started
  cleared,  \* history: an operator has lifted the halt during this turn
  losing,   \* history: turns in a row that traded at a loss beyond the limit
  events

guards == <<kill, dayStart, dayValue, peak>>
turn == <<stage, measured, oldPnl>>
history == <<high, cleared, losing, events>>
guardVars == <<value, guards, turn, history>>

Stage == {"off", "sleep", "measure", "store", "drawdown", "loss", "ask", "trade"}

GuardTypeOK ==
  /\ value \in Value
  /\ kill \in BOOLEAN
  /\ dayStart \in Balance \cup {0}
  /\ dayValue \in Value \cup Balance \cup {0}
  /\ peak \in Value \cup {0}
  /\ stage \in Stage
  /\ measured \in Value \cup {0}
  /\ oldPnl \in Int
  /\ high \in Value \cup {0}
  /\ cleared \in BOOLEAN
  /\ losing \in 0 .. 2
  /\ events \in 0 .. MaxEvents

GuardInit ==
  /\ value \in Value
  /\ kill = FALSE
  /\ dayStart = 0 /\ dayValue = 0 /\ peak = 0
  /\ stage = "off" /\ measured = 0 /\ oldPnl = 0
  /\ high = 0 /\ cleared = FALSE /\ losing = 0 /\ events = 0

Event == events < MaxEvents /\ events' = events + 1

\* More than limit percent of base are lost; nothing is measured against 0.
LossBeyond(limit, base, pnl) == base > 0 /\ 100 * pnl < 0 - limit * base

-----------------------------------------------------------------------------
(* The loop.                                                               *)

\* Mutant: a start of the loop is also a new start of the drawdown.
StartDayAnew(b) == dayStart' = b /\ dayValue' = b /\ peak' = 0 /\ UNCHANGED kill

\* start_day is called when the loop starts, and at no other time.
StartDay(b) == dayStart' = b /\ dayValue' = b /\ UNCHANGED <<kill, peak>>

\* run_execution_loop up to its first turn.
StartLoop ==
  /\ stage = "off"
  /\ Event
  /\ \E b \in Balance : StartDay(b)
  /\ stage' = "sleep"
  /\ losing' = 0
  /\ UNCHANGED <<value, measured, oldPnl, high, cleared>>

\* A turn begins, unless the exchange is closed.
WakeUp ==
  /\ stage = "sleep"
  /\ stage' = "measure"
  /\ cleared' = FALSE
  /\ UNCHANGED <<value, guards, measured, oldPnl, high, losing, events>>

\* Mutant: a failed reading is treated as an empty turn, and trading goes on.
MeasureFailsAsk == stage' = "ask" /\ UNCHANGED <<measured, oldPnl, high>>

\* An exception in the database ends the turn.
MeasureFails == stage' = "sleep" /\ UNCHANGED <<measured, oldPnl, high>>

\* The rows are read; get_day_pnl still returns the value of the last turn.
Measure ==
  /\ measured' = value
  /\ oldPnl' = dayValue - dayStart
  /\ high' = IF value > high THEN value ELSE high
  /\ stage' = "store"

CheckDailyPnl ==
  /\ stage = "measure"
  /\ Measure \/ MeasureFails
  /\ UNCHANGED <<value, guards, cleared, losing, events>>

\* Mutant: the day's profit is stored for its value.
UpdateDayValuePnl ==
  /\ stage = "store"
  /\ dayValue' = measured - dayStart
  /\ stage' = "drawdown"
  /\ UNCHANGED <<value, kill, dayStart, peak, measured, oldPnl, history>>

UpdateDayValue ==
  /\ stage = "store"
  /\ dayValue' = measured
  /\ stage' = "drawdown"
  /\ UNCHANGED <<value, kill, dayStart, peak, measured, oldPnl, history>>

NewPeak(v) == IF v > peak THEN v ELSE peak

UpdateDrawdown ==
  /\ stage = "drawdown"
  /\ peak' = NewPeak(measured)
  /\ kill' = (kill \/ LossBeyond(Drawdown, peak', measured - peak'))
  /\ stage' = "loss"
  /\ UNCHANGED <<value, dayStart, dayValue, measured, oldPnl, history>>

\* Mutant: the guard warns only.
CheckDailyLossWarns == UNCHANGED kill

CheckDailyLoss == kill' = (kill \/ LossBeyond(LossLimit, dayStart, oldPnl))

JudgeDay ==
  /\ stage = "loss"
  /\ CheckDailyLoss
  /\ stage' = "ask"
  /\ UNCHANGED <<value, dayStart, dayValue, peak, measured, oldPnl, history>>

\* The loop asks for the kill switch once, in front of signals, stop-losses and
\* rebalancing; enable_trading may be off.
Ask ==
  /\ stage = "ask"
  /\ \/ ~ kill /\ stage' = "trade"
     \/ stage' = "sleep"
  /\ losing' = IF stage' = "sleep" THEN losing
               ELSE IF ~ LossBeyond(LossLimit, dayStart, measured - dayStart) THEN 0
               ELSE IF losing < 2 THEN losing + 1 ELSE 2
  /\ UNCHANGED <<value, guards, measured, oldPnl, high, cleared, events>>

\* The orders are out, or an exception ends the turn.
EndTurn ==
  /\ stage = "trade"
  /\ stage' = "sleep"
  /\ UNCHANGED <<value, guards, measured, oldPnl, history>>

\* stop(): the coroutine ends before its next turn, the globals stay.
StopLoop ==
  /\ stage = "sleep"
  /\ stage' = "off"
  /\ UNCHANGED <<value, guards, measured, oldPnl, history>>

GuardedTurn ==
  \/ WakeUp \/ CheckDailyPnl \/ UpdateDayValue \/ UpdateDrawdown \/ JudgeDay
  \/ Ask \/ EndTurn

-----------------------------------------------------------------------------
(* The others.                                                             *)

Market == value' \in Value /\ UNCHANGED <<guards, turn, history>>

\* An operator, or a breaker that opens.
Activate ==
  /\ ~ kill
  /\ Event
  /\ kill' = TRUE
  /\ UNCHANGED <<value, dayStart, dayValue, peak, turn, high, cleared, losing>>

Deactivate ==
  /\ kill
  /\ Event
  /\ kill' = FALSE
  /\ cleared' = TRUE
  /\ losing' = 0
  /\ UNCHANGED <<value, dayStart, dayValue, peak, turn, high>>

\* The process dies and comes back: guards and halt are forgotten.
Die ==
  /\ Event
  /\ kill' = FALSE
  /\ dayStart' = 0 /\ dayValue' = 0 /\ peak' = 0
  /\ stage' = "off" /\ measured' = 0 /\ oldPnl' = 0
  /\ high' = 0 /\ cleared' = FALSE /\ losing' = 0
  /\ UNCHANGED value

GuardNext ==
  \/ GuardedTurn \/ StartLoop \/ StopLoop
  \/ Market \/ Activate \/ Deactivate \/ Die

GuardSpec == GuardInit /\ [][GuardNext]_guardVars

\* The event loop runs the coroutine on.
FairGuardSpec == GuardSpec /\ WF_guardVars(GuardedTurn)

-----------------------------------------------------------------------------
(* Properties.                                                             *)

\* A turn that measures a value beyond the allowed drawdown from the highest
\* value measured since the process started places no order, unless an operator
\* lifts the halt between the check and the question; stopping and starting the
\* loop does not forget the peak (update_drawdown; loop.py l.484, l.587).
DrawdownStopsTurn ==
  stage = "trade" /\ LossBeyond(Drawdown, high, measured - high) => cleared

\* The daily-loss guard is late by one turn and no more: of two turns in a row
\* that trade, the second did not measure a loss beyond the limit if the first
\* did, unless an operator or a restart intervened (loop.py l.482-485).
LossStopsNextTurn == losing <= 1

\* The portfolio is below the daily limit, or the allowed drawdown, at this
\* moment.
Beyond ==
  \/ LossBeyond(LossLimit, dayStart, value - dayStart)
  \/ LossBeyond(Drawdown, high, value - high)

\* A portfolio that stays beyond one limit or the other (a start of the day that
\* is out of date, a peak long past) is not traded for ever: interventions
\* ended, the orders stop (loop.py l.482-485, l.587).
LossHaltsForGood ==
  <>[](stage # "off" /\ Beyond) => <>[](stage # "trade")
=============================================================================
