--------------------------- MODULE PositionTracker ---------------------------
(***************************************************************************)
(* src/trading/execution/stoploss.py: what the process believes it holds,  *)
(* with its stop-loss and take-profit levels; the orders of engine.py that *)
(* change it; and _check_stop_losses of loop.py, which sells when a level  *)
(* is passed.  What the broker holds is another matter: simulated orders,  *)
(* statuses the code does not know, remainders filled later and restarts   *)
(* drive the two apart, and nothing in the code brings them together.      *)
(*                                                                         *)
(* Other coroutines (requests, approvals, signals) place orders while the  *)
(* check waits for the order it has placed.  An order's own steps are in   *)
(* OrderExecution.tla: here an order is its outcome.                       *)
(*                                                                         *)
(* Prices, average prices and levels are only compared with each other:    *)
(* a position is "armed" when it has levels (set_sl_tp sets both) and      *)
(* "hit" while the latest price is beyond one of them.                     *)
(***************************************************************************)
EXTENDS Integers, FiniteSets

CONSTANTS
  Ticker,
  Order,     \* what users and signals order: [ticker, direction, quantity]
  MaxShares, \* bound: shares of one position
  NoExit     \* the stop check waits for no order

Side == {"long", "short"}
Direction == {"BUY", "SELL", "SHORT", "COVER"}

ASSUME TrackerAssumption ==
  /\ IsFiniteSet(Ticker)
  /\ MaxShares \in Nat
  /\ Order \subseteq [ticker : Ticker, direction : Direction, quantity : Nat \ {0}]
  /\ NoExit \notin [ticker : Ticker, shares : Nat, mode : {"manual", "auto"}]

VARIABLES
  mode,   \* _mode of the engine
  halted, \* kill switch on, trading disabled or market closed
  pos,    \* _positions and _short_positions: pos[side][ticker]
  rows,   \* tickers with a filled or partial row in the orders table
  left,   \* tickers the running stop check has still to look at
  seen,   \* positions beyond a level at the prices it has read
  exit    \* the order it waits for

check == <<left, seen, exit>>
vars == <<mode, halted, pos, rows, check>>

Mode == {"dry_run", "manual", "auto"}
Position == [shares : 0 .. MaxShares, stop : {"none", "armed", "hit"}]
Empty == [shares |-> 0, stop |-> "none"]

TypeOK ==
  /\ mode \in Mode
  /\ halted \in BOOLEAN
  /\ pos \in [Side -> [Ticker -> Position]]
  /\ rows \subseteq Ticker
  /\ left \subseteq Ticker
  /\ seen \subseteq left \X Side
  /\ exit \in [ticker : Ticker, shares : 1 .. MaxShares, mode : {"manual", "auto"}]
              \cup {NoExit}

Init ==
  /\ mode = "dry_run"
  /\ halted = FALSE
  /\ pos = [s \in Side |-> [t \in Ticker |-> Empty]]
  /\ rows = {}
  /\ left = {}
  /\ seen = {}
  /\ exit = NoExit

-----------------------------------------------------------------------------
(* The operations of PositionTracker: the position after each of them.     *)

Bought(p, q) == [p EXCEPT !.shares = @ + q]

\* Mutant: a position that is sold out keeps its levels.
ReducedNotPopped(p, q) == [p EXCEPT !.shares = IF q < @ THEN @ - q ELSE 0]

\* Never below zero; a position without shares is removed, levels and all.
Reduced(p, q) == IF q < p.shares THEN [p EXCEPT !.shares = @ - q] ELSE Empty

\* set_sl_tp: new levels around the average price.  (If the latest price is
\* beyond one of them already, Move is the next step.)
Armed(p) == IF p = Empty THEN p ELSE [p EXCEPT !.stop = "armed"]

Long(t, p) == [pos EXCEPT !["long"][t] = p]
Short(t, p) == [pos EXCEPT !["short"][t] = p]

\* The branches of a simulated order, and of the two fallbacks when the broker's
\* circuit breaker is open.  A short sale also reduces the long position.
Booked(t, direction, q) ==
  CASE direction = "BUY" -> Long(t, Bought(pos["long"][t], q))
    [] direction = "SELL" -> Long(t, Reduced(pos["long"][t], q))
    [] direction = "SHORT" ->
         [pos EXCEPT !["long"][t] = Reduced(@, q), !["short"][t] = Bought(@, q)]
    [] direction = "COVER" -> Short(t, Reduced(pos["short"][t], q))

\* Bound on shares.
Room(t, direction, q) ==
  /\ direction = "BUY" => pos["long"][t].shares + q <= MaxShares
  /\ direction = "SHORT" => pos["short"][t].shares + q <= MaxShares

-----------------------------------------------------------------------------
(* Outcomes of an order.                                                   *)

\* The broker executed nothing, or (its breaker opened after it took the order)
\* something; the tracker books all of it.
Simulated(t, direction, q) ==
  /\ Room(t, direction, q)
  /\ pos' = Booked(t, direction, q)
  /\ UNCHANGED <<rows, seen>>

\* Prices the running check has read may lie on either side of new levels.
SeenAnew(t) ==
  IF t \in left
  THEN \E s \in SUBSET Side :
         seen' = {x \in seen : x[1] # t} \cup {<<t, side>> : side \in s}
  ELSE UNCHANGED seen

\* k shares are executed and the client calls it "filled" or "partial": they are
\* booked; both positions of the ticker get levels; save_order adds the row, or
\* fails.  Nobody asks the broker again: a remainder it fills later changes
\* nothing here.  (The levels that _persist_sl_tp writes to older rows are read
\* by nobody.)
Filled(t, direction, k) ==
  /\ Room(t, direction, k)
  /\ pos' = [Booked(t, direction, k) EXCEPT !["long"][t] = Armed(@),
                                             !["short"][t] = Armed(@)]
  /\ SeenAnew(t)
  /\ rows' \in {rows, rows \cup {t}}

\* The broker has the order and the tracker never hears of it: the reply is lost,
\* or its status is any other word, as T-Bank's raw ones are, and the row is
\* saved with it; or the reply says "filled" and has no price, which raises
\* after the status is set, and the row is saved as filled.
Unbooked(t) ==
  /\ rows' \in {rows, rows \cup {t}}
  /\ UNCHANGED <<pos, seen>>

\* Rejected or failed.
NotExecuted == UNCHANGED <<pos, rows, seen>>

\* An order for the broker.  The risk gate rejects it while trading is halted,
\* and raises a TypeError for a short one.
Sent(t, direction, q) ==
  \/ NotExecuted
  \/ /\ ~ halted
     /\ direction \in {"BUY", "SELL"}
     /\ \/ Simulated(t, direction, q)
        \/ \E k \in 1 .. q : Filled(t, direction, k)
        \/ Unbooked(t)

\* Orders of requests, signals and approvals.  An approval is sent to the broker
\* in any mode; an order in manual mode only waits.
PlaceOrder(o) ==
  /\ \/ mode = "dry_run" /\ Simulated(o.ticker, o.direction, o.quantity)
     \/ Sent(o.ticker, o.direction, o.quantity)
  /\ UNCHANGED <<mode, halted, left, exit>>

-----------------------------------------------------------------------------
(* _check_stop_losses                                                      *)

\* The tickers of all filled rows, and their latest prices, in one session.
ReadPrices ==
  /\ ~ halted
  /\ left = {} /\ exit = NoExit
  /\ rows # {}
  /\ left' = rows
  /\ seen' = {x \in rows \X Side : pos[x[2]][x[1]].stop = "hit"}
  /\ UNCHANGED <<mode, halted, pos, rows, exit>>

\* check_triggers with the price read before: the long position comes first.
Triggered(t, side) ==
  /\ pos[side][t].stop # "none"
  /\ <<t, side>> \in seen
LongTriggered(t) == Triggered(t, "long")
ShortTriggered(t) == Triggered(t, "short") /\ ~ LongTriggered(t)

\* Mutant: "return" for "continue": one ticker ends the check.
DoneWithAll(t) == left' = {} /\ seen' = {}

\* The check is done with a ticker.
Done(t) == left' = left \ {t} /\ seen' = {x \in seen : x[1] # t}

\* execute_triggers for one ticker.  (A ticker with several rows is looked at
\* once for each; that is the same as looking at it in the next check.)
NothingTriggered(t) ==
  /\ ~ LongTriggered(t) /\ ~ ShortTriggered(t)
  /\ Done(t)
  /\ UNCHANGED <<pos, rows, exit>>

\* In dry-run mode the order is booked at once.
SimulateExit(t) ==
  /\ mode = "dry_run"
  /\ LongTriggered(t) \/ ShortTriggered(t)
  /\ pos' = IF LongTriggered(t)
            THEN Booked(t, "SELL", pos["long"][t].shares)
            ELSE Booked(t, "COVER", pos["short"][t].shares)
  /\ Done(t)
  /\ UNCHANGED <<rows, exit>>

AskExit(t) ==
  /\ mode # "dry_run"
  /\ LongTriggered(t)
  /\ exit' = [ticker |-> t, shares |-> pos["long"][t].shares, mode |-> mode]
  /\ Done(t)
  /\ UNCHANGED <<pos, rows>>

\* The gate's TypeError leaves execute_triggers and the loop over the tickers:
\* the rest of the check is lost.
ExitRaises(t) ==
  /\ mode # "dry_run"
  /\ ShortTriggered(t)
  /\ left' = {} /\ seen' = {}
  /\ UNCHANGED <<pos, rows, exit>>

LookAt(t) ==
  /\ t \in left
  /\ exit = NoExit
  /\ NothingTriggered(t) \/ SimulateExit(t) \/ AskExit(t) \/ ExitRaises(t)
  /\ UNCHANGED <<mode, halted>>

\* The order comes back: in manual mode it waits for approval, and the next
\* check will ask again.
ExitReturns ==
  /\ exit # NoExit
  /\ IF exit.mode = "manual" THEN NotExecuted
     ELSE Sent(exit.ticker, "SELL", exit.shares)
  /\ exit' = NoExit
  /\ UNCHANGED <<mode, halted, left>>

-----------------------------------------------------------------------------

\* A price passes a level, or comes back.
Move(t, side) ==
  /\ pos[side][t].stop # "none"
  /\ pos' = [pos EXCEPT ![side][t].stop = IF @ = "hit" THEN "armed" ELSE "hit"]
  /\ UNCHANGED <<mode, halted, rows, check>>

SetMode(m) ==
  /\ mode' = m
  /\ UNCHANGED <<halted, pos, rows, check>>

SetHalted(b) ==
  /\ halted' = b
  /\ UNCHANGED <<mode, pos, rows, check>>

\* _table_exists passes a plain string to execute(), which SQLAlchemy 2 refuses
\* and the method takes for a missing table: nothing is restored.
Restart ==
  /\ mode' = "dry_run"
  /\ pos' = [s \in Side |-> [t \in Ticker |-> Empty]]
  /\ left' = {} /\ seen' = {} /\ exit' = NoExit
  /\ UNCHANGED <<halted, rows>>

CheckStops == ReadPrices \/ (\E t \in Ticker : LookAt(t)) \/ ExitReturns

Next ==
  \/ CheckStops
  \/ \E o \in Order : PlaceOrder(o)
  \/ \E t \in Ticker, side \in Side : Move(t, side)
  \/ \E m \in Mode : SetMode(m)
  \/ \E b \in BOOLEAN : SetHalted(b)
  \/ Restart

Spec == Init /\ [][Next]_vars

(***************************************************************************)
(* Fairness: the loop comes round, its queries and its orders end (every   *)
(* HTTP client has a timeout).  Nothing makes orders succeed.              *)
(***************************************************************************)
FairSpec == Spec /\ WF_vars(CheckStops)

-----------------------------------------------------------------------------
(* Properties.                                                             *)

\* Levels never outlive their position: without shares a position has no
\* levels, so a position opened later is not sold by the levels of an earlier
\* one (update, l.77-81; cover_short, l.99-101).
NoStopsWithoutShares ==
  \A t \in Ticker, s \in Side : pos[s][t].shares = 0 => pos[s][t].stop = "none"

\* A short position whose level is passed makes the whole check fail, in every
\* mode but dry_run.
CheckFails ==
  /\ mode # "dry_run"
  /\ \E t \in rows : pos["short"][t].stop = "hit" \/ <<t, "short">> \in seen

Waiting(t) == t \in rows /\ pos["long"][t].stop = "hit"
Asked(t) == exit # NoExit /\ exit.ticker = t

\* A long position whose level stays passed is sold, or at least its sale is
\* ordered, unless trading is halted, no row of it was saved, or a short position
\* makes the check fail (_check_stop_losses, l.404-446).
StopIsServed ==
  \A t \in Ticker : Waiting(t) ~> ~ Waiting(t) \/ Asked(t) \/ halted \/ CheckFails
=============================================================================
