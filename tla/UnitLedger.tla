----------------------------- MODULE UnitLedger -----------------------------
(***************************************************************************)
(* What src/trading/tax/reporter.py promises of its lots, unit by unit:    *)
(* a closing trade takes the units that were opened first, each once, and  *)
(* no more than there are.                                                 *)
(***************************************************************************)
EXTENDS Integers, Sequences

CONSTANTS
  Side,  \* long and short
  Order, \* closing trades: side, price, date
  Unit,  \* a unit opened: its price and date
  Quantity \* the numbers of units that one trade may open or ask for

VARIABLES
  open,   \* open[s]: units of side s, the oldest first
  closed, \* pairs of a unit and the order that closed it, in this order
  order,  \* the closing trade in progress
  wanted  \* units it has still to close

vars == <<open, closed, order, wanted>>

LedgerInit ==
  /\ open = [s \in Side |-> <<>>]
  /\ closed = <<>>
  /\ order \in Order
  /\ wanted = 0

OpenUnits(s, u, n) ==
  /\ wanted = 0
  /\ open' = [open EXCEPT ![s] = @ \o [i \in 1 .. n |-> u]]
  /\ UNCHANGED <<closed, order, wanted>>

\* A closing trade for which there is no unit at all closes nothing.
BeginClosing(o, n) ==
  /\ wanted = 0
  /\ order' = o
  /\ wanted' = IF open[o.side] = <<>> THEN 0 ELSE n
  /\ UNCHANGED <<open, closed>>

\* The k oldest units are closed; the trade ends when it has enough of them or
\* there are no more.
CloseUnits(k) ==
  LET queue == open[order.side]
  IN  /\ k <= wanted /\ k <= Len(queue)
      /\ open' = [open EXCEPT ![order.side] = SubSeq(queue, k + 1, Len(queue))]
      /\ closed' = closed \o [i \in 1 .. k |-> <<queue[i], order>>]
      /\ wanted' = IF k = Len(queue) THEN 0 ELSE wanted - k
      /\ UNCHANGED order

LedgerNext ==
  \/ \E s \in Side, u \in Unit, n \in Quantity : OpenUnits(s, u, n)
  \/ \E o \in Order, n \in Quantity : BeginClosing(o, n)
  \/ \E k \in 1 .. wanted : CloseUnits(k)

LedgerSpec == LedgerInit /\ [][LedgerNext]_vars
=============================================================================
