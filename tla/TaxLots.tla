------------------------------ MODULE TaxLots ------------------------------
(***************************************************************************)
(* src/trading/tax/reporter.py: compute_tax_lots, _apply_loss_harvesting   *)
(* and the totals of generate_tax_report.                                  *)
(*                                                                         *)
(* One step is one trade of the sorted list, or one turn of the inner loop *)
(* that matches a closing trade with open positions; a report may be asked *)
(* for after any trade.  Money is counted in kopecks.  There is one queue  *)
(* of purchases and one of shorts for all tickers, so tickers decide       *)
(* nothing here and are left out.                                          *)
(***************************************************************************)
EXTENDS Integers, Sequences, FiniteSets, SequencesExt, Functions

CONSTANTS
  Opening,   \* trades: direction, is_short, quantity, price
  Closing,   \* the same with a commission
  Pause,     \* days between two trades
  LongTerm,  \* LONG_TERM_HOLDING_DAYS
  MaxTrades  \* bound: trades in the list

ASSUME TaxAssumption ==
  /\ \A t \in Opening \cup Closing : t.quantity \in Nat \ {0} /\ t.price \in Nat
  /\ \A t \in Closing : t.commission \in Nat
  /\ Pause \subseteq Nat /\ LongTerm \in Nat /\ MaxTrades \in Nat

VARIABLES
  queue, \* long_queue and short_queue: what is open, the oldest first
  lots,  \* the lots so far
  sale,  \* the closing trade: its data, remaining, and the lots there were before
  day,   \* the date of the last trade
  trades

vars == <<queue, lots, sale, day, trades>>

Side == {"long", "short"}

\* is_short turns BUY into COVER and SELL into SHORT.
Kind(t) ==
  IF ~ t.is_short THEN t.direction
  ELSE CASE t.direction = "BUY" -> "COVER"
         [] t.direction = "SELL" -> "SHORT"
         [] OTHER -> t.direction

Opens(t) == CASE Kind(t) = "BUY" -> {"long"} [] Kind(t) = "SHORT" -> {"short"} [] OTHER -> {}
Closes(t) == CASE Kind(t) = "SELL" -> {"long"} [] Kind(t) = "COVER" -> {"short"} [] OTHER -> {}

NoSale ==
  [side |-> "long", total |-> 1, remaining |-> 0, price |-> 0, date |-> 0,
   commission |-> 0, before |-> 0]

Matching == sale.remaining > 0 /\ queue[sale.side] # <<>>

TypeOK ==
  /\ \A s \in Side : \A i \in DOMAIN queue[s] :
       /\ queue[s][i].quantity \in Nat \ {0}
       /\ queue[s][i].price \in Nat
       /\ queue[s][i].date \in 0 .. day
  /\ \A i \in DOMAIN lots :
       /\ lots[i].quantity \in Nat \ {0}
       /\ lots[i].pnl \in Int
       /\ lots[i].openDate <= lots[i].closeDate
  /\ sale.remaining \in 0 .. sale.total
  /\ trades \in 0 .. MaxTrades

Init ==
  /\ queue = [s \in Side |-> <<>>]
  /\ lots = <<>>
  /\ sale = NoSale
  /\ day = 0 /\ trades = 0

-----------------------------------------------------------------------------
(* compute_tax_lots.                                                       *)

\* The next trade in the order of dates, once the last one is done with.
NextTrade ==
  /\ ~ Matching
  /\ trades < MaxTrades
  /\ trades' = trades + 1
  /\ \E n \in Pause : day' = day + n

Open(t) ==
  /\ NextTrade
  /\ \E s \in Opens(t) :
       queue' = [queue EXCEPT ![s] =
         Append(@, [quantity |-> t.quantity, price |-> t.price, date |-> day'])]
  /\ sale' = [sale EXCEPT !.remaining = 0]
  /\ UNCHANGED lots

Close(t) ==
  /\ NextTrade
  /\ \E s \in Closes(t) :
       sale' = [side |-> s, total |-> t.quantity, remaining |-> t.quantity,
                price |-> t.price, date |-> day', commission |-> t.commission,
                before |-> Len(lots)]
  /\ UNCHANGED <<queue, lots>>

\* Mutant: the newest position is closed first.
TakenNewest(q) == q[Len(q)]

\* The position that is closed next.
Taken(q) == q[1]

\* Mutant: a position that is used up stays in the queue.
LeftUsedUp(q, used) == <<[q[1] EXCEPT !.quantity = @ - used]>> \o Tail(q)

\* The queue after used units have been taken; a used-up position leaves it.
Left(q, used) ==
  IF q[1].quantity - used <= 0 THEN Tail(q)
  ELSE <<[q[1] EXCEPT !.quantity = @ - used]>> \o Tail(q)

\* Mutant: the commission is shared among what remains, not what was sold.
ShareOfRemaining(used) ==
  {c \in 0 .. sale.commission :
     LET off == 2 * (c * sale.remaining - sale.commission * used)
     IN  off <= sale.remaining /\ 0 - off <= sale.remaining}

\* The lot's share of the commission, rounded to kopecks; of two that are
\* equally near, floating point may yield either.
Share(used) ==
  {c \in 0 .. sale.commission :
     LET off == 2 * (c * sale.total - sale.commission * used)
     IN  off <= sale.total /\ 0 - off <= sale.total}

\* A position held long enough is taxed at a rate of 0.
Taxable(lot) == lot.closeDate - lot.openDate < LongTerm

Gain(p) == IF sale.side = "long" THEN sale.price - p.price ELSE p.price - sale.price

\* One turn of the inner loop.
Match ==
  LET q == queue[sale.side]
      p == Taken(q)
      used == IF sale.remaining < p.quantity THEN sale.remaining ELSE p.quantity
  IN  /\ Matching
      /\ queue' = [queue EXCEPT ![sale.side] = Left(q, used)]
      /\ \E share \in Share(used) :
           lots' = Append(lots,
             [quantity |-> used, side |-> sale.side,
              openPrice |-> p.price, openDate |-> p.date,
              closePrice |-> sale.price, closeDate |-> sale.date,
              pnl |-> Gain(p) * used - share])
      /\ sale' = [sale EXCEPT !.remaining = @ - used]
      /\ UNCHANGED <<day, trades>>

Next == (\E t \in Opening : Open(t)) \/ (\E t \in Closing : Close(t)) \/ Match

Spec == Init /\ [][Next]_vars

-----------------------------------------------------------------------------
(* generate_tax_report: tax is RATE times the taxed amounts below.         *)

Wins == {i \in DOMAIN lots : lots[i].pnl > 0}
Losses == DOMAIN lots \ Wins

\* Of the wins in W the one whose turn comes last: the smallest, and the latest
\* of equal ones, which keep their order when sorted.
SmallestWin(W) ==
  CHOOSE i \in W : \A j \in W :
    lots[i].pnl < lots[j].pnl \/ (lots[i].pnl = lots[j].pnl /\ j <= i)

Pnl == [i \in DOMAIN lots |-> lots[i].pnl]
TotalLoss == 0 - SumFunctionOnSet(Pnl, Losses)

\* What is taxed of each win without losses; of a win at a rate of 0 nothing.
TaxedAlone == [i \in DOMAIN lots |-> IF Taxable(lots[i]) THEN lots[i].pnl ELSE 0]

\* Mutant: every win is offset by all of the losses.
OffsetByAll(acc, i) ==
  LET offset == IF lots[i].pnl < acc.loss THEN lots[i].pnl ELSE acc.loss
  IN  [acc EXCEPT !.taxed = @ + IF Taxable(lots[i]) THEN lots[i].pnl - offset ELSE 0]

\* _apply_loss_harvesting: the losses are used up by one win after the other,
\* also by those that are not taxed anyway.
OffsetWin(acc, i) ==
  LET offset == IF lots[i].pnl < acc.loss THEN lots[i].pnl ELSE acc.loss
  IN  [loss |-> acc.loss - offset,
       taxed |-> acc.taxed + IF Taxable(lots[i]) THEN lots[i].pnl - offset ELSE 0]

\* What is left of the losses, and taxed, after the turns of the wins in W.
Harvest[W \in SUBSET Wins] ==
  IF W = {} THEN [loss |-> TotalLoss, taxed |-> 0]
  ELSE OffsetWin(Harvest[W \ {SmallestWin(W)}], SmallestWin(W))

\* What the report taxes.
Taxed == Harvest[Wins].taxed

-----------------------------------------------------------------------------
(* Properties.                                                             *)

Units(p) == [i \in 1 .. p.quantity |-> [price |-> p.price, date |-> p.date]]
UnitsOfLot(l) ==
  [i \in 1 .. l.quantity |->
     <<[price |-> l.openPrice, date |-> l.openDate],
       [side |-> l.side, price |-> l.closePrice, date |-> l.closeDate]>>]

Dates == UNION {0 .. n * MaxTrades : n \in Pause}
Sold == {[side |-> "long", price |-> 0, date |-> 0]} \cup
  {[side |-> s, price |-> t.price, date |-> d] : s \in Side, t \in Closing, d \in Dates}
Bought == {[price |-> t.price, date |-> d] : t \in Opening, d \in Dates}
Quantities == {t.quantity : t \in Opening \cup Closing}

UnitsOpen(q) == FlattenSeq([i \in DOMAIN q |-> Units(q[i])])
OpenNow == [s \in Side |-> UnitsOpen(queue[s])]
ClosedNow == FlattenSeq([i \in DOMAIN lots |-> UnitsOfLot(lots[i])])
OrderNow == [side |-> sale.side, price |-> sale.price, date |-> sale.date]
WantedNow == IF Matching THEN sale.remaining ELSE 0

Ledger == INSTANCE UnitLedger WITH
  Order <- Sold, Unit <- Bought, Quantity <- Quantities,
  open <- OpenNow, closed <- ClosedNow, order <- OrderNow,
  wanted <- WantedNow

\* Each unit bought or sold short is closed once at most, the oldest first, by
\* the sale or cover that asked for it, whatever the trades are cut into
\* (l.24-140).
ImplementsLedger == Ledger!LedgerSpec

\* The lots of a sale or cover, what they earn before the commission, and what
\* they miss or exceed its commission by.
Parts == {i \in DOMAIN lots : i > sale.before}
Quantity == [i \in DOMAIN lots |-> lots[i].quantity]
Gross == [i \in DOMAIN lots |->
  lots[i].quantity * IF lots[i].side = "long" THEN lots[i].closePrice - lots[i].openPrice
                     ELSE lots[i].openPrice - lots[i].closePrice]
Misbooked == SumFunctionOnSet(Gross, Parts) - SumFunctionOnSet(Pnl, Parts) - sale.commission

\* The lots of a sale or cover that found all its units carry its commission
\* once, up to half a kopeck of rounding for each lot (l.65-73, l.106-114).
CommissionBooked ==
  Parts # {} /\ SumFunctionOnSet(Quantity, Parts) = sale.total =>
    /\ 2 * Misbooked <= Cardinality(Parts)
    /\ 0 - 2 * Misbooked <= Cardinality(Parts)

\* Harvesting never adds tax and never takes off more than the losses; without
\* tax-free lots it taxes exactly what wins exceed losses (l.164-177).
HarvestFair ==
  LET alone == SumFunctionOnSet(TaxedAlone, Wins)
      excess == IF alone > TotalLoss THEN alone - TotalLoss ELSE 0
  IN  /\ Taxed \in excess .. alone
      /\ (\A i \in Wins : Taxable(lots[i])) => Taxed = excess
=============================================================================
