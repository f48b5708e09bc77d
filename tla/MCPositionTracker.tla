------------------------- MODULE MCPositionTracker -------------------------
(* Model values for checking PositionTracker with TLC.                     *)
EXTENDS PositionTracker

CONSTANTS a, b

TwoTickers == {a, b}

\* Ticker a is bought and sold, b is also sold short.
Orders ==
  {[ticker |-> a, direction |-> "BUY", quantity |-> 2],
   [ticker |-> a, direction |-> "SELL", quantity |-> 1],
   [ticker |-> b, direction |-> "BUY", quantity |-> 1],
   [ticker |-> b, direction |-> "SHORT", quantity |-> 1],
   [ticker |-> b, direction |-> "COVER", quantity |-> 1]}
=============================================================================
