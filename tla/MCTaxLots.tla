----------------------------- MODULE MCTaxLots -----------------------------
(* Trades for TLC: purchases that a sale uses up, splits and outlasts, won *)
(* and lost; one short position, opened and covered through is_short.      *)
EXTENDS TaxLots

Bids ==
  {[direction |-> "BUY", is_short |-> FALSE, quantity |-> q, price |-> p] :
     q \in {1, 2}, p \in {2, 8}}
Shorts == {[direction |-> "SELL", is_short |-> TRUE, quantity |-> 2, price |-> 6]}
Sales ==
  {[direction |-> "SELL", is_short |-> FALSE, quantity |-> q, price |-> p,
    commission |-> IF q = 1 THEN 1 ELSE 4] : q \in {1, 3}, p \in {4, 10}}
Covers ==
  {[direction |-> "BUY", is_short |-> TRUE, quantity |-> 1, price |-> 2, commission |-> 0],
   [direction |-> "COVER", is_short |-> FALSE, quantity |-> 2, price |-> 10, commission |-> 1]}

Openings == Bids \cup Shorts
Closings == Sales \cup Covers
Pauses == {0, 2}
=============================================================================
