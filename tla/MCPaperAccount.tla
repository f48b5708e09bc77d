--------------------------- MODULE MCPaperAccount ---------------------------
(* Two processes, one ticker.  The capital pays for one unit at the high    *)
(* price and is short of two; Fee is one at every price.                    *)
EXTENDS PaperAccount

MCFee == [p \in Price |-> 1]
=============================================================================
