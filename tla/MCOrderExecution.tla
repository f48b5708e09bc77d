-------------------------- MODULE MCOrderExecution --------------------------
(* Model values, tickets and symmetry for checking OrderExecution with TLC. *)
EXTENDS OrderExecution, TLC

CONSTANTS r1, r2, tk1, tk2, none

OneRequest == {r1}
TwoRequests == {r1, r2}
OneTicket == {tk1}
TwoTickets == {tk1, tk2}
\* Two orders of one share.
SameTicker == [tk \in Ticket |-> "SBER"]
\* A raw status of the broker's client, and one of those engine.py looks for.
Words == {"raw", "partial"}
RequestSymmetry == Permutations(Request)
=============================================================================
