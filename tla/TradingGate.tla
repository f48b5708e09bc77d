---------------------------- MODULE TradingGate ----------------------------
(***************************************************************************)
(* What order execution promises about the kill switch, without records,   *)
(* locks or attempts: an order reaches the broker only for a request that  *)
(* was let through while trading was not halted, and each request that is  *)
(* let through brings at most Allowance orders there.                      *)
(*                                                                         *)
(* OrderExecution.tla implements it.                                       *)
(***************************************************************************)
EXTENDS Naturals

CONSTANTS Request, Allowance

VARIABLES
  halted,  \* the kill switch is on
  cleared, \* requests that were let through and have not ended
  sent,    \* orders each of them has brought to the broker
  placed   \* number of orders the broker has accepted

gateVars == <<halted, cleared, sent, placed>>

GateInit ==
  /\ halted = FALSE
  /\ cleared = {}
  /\ sent = [r \in Request |-> 0]
  /\ placed = 0

\* A request is let through.
Clear(r) ==
  /\ ~ halted
  /\ r \notin cleared
  /\ cleared' = cleared \cup {r}
  /\ UNCHANGED <<halted, sent, placed>>

End(r) ==
  /\ cleared' = cleared \ {r}
  /\ sent' = [sent EXCEPT ![r] = 0]

Stay(r) ==
  /\ sent' = [sent EXCEPT ![r] = @ + 1]
  /\ UNCHANGED cleared

\* It brings an order to the broker, with which it may end,
Place(r) ==
  /\ r \in cleared
  /\ sent[r] < Allowance
  /\ placed' = placed + 1
  /\ End(r) \/ Stay(r)
  /\ UNCHANGED halted

\* or it ends without one.
Drop(r) ==
  /\ r \in cleared
  /\ End(r)
  /\ UNCHANGED <<halted, placed>>

\* Halting takes nothing back: requests that were let through may still place.
Halt == ~ halted /\ halted' = TRUE /\ UNCHANGED <<cleared, sent, placed>>
Resume == halted /\ halted' = FALSE /\ UNCHANGED <<cleared, sent, placed>>

\* A restart forgets the requests and the halt, never the orders.
Restart ==
  /\ halted' = FALSE
  /\ cleared' = {}
  /\ sent' = [r \in Request |-> 0]
  /\ UNCHANGED placed

GateNext ==
  \/ \E r \in Request : Clear(r) \/ Place(r) \/ Drop(r)
  \/ Halt \/ Resume \/ Restart

GateSpec == GateInit /\ [][GateNext]_gateVars
=============================================================================
