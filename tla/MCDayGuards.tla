---------------------------- MODULE MCDayGuards ----------------------------
(* Values on both sides of the limits: from a start or a peak of 100, 92 is *)
(* a loss beyond 4 percent and within the drawdown of 15, 80 is beyond both; *)
(* 0 is the empty portfolio. The balance in the settings may be far off.     *)
EXTENDS DayGuards
=============================================================================
