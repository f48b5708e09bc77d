---------------------------- MODULE MCKillSwitch ----------------------------
(* Model values for checking KillSwitch with TLC.                          *)
EXTENDS KillSwitch

CONSTANTS o1, o2, u1

Mixed == {o1, o2, u1}
Background == {u1}
=============================================================================
