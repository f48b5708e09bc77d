-------------------------- MODULE MCCircuitBreaker --------------------------
(* Model values for checking CircuitBreaker with TLC.                      *)
EXTENDS CircuitBreaker

CONSTANTS t1, t2, t3

ThreeTasks == {t1, t2, t3}
=============================================================================
