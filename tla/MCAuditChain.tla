---------------------------- MODULE MCAuditChain ----------------------------
(* Model values for checking AuditChain with TLC.                          *)
EXTENDS AuditChain

CONSTANTS w1, w2

OneWriter == {w1}
TwoWriters == {w1, w2}
=============================================================================
