-------------------------- MODULE MCIncomingCalls --------------------------
(* Values for the constants of IncomingCalls.                               *)
EXTENDS IncomingCalls

CONSTANTS i1, i2, i3
=============================================================================
