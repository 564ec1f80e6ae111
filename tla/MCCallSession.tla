--------------------------- MODULE MCCallSession ---------------------------
(* Values for the constants of CallSession.                                 *)
EXTENDS CallSession

Calls     == 1 .. 4
(* Attempts 1 and 3 share a message ID, as do 2 and 4.                      *)
SharedIds == [a \in 1 .. 4 |-> IF a > 2 THEN a - 2 ELSE a]
Reserving == {1, 4}
=============================================================================
