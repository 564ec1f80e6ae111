--------------------------- MODULE CallContract ---------------------------
(* What a session handle promises the code that makes a call.               *)
(*                                                                          *)
(* A call is refused, or accepted and then resolved exactly once.  Only a   *)
(* call that was sent can be answered or time out; only one that was not    *)
(* can be reported as not transmitted.  A reservation call that ended       *)
(* without a usable answer may still be given its status once, later.       *)
(* There are no message IDs, queues or histories here.                      *)
CONSTANTS Attempts, Reservations

VARIABLES status, late

vars == <<status, late>>

Init ==
  /\ status = [a \in Attempts |-> "new"]
  /\ late = {}

Move(A, from, to) ==
  /\ A # {}
  /\ \A a \in A : status[a] \in from
  /\ status' = [a \in Attempts |-> IF a \in A THEN to ELSE status[a]]
  /\ UNCHANGED late

Accept(a)         == Move({a}, {"new"}, "queued")
Refuse(a)         == Move({a}, {"new"}, "Refused")
NotTransmitted(a) == Move({a}, {"queued"}, "NotTransmitted")
Send(a)           == Move({a}, {"queued"}, "sent")
Answer(a)         == Move({a}, {"sent"}, "Answered")
Unusable(a)       == a \in Reservations /\ Move({a}, {"sent"}, "Unusable")
TimeOut(A)        == Move(A, {"sent"}, "TimedOut")
Lose(A)           == Move(A, {"queued", "sent"}, "Uncertain")

LateStatus(a) ==
  /\ a \in Reservations \ late
  /\ status[a] \in {"TimedOut", "Unusable"}
  /\ late' = late \cup {a}
  /\ UNCHANGED status

Next ==
  \/ \E a \in Attempts :
       \/ Accept(a) \/ Refuse(a) \/ NotTransmitted(a) \/ Send(a)
       \/ Answer(a) \/ Unusable(a) \/ LateStatus(a)
  \/ \E A \in SUBSET Attempts : TimeOut(A) \/ Lose(A)

Spec == Init /\ [][Next]_vars
=============================================================================
