------------------------ MODULE MCCommandLifecycle ------------------------
(* Values for the constants of CommandLifecycle.                            *)
EXTENDS CommandLifecycle, TLC

CONSTANTS c1, c2, t1, t2, w1, w2, e1, e2

OneRequest  == {1}
TwoRequests == {1, 2}
OneRoute    == [c \in {c1} |-> c1]
Routes      == [c \in {c1, c2} |-> c]

(* Submissions are interchangeable.                                         *)
TaskSymmetry == Permutations({t1, t2})
(* So are writers, and so are the events they record.                       *)
WriterSymmetry == Permutations({w1, w2}) \cup Permutations({e1, e2})
=============================================================================
