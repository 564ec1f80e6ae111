-------------------------- MODULE MCTargetDelivery --------------------------
(* Values for the constants of TargetDelivery.                              *)
EXTENDS TargetDelivery

CONSTANTS a1, a2, b1

(* Two deliveries of one station and one of another.                        *)
TwoStations == [d \in Deliveries |-> IF d \in {a1, a2} THEN "a" ELSE "b"]
=============================================================================
