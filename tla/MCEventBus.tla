----------------------------- MODULE MCEventBus -----------------------------
(* The subscriptions of the bus runs: a component of one entity, a seat of   *)
(* another.                                                                  *)
EXTENDS EventBus
CONSTANTS e1, e2, t1, s1
MCEntityOf == [s \in Thunk \cup Seat |-> IF s = t1 THEN e1 ELSE e2]
=============================================================================
