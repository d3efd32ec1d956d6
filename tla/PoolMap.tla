------------------------------- MODULE PoolMap -------------------------------
(***************************************************************************)
(* What a component pool promises: a map from entities to a value and an   *)
(* activity bit, in which an operation on one entity's row leaves every    *)
(* other row alone.                                                        *)
(***************************************************************************)
CONSTANTS Entity, Value, Absent

VARIABLE row

Row == [value : Value, active : BOOLEAN]

Init == row = [e \in Entity |-> Absent]

Emplace(e, v, bit) ==
  /\ row[e] = Absent
  /\ row' = [row EXCEPT ![e] = [value |-> v, active |-> bit]]

Erase(e) ==
  /\ row[e] # Absent
  /\ row' = [row EXCEPT ![e] = Absent]

\* A write of the value, of the activity bit, or of both.
Write(e, v, bit) ==
  /\ row[e] # Absent
  /\ row' = [row EXCEPT ![e] = [value |-> v, active |-> bit]]

Next ==
  \E e \in Entity :
    \/ \E v \in Value, bit \in BOOLEAN : Emplace(e, v, bit) \/ Write(e, v, bit)
    \/ Erase(e)

Spec == Init /\ [][Next]_row
=============================================================================
