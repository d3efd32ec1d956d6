-------------------------------- MODULE Pool --------------------------------
(***************************************************************************)
(* One component pool as a state machine: emplace, erase, activity and     *)
(* value writes of core/ecs/pool.h, over the sparse set of SparseSet.       *)
(***************************************************************************)
EXTENDS SparseSet

VARIABLE set

PoolInit == set = EmptySet

emplace(e, v, bit) == ~contains(set, e) /\ set' = insert(set, e, v, bit)
erase(e) == contains(set, e) /\ set' = remove(set, e)
set_active(e, bit) == contains(set, e) /\ set' = set_row_active(set, set.sparse[e], bit)

\* A write of the value through try_get, then of the activity.
write(e, v, bit) ==
  /\ contains(set, e)
  /\ set' = set_row_active(set_row_value(set, set.sparse[e], v), set.sparse[e], bit)

PoolNext ==
  \E e \in Entity :
    \/ \E v \in Value, bit \in BOOLEAN : emplace(e, v, bit) \/ write(e, v, bit)
    \/ erase(e)
    \/ \E bit \in BOOLEAN : set_active(e, bit)

PoolSpec == PoolInit /\ [][PoolNext]_set

-----------------------------------------------------------------------------
\* Type invariant and coherence, which every operation keeps.
SetInv == set \in SetType /\ Coherent(set)

Rows == INSTANCE PoolMap WITH row <- [e \in Entity |-> RowOf(set, e)]

\* The pool is the map it stands for: swap-and-pop removal never changes the
\* value or the activity of the row it moves (SparseSet::remove, Pool::erase).
RowsKept == Rows!Spec
=============================================================================
