------------------------------ MODULE SparseSet ------------------------------
(***************************************************************************)
(* ecs::SparseSet and ecs::Pool (core/ecs/sparse_set.h, pool.h): packed    *)
(* rows with a sparse index, swap-and-pop removal and one activity bit per *)
(* dense row.  Positions count from 1 and Npos is 0; the paging of the     *)
(* sparse array is left out.                                               *)
(***************************************************************************)
EXTENDS Naturals, Sequences, FiniteSets

CONSTANTS
  Entity,   \* entity indices
  Value,    \* component values
  Absent    \* the row of an entity that has none

ASSUME EntityAssumption == IsFiniteSet(Entity)
ASSUME AbsentAssumption == Absent \notin [value : Value, active : BOOLEAN]

Npos == 0
Row == [value : Value, active : BOOLEAN]

\* The bit words hold at least one bit per dense row, and no set ever has
\* more rows than there are entities.
Capacity == Cardinality(Entity)

EmptySet ==
  [dense |-> <<>>, data |-> <<>>,
   sparse |-> [e \in Entity |-> Npos], bits |-> [p \in 1 .. Capacity |-> FALSE]]

contains(s, e) == s.sparse[e] # Npos

\* emplace: append a row; the activity bit of the new position is written,
\* whatever a removed row left there.
insert(s, e, v, bit) ==
  LET pos == Len(s.dense) + 1 IN
  [dense |-> Append(s.dense, e),
   data |-> Append(s.data, v),
   sparse |-> [s.sparse EXCEPT ![e] = pos],
   bits |-> [s.bits EXCEPT ![pos] = bit]]

\* Mutant: the moved row keeps the activity bit of the row it replaces.
remove_leaves_bit(s, e) ==
  LET pos == s.sparse[e]
      last == Len(s.dense)
      moved == s.dense[last] IN
  [dense |-> SubSeq([s.dense EXCEPT ![pos] = moved], 1, last - 1),
   data |-> SubSeq([s.data EXCEPT ![pos] = s.data[last]], 1, last - 1),
   sparse |-> [s.sparse EXCEPT ![moved] = pos, ![e] = Npos],
   bits |-> s.bits]

\* erase: the last row moves into the vacated position with its value and its
\* bit; removing the last row moves it onto itself.
remove(s, e) ==
  LET pos == s.sparse[e]
      last == Len(s.dense)
      moved == s.dense[last] IN
  [dense |-> SubSeq([s.dense EXCEPT ![pos] = moved], 1, last - 1),
   data |-> SubSeq([s.data EXCEPT ![pos] = s.data[last]], 1, last - 1),
   sparse |-> [s.sparse EXCEPT ![moved] = pos, ![e] = Npos],
   bits |-> [s.bits EXCEPT ![pos] = s.bits[last]]]

set_row_active(s, pos, bit) == [s EXCEPT !.bits[pos] = bit]

\* A write through try_get, which hands out the row itself.
set_row_value(s, pos, v) == [s EXCEPT !.data[pos] = v]

-----------------------------------------------------------------------------
\* Type of a sparse set.
SetType ==
  [dense : Seq(Entity), data : Seq(Value),
   sparse : [Entity -> 0 .. Capacity], bits : [1 .. Capacity -> BOOLEAN]]

\* The sparse index and the packed rows are inverse to each other and the
\* values stay parallel to the rows, so find() never returns another entity's
\* row or a position beyond the last one.
Coherent(s) ==
  /\ Len(s.data) = Len(s.dense)
  /\ \A p \in 1 .. Len(s.dense) : s.sparse[s.dense[p]] = p
  /\ \A e \in Entity : contains(s, e) =>
       s.sparse[e] \in 1 .. Len(s.dense) /\ s.dense[s.sparse[e]] = e

\* What the pool holds for an entity.
RowOf(s, e) ==
  IF contains(s, e) THEN [value |-> s.data[s.sparse[e]], active |-> s.bits[s.sparse[e]]]
                    ELSE Absent
=============================================================================
