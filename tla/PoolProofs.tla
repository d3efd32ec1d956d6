------------------------------ MODULE PoolProofs ------------------------------
(***************************************************************************)
(* Component pools and what is built on them.  A pool keeps its sparse     *)
(* index and its packed rows inverse to each other, and implements the map *)
(* from entities to rows.  A view over several pools misses no row that    *)
(* matches from the start of its scan to its end, visits in packed order,  *)
(* and visits no entity that was inactive all along.  The tick loop        *)
(* delivers its inputs on time and never shows a frame that is not in the  *)
(* journal; and the physics phase inside it implements the loop and the    *)
(* pool it is made of, so that what is proved of each holds of it, and the *)
(* rows of the pool and the bindings of the server name each other.        *)
(***************************************************************************)
EXTENDS Physics, Views, SublistProofs

(***************************************************************************)
(* The pool.                                                               *)
(***************************************************************************)

LEMMA CapacityNat == Capacity \in Nat
  BY EntityAssumption, FS_CardinalityType DEF Capacity

\* An entity that is contained has a row of the type.
LEMMA RowType ==
  ASSUME NEW s \in SetType, Coherent(s), NEW e \in Entity, contains(s, e)
  PROVE  RowOf(s, e) \in [value : Value, active : BOOLEAN]
  BY CapacityNat DEF RowOf, contains, Npos, Coherent, SetType

\* The rows are of distinct entities, so an entity without a row means a
\* position is left.
LEMMA RoomForRow ==
  ASSUME NEW s \in SetType, Coherent(s), NEW e \in Entity, ~contains(s, e)
  PROVE  Len(s.dense) + 1 \in 1 .. Capacity
<1>1. s.dense \in Seq(Entity) /\ Len(s.dense) \in Nat
  BY DEF SetType
<1>2. \A p \in 1 .. Len(s.dense) : s.dense[p] \in Entity /\ s.dense[p] # e /\ s.sparse[s.dense[p]] = p
  BY <1>1 DEF Coherent, contains, Npos
<1>3. s.dense \in Injection(1 .. Len(s.dense), Entity \ {e})
  BY <1>1, <1>2 DEF Injection, IsInjective
<1>4. IsFiniteSet(Entity \ {e}) /\ Cardinality(Entity \ {e}) = Capacity - 1
  BY EntityAssumption, FS_RemoveElement DEF Capacity
<1>5. Cardinality(1 .. Len(s.dense)) <= Capacity - 1
  BY <1>3, <1>4, FS_Injection
<1>6. Cardinality(1 .. Len(s.dense)) = Len(s.dense)
  BY <1>1, FS_Interval
<1>. QED BY <1>1, <1>5, <1>6, CapacityNat

\* emplace adds the row it is given and leaves every other row alone.
LEMMA InsertCorrect ==
  ASSUME NEW s \in SetType, Coherent(s), NEW e \in Entity, ~contains(s, e),
         NEW v \in Value, NEW bit \in BOOLEAN
  PROVE  LET t == insert(s, e, v, bit) IN
         /\ t \in SetType /\ Coherent(t)
         /\ \A f \in Entity :
              RowOf(t, f) = IF f = e THEN [value |-> v, active |-> bit] ELSE RowOf(s, f)
<1> DEFINE n == Len(s.dense)
           t == insert(s, e, v, bit)
<1>1. /\ s.dense \in Seq(Entity) /\ s.data \in Seq(Value) /\ n \in Nat
      /\ s.sparse \in [Entity -> 0 .. Capacity] /\ s.bits \in [1 .. Capacity -> BOOLEAN]
      /\ Len(s.data) = n
  BY DEF SetType, Coherent
<1>2. n + 1 \in 1 .. Capacity
  BY RoomForRow
<1>3. /\ t.dense = Append(s.dense, e) /\ t.data = Append(s.data, v)
      /\ t.sparse = [s.sparse EXCEPT ![e] = n + 1]
      /\ t.bits = [s.bits EXCEPT ![n + 1] = bit]
      /\ t = [dense |-> t.dense, data |-> t.data, sparse |-> t.sparse, bits |-> t.bits]
  BY DEF insert
<1>4. /\ t.dense \in Seq(Entity) /\ t.data \in Seq(Value)
      /\ Len(t.dense) = n + 1 /\ Len(t.data) = n + 1
      /\ \A p \in 1 .. n : t.dense[p] = s.dense[p] /\ t.data[p] = s.data[p]
      /\ t.dense[n + 1] = e /\ t.data[n + 1] = v
  BY <1>1, <1>3
<1>5. /\ t.sparse \in [Entity -> 0 .. Capacity] /\ t.sparse[e] = n + 1
      /\ \A f \in Entity \ {e} : t.sparse[f] = s.sparse[f]
      /\ t.bits \in [1 .. Capacity -> BOOLEAN] /\ t.bits[n + 1] = bit
      /\ \A p \in 1 .. n : t.bits[p] = s.bits[p]
  BY <1>1, <1>2, <1>3, CapacityNat
<1>6. t \in SetType
  BY <1>3, <1>4, <1>5 DEF SetType
<1>. HIDE DEF t
<1>7. \A p \in 1 .. n : s.dense[p] \in Entity \ {e} /\ s.sparse[s.dense[p]] = p
  BY <1>1 DEF Coherent, contains, Npos
<1>8. \A f \in Entity : s.sparse[f] # 0 => s.sparse[f] \in 1 .. n /\ s.dense[s.sparse[f]] = f
  BY DEF Coherent, contains, Npos
<1>9. Coherent(t)
  <2>1. ASSUME NEW p \in 1 .. n + 1 PROVE t.sparse[t.dense[p]] = p
    <3>1. CASE p = n + 1
      BY <3>1, <1>4, <1>5
    <3>2. CASE p \in 1 .. n
      <4>1. t.dense[p] = s.dense[p] /\ s.dense[p] \in Entity \ {e}
        BY <3>2, <1>4, <1>7
      <4>. QED BY <4>1, <3>2, <1>5, <1>7
    <3>. QED BY <3>1, <3>2, <1>1
  <2>2. ASSUME NEW f \in Entity, t.sparse[f] # 0
        PROVE  t.sparse[f] \in 1 .. n + 1 /\ t.dense[t.sparse[f]] = f
    <3>1. CASE f = e
      BY <3>1, <1>1, <1>4, <1>5
    <3>2. CASE f # e
      <4>1. t.sparse[f] = s.sparse[f] /\ s.sparse[f] \in 1 .. n /\ s.dense[s.sparse[f]] = f
        BY <2>2, <3>2, <1>5, <1>8
      <4>2. \A p \in 1 .. n : p \in 1 .. n + 1 /\ t.dense[p] = s.dense[p]
        BY <1>1, <1>4
      <4>. HIDE DEF n
      <4>. QED BY <4>1, <4>2
    <3>. QED BY <3>1, <3>2
  <2>. QED BY <2>1, <2>2, <1>4 DEF Coherent, contains, Npos
<1>10. \A f \in Entity :
         RowOf(t, f) = IF f = e THEN [value |-> v, active |-> bit] ELSE RowOf(s, f)
  <2> TAKE f \in Entity
  <2>1. CASE f = e
    BY <2>1, <1>1, <1>4, <1>5 DEF RowOf, contains, Npos
  <2>2. CASE f # e /\ s.sparse[f] = 0
    BY <2>2, <1>5 DEF RowOf, contains, Npos
  <2>3. CASE f # e /\ s.sparse[f] # 0
    <3>1. t.sparse[f] = s.sparse[f] /\ s.sparse[f] \in 1 .. n
      BY <2>3, <1>5, <1>8
    <3>2. t.data[s.sparse[f]] = s.data[s.sparse[f]] /\ t.bits[s.sparse[f]] = s.bits[s.sparse[f]]
      BY <3>1, <1>4, <1>5
    <3>. QED BY <2>3, <3>1, <3>2 DEF RowOf, contains, Npos
  <2>. QED BY <2>1, <2>2, <2>3
<1>. QED BY <1>6, <1>9, <1>10 DEF t

\* erase drops the entity's row and leaves the value and the activity of every
\* other row alone, the row that is moved into its place included.
LEMMA RemoveCorrect ==
  ASSUME NEW s \in SetType, Coherent(s), NEW e \in Entity, contains(s, e)
  PROVE  LET t == remove(s, e) IN
         /\ t \in SetType /\ Coherent(t)
         /\ \A f \in Entity : RowOf(t, f) = IF f = e THEN Absent ELSE RowOf(s, f)
<1> DEFINE n == Len(s.dense)
           pos == s.sparse[e]
           moved == s.dense[n]
           t == remove(s, e)
<1>1. /\ s.dense \in Seq(Entity) /\ s.data \in Seq(Value) /\ n \in Nat
      /\ s.sparse \in [Entity -> 0 .. Capacity] /\ s.bits \in [1 .. Capacity -> BOOLEAN]
      /\ Len(s.data) = n
  BY DEF SetType, Coherent
<1>2. pos \in 1 .. n /\ s.dense[pos] = e /\ n \in 1 .. n /\ moved \in Entity
      /\ s.sparse[moved] = n /\ moved = s.dense[n]
  BY <1>1 DEF Coherent, contains
<1>3. n <= Capacity
  BY <1>1, <1>2, CapacityNat
<1>4. /\ t.dense = SubSeq([s.dense EXCEPT ![pos] = moved], 1, n - 1)
      /\ t.data = SubSeq([s.data EXCEPT ![pos] = s.data[n]], 1, n - 1)
      /\ t.sparse = [s.sparse EXCEPT ![moved] = pos, ![e] = 0]
      /\ t.bits = [s.bits EXCEPT ![pos] = s.bits[n]]
      /\ t = [dense |-> t.dense, data |-> t.data, sparse |-> t.sparse, bits |-> t.bits]
  BY DEF remove, Npos
<1>5. /\ t.dense \in Seq(Entity) /\ Len(t.dense) = n - 1
      /\ \A p \in 1 .. n - 1 : t.dense[p] = IF p = pos THEN moved ELSE s.dense[p]
  <2>1. /\ [s.dense EXCEPT ![pos] = moved] \in Seq(Entity)
        /\ Len([s.dense EXCEPT ![pos] = moved]) = n
        /\ \A p \in 1 .. n : [s.dense EXCEPT ![pos] = moved][p] = IF p = pos THEN moved ELSE s.dense[p]
    BY <1>1, <1>2, ExceptSeq
  <2>. QED BY <2>1, <1>2, <1>4
<1>6. /\ t.data \in Seq(Value) /\ Len(t.data) = n - 1
      /\ \A p \in 1 .. n - 1 : t.data[p] = IF p = pos THEN s.data[n] ELSE s.data[p]
  <2>1. s.data[n] \in Value
    BY <1>1, <1>2
  <2>2. /\ [s.data EXCEPT ![pos] = s.data[n]] \in Seq(Value)
        /\ Len([s.data EXCEPT ![pos] = s.data[n]]) = n
        /\ \A p \in 1 .. n :
             [s.data EXCEPT ![pos] = s.data[n]][p] = IF p = pos THEN s.data[n] ELSE s.data[p]
    BY <1>1, <1>2, <2>1, ExceptSeq
  <2>. QED BY <2>2, <1>2, <1>4
<1>6a. pos \in 0 .. Capacity /\ 0 \in 0 .. Capacity /\ pos \in 1 .. Capacity /\ n \in 1 .. Capacity
      /\ 1 .. n - 1 \subseteq 1 .. Capacity /\ s.bits[n] \in BOOLEAN
  BY <1>1, <1>2, <1>3, CapacityNat
<1>7. /\ t.sparse \in [Entity -> 0 .. Capacity]
      /\ \A f \in Entity : t.sparse[f] = IF f = e THEN 0 ELSE IF f = moved THEN pos ELSE s.sparse[f]
      /\ t.bits \in [1 .. Capacity -> BOOLEAN]
      /\ \A p \in 1 .. n - 1 : t.bits[p] = IF p = pos THEN s.bits[n] ELSE s.bits[p]
  <2>1. t.sparse \in [Entity -> 0 .. Capacity]
        /\ \A f \in Entity : t.sparse[f] = IF f = e THEN 0 ELSE IF f = moved THEN pos ELSE s.sparse[f]
    <3>. HIDE DEF t, pos, moved, n
    <3>. QED BY <1>1, <1>2, <1>4, <1>6a
  <2>2. t.bits \in [1 .. Capacity -> BOOLEAN]
        /\ \A p \in 1 .. n - 1 : t.bits[p] = IF p = pos THEN s.bits[n] ELSE s.bits[p]
    <3>. HIDE DEF t, pos, moved, n
    <3>. QED BY <1>1, <1>4, <1>6a
  <2>. QED BY <2>1, <2>2
<1>8. t \in SetType
  BY <1>4, <1>5, <1>6, <1>7 DEF SetType
<1>. HIDE DEF t
<1>9. \A p \in 1 .. n : s.dense[p] \in Entity /\ s.sparse[s.dense[p]] = p
  BY <1>1 DEF Coherent
<1>10. \A f \in Entity : s.sparse[f] # 0 => s.sparse[f] \in 1 .. n /\ s.dense[s.sparse[f]] = f
  BY DEF Coherent, contains, Npos
<1>. HIDE DEF n, moved
<1>11. \A p \in 1 .. n - 1 : t.sparse[t.dense[p]] = p
  <2> TAKE p \in 1 .. n - 1
  <2>1. CASE p = pos
    <3>1. moved # e
      BY <2>1, <1>1, <1>2
    <3>. QED BY <2>1, <3>1, <1>2, <1>5, <1>7
  <2>2. CASE p # pos
    <3>1. t.dense[p] = s.dense[p] /\ s.dense[p] \in Entity /\ s.sparse[s.dense[p]] = p
      BY <2>2, <1>1, <1>5, <1>9
    <3>2. s.dense[p] # e /\ s.dense[p] # moved
      BY <2>2, <3>1, <1>1, <1>2
    <3>. QED BY <3>1, <3>2, <1>7
  <2>. QED BY <2>1, <2>2
<1>12. \A f \in Entity : t.sparse[f] # 0 =>
         t.sparse[f] \in 1 .. n - 1 /\ t.dense[t.sparse[f]] = f
  <2> SUFFICES ASSUME NEW f \in Entity, t.sparse[f] # 0
               PROVE  t.sparse[f] \in 1 .. n - 1 /\ t.dense[t.sparse[f]] = f
    OBVIOUS
  <2>0. f # e
    BY <1>7
  <2>1. CASE f = moved
    <3>1. t.sparse[f] = pos /\ pos # n
      BY <2>0, <2>1, <1>2, <1>7
    <3>. QED BY <2>1, <3>1, <1>1, <1>2, <1>5
  <2>2. CASE f # moved
    <3>1. t.sparse[f] = s.sparse[f] /\ s.sparse[f] \in 1 .. n /\ s.dense[s.sparse[f]] = f
      BY <2>0, <2>2, <1>7, <1>10
    <3>2. s.sparse[f] # n /\ s.sparse[f] # pos
      BY <2>0, <2>2, <3>1, <1>2
    <3>. QED BY <3>1, <3>2, <1>1, <1>5
  <2>. QED BY <2>1, <2>2
<1>13. Coherent(t)
  BY <1>5, <1>6, <1>11, <1>12 DEF Coherent, contains, Npos, n
<1>14. \A f \in Entity : RowOf(t, f) = IF f = e THEN Absent ELSE RowOf(s, f)
  <2> TAKE f \in Entity
  <2>1. CASE f = e
    BY <2>1, <1>7 DEF RowOf, contains, Npos
  <2>2. CASE f # e /\ f = moved
    <3>1. pos # n /\ pos \in 1 .. n - 1 /\ n # 0
      BY <2>2, <1>1, <1>2
    <3>2. t.sparse[f] = pos /\ s.sparse[f] = n
      BY <2>2, <1>2, <1>7
    <3>3. t.data[pos] = s.data[n] /\ t.bits[pos] = s.bits[n]
      BY <3>1, <1>6, <1>7
    <3>. QED BY <2>2, <3>1, <3>2, <3>3 DEF RowOf, contains, Npos
  <2>3. CASE f # e /\ f # moved
    <3>1. s.sparse[f] # 0 => s.sparse[f] \in 1 .. n - 1 /\ s.sparse[f] # pos
      BY <2>3, <1>1, <1>2, <1>10
    <3>. QED BY <2>3, <3>1, <1>6, <1>7 DEF RowOf, contains, Npos
  <2>. QED BY <2>1, <2>2, <2>3
<1>. QED BY <1>8, <1>13, <1>14 DEF t, n, moved

\* An activity write moves nothing and touches one row.
LEMMA SetRowActiveCorrect ==
  ASSUME NEW s \in SetType, Coherent(s), NEW e \in Entity, contains(s, e), NEW bit \in BOOLEAN
  PROVE  LET t == set_row_active(s, s.sparse[e], bit) IN
         /\ t \in SetType /\ Coherent(t)
         /\ \A f \in Entity :
              RowOf(t, f) = IF f = e THEN [value |-> RowOf(s, e).value, active |-> bit]
                                     ELSE RowOf(s, f)
<1> DEFINE t == set_row_active(s, s.sparse[e], bit)
<1>1. /\ s.dense \in Seq(Entity) /\ s.data \in Seq(Value)
      /\ s.sparse \in [Entity -> 0 .. Capacity] /\ s.bits \in [1 .. Capacity -> BOOLEAN]
  BY DEF SetType
<1>2. /\ t.dense = s.dense /\ t.data = s.data /\ t.sparse = s.sparse
      /\ t.bits = [s.bits EXCEPT ![s.sparse[e]] = bit]
      /\ t = [dense |-> t.dense, data |-> t.data, sparse |-> t.sparse, bits |-> t.bits]
  <2>1. s = [dense |-> s.dense, data |-> s.data, sparse |-> s.sparse, bits |-> s.bits]
    BY DEF SetType
  <2>2. t = [dense |-> s.dense, data |-> s.data, sparse |-> s.sparse,
             bits |-> [s.bits EXCEPT ![s.sparse[e]] = bit]]
    BY <2>1 DEF set_row_active
  <2>. QED BY <2>2
<1>3. s.sparse[e] \in 1 .. Capacity
  BY <1>1, CapacityNat DEF contains, Npos
<1>4. t \in SetType /\ Coherent(t)
  <2>1. t.bits \in [1 .. Capacity -> BOOLEAN]
    BY <1>1, <1>2
  <2>. HIDE DEF t
  <2>2. t \in SetType
    BY <2>1, <1>1, <1>2 DEF SetType
  <2>. QED BY <2>2, <1>2 DEF Coherent, contains
<1>5. \A f \in Entity : f # e /\ contains(s, f) => s.sparse[f] # s.sparse[e] /\ s.sparse[f] \in 1 .. Capacity
  BY <1>1, CapacityNat DEF Coherent, contains, Npos
<1>. HIDE DEF t
<1>6. \A f \in Entity :
        RowOf(t, f) = IF f = e THEN [value |-> RowOf(s, e).value, active |-> bit] ELSE RowOf(s, f)
  BY <1>1, <1>2, <1>3, <1>5 DEF RowOf, contains
<1>. QED BY <1>4, <1>6 DEF t

\* A value write moves nothing and touches one row.
LEMMA SetRowValueCorrect ==
  ASSUME NEW s \in SetType, Coherent(s), NEW e \in Entity, contains(s, e), NEW v \in Value
  PROVE  LET t == set_row_value(s, s.sparse[e], v) IN
         /\ t \in SetType /\ Coherent(t)
         /\ \A f \in Entity :
              RowOf(t, f) = IF f = e THEN [value |-> v, active |-> RowOf(s, e).active]
                                     ELSE RowOf(s, f)
<1> DEFINE t == set_row_value(s, s.sparse[e], v)
<1>1. /\ s.dense \in Seq(Entity) /\ s.data \in Seq(Value) /\ Len(s.data) = Len(s.dense)
      /\ s.sparse \in [Entity -> 0 .. Capacity] /\ s.bits \in [1 .. Capacity -> BOOLEAN]
  BY DEF SetType, Coherent
<1>2. /\ t.dense = s.dense /\ t.bits = s.bits /\ t.sparse = s.sparse
      /\ t.data = [s.data EXCEPT ![s.sparse[e]] = v]
      /\ t = [dense |-> t.dense, data |-> t.data, sparse |-> t.sparse, bits |-> t.bits]
  <2>1. s = [dense |-> s.dense, data |-> s.data, sparse |-> s.sparse, bits |-> s.bits]
    BY DEF SetType
  <2>2. t = [dense |-> s.dense, data |-> [s.data EXCEPT ![s.sparse[e]] = v],
             sparse |-> s.sparse, bits |-> s.bits]
    BY <2>1 DEF set_row_value
  <2>. QED BY <2>2
<1>3. s.sparse[e] \in 1 .. Len(s.data)
  BY <1>1 DEF Coherent
<1>4. /\ t.data \in Seq(Value) /\ Len(t.data) = Len(s.data)
      /\ \A p \in 1 .. Len(s.data) : t.data[p] = IF p = s.sparse[e] THEN v ELSE s.data[p]
  <2>. HIDE DEF t
  <2>. QED BY <1>1, <1>2, <1>3, ExceptSeq
<1>. HIDE DEF t
<1>5. t \in SetType /\ Coherent(t)
  BY <1>1, <1>2, <1>4 DEF SetType, Coherent, contains
<1>6. \A f \in Entity : contains(s, f) => s.sparse[f] \in 1 .. Len(s.data) /\ (f # e => s.sparse[f] # s.sparse[e])
  BY <1>1 DEF Coherent
<1>7. \A f \in Entity :
        RowOf(t, f) = IF f = e THEN [value |-> v, active |-> RowOf(s, e).active] ELSE RowOf(s, f)
  BY <1>2, <1>3, <1>4, <1>6 DEF RowOf, contains
<1>. QED BY <1>5, <1>7 DEF t

\* Both writes, one after the other.
LEMMA WriteCorrect ==
  ASSUME NEW s \in SetType, Coherent(s), NEW e \in Entity, contains(s, e),
         NEW v \in Value, NEW bit \in BOOLEAN
  PROVE  LET t == set_row_active(set_row_value(s, s.sparse[e], v), s.sparse[e], bit) IN
         /\ t \in SetType /\ Coherent(t)
         /\ \A f \in Entity :
              RowOf(t, f) = IF f = e THEN [value |-> v, active |-> bit] ELSE RowOf(s, f)
<1> DEFINE r == set_row_value(s, s.sparse[e], v)
           t == set_row_active(r, s.sparse[e], bit)
<1>1. r \in SetType /\ Coherent(r)
      /\ \A f \in Entity :
           RowOf(r, f) = IF f = e THEN [value |-> v, active |-> RowOf(s, e).active] ELSE RowOf(s, f)
  BY SetRowValueCorrect
<1>2. r.sparse = s.sparse /\ contains(r, e)
  BY DEF set_row_value, contains, SetType
<1>. HIDE DEF r
<1>3. /\ t \in SetType /\ Coherent(t)
      /\ \A f \in Entity :
           RowOf(t, f) = IF f = e THEN [value |-> RowOf(r, e).value, active |-> bit] ELSE RowOf(r, f)
  BY <1>1, <1>2, SetRowActiveCorrect
<1>. QED BY <1>1, <1>3 DEF r

-----------------------------------------------------------------------------
LEMMA EmptySetInv == EmptySet \in SetType /\ Coherent(EmptySet)
  BY CapacityNat DEF EmptySet, SetType, Coherent, contains, Npos

LEMMA StepSetInv == SetInv /\ [PoolNext]_set => SetInv'
<1> SUFFICES ASSUME SetInv, PoolNext PROVE SetInv'
  BY DEF SetInv
<1>. PICK e \in Entity : \/ \E v \in Value, bit \in BOOLEAN : emplace(e, v, bit)
                         \/ \E v \in Value, bit \in BOOLEAN : write(e, v, bit)
                         \/ erase(e)
                         \/ \E bit \in BOOLEAN : set_active(e, bit)
  BY DEF PoolNext
<1>1. CASE \E v \in Value, bit \in BOOLEAN : emplace(e, v, bit)
  BY <1>1, InsertCorrect DEF SetInv, emplace
<1>2. CASE erase(e)
  BY <1>2, RemoveCorrect DEF SetInv, erase
<1>3. CASE \E bit \in BOOLEAN : set_active(e, bit)
  BY <1>3, SetRowActiveCorrect DEF SetInv, set_active
<1>4. CASE \E v \in Value, bit \in BOOLEAN : write(e, v, bit)
  BY <1>4, WriteCorrect DEF SetInv, write
<1>. QED BY <1>1, <1>2, <1>3, <1>4

\* The sparse index and the packed rows of a pool are inverse to each other in
\* every reachable state.
THEOREM PoolCoherent == PoolSpec => []SetInv
<1>1. PoolInit => SetInv
  BY EmptySetInv DEF PoolInit, SetInv
<1>. QED BY <1>1, StepSetInv, PTL DEF PoolSpec

\* A pool implements the map from entities to rows: no operation on one
\* entity's row changes another entity's value or activity.
THEOREM PoolIsMap == PoolSpec => RowsKept
<1> DEFINE row == [e \in Entity |-> RowOf(set, e)]
<1>1. PoolInit => Rows!Init
  BY DEF PoolInit, Rows!Init, EmptySet, RowOf, contains, Npos
<1>2. SetInv /\ [PoolNext]_set => [Rows!Next]_row
  <2> SUFFICES ASSUME SetInv, PoolNext PROVE Rows!Next
    BY DEF RowOf, contains
  <2>. PICK e \in Entity : \/ \E v \in Value, bit \in BOOLEAN : emplace(e, v, bit) \/ write(e, v, bit)
                           \/ erase(e)
                           \/ \E bit \in BOOLEAN : set_active(e, bit)
    BY DEF PoolNext
  <2>0. set \in SetType /\ Coherent(set)
    BY DEF SetInv
  <2>1. ASSUME NEW v \in Value, NEW bit \in BOOLEAN, emplace(e, v, bit)
        PROVE  Rows!Emplace(e, v, bit)
    <3>1. /\ RowOf(set, e) = Absent
          /\ \A f \in Entity :
               RowOf(set', f) = IF f = e THEN [value |-> v, active |-> bit] ELSE RowOf(set, f)
      BY <2>0, <2>1, InsertCorrect DEF emplace, RowOf
    <3>. QED BY <3>1 DEF Rows!Emplace
  <2>2. ASSUME erase(e)
        PROVE  Rows!Erase(e)
    <3>1. /\ RowOf(set, e) # Absent
          /\ \A f \in Entity : RowOf(set', f) = IF f = e THEN Absent ELSE RowOf(set, f)
      <4>1. RowOf(set, e) \in [value : Value, active : BOOLEAN]
        BY <2>0, <2>2, RowType DEF erase
      <4>. QED BY <4>1, <2>0, <2>2, RemoveCorrect, AbsentAssumption DEF erase
    <3>. QED BY <3>1 DEF Rows!Erase
  <2>3. ASSUME NEW bit \in BOOLEAN, set_active(e, bit)
        PROVE  RowOf(set, e).value \in Value /\ Rows!Write(e, RowOf(set, e).value, bit)
    <3>1. /\ RowOf(set, e) # Absent
          /\ RowOf(set, e) = [value |-> RowOf(set, e).value, active |-> RowOf(set, e).active]
          /\ \A f \in Entity :
               RowOf(set', f) = IF f = e THEN [value |-> RowOf(set, e).value, active |-> bit]
                                         ELSE RowOf(set, f)
      <4>1. RowOf(set, e) \in [value : Value, active : BOOLEAN]
        BY <2>0, <2>3, RowType DEF set_active
      <4>. QED BY <4>1, <2>0, <2>3, SetRowActiveCorrect, AbsentAssumption DEF set_active
    <3>2. RowOf(set, e) \in [value : Value, active : BOOLEAN]
      BY <2>0, <2>3, RowType DEF set_active
    <3>. QED BY <3>1, <3>2 DEF Rows!Write
  <2>4. ASSUME NEW v \in Value, NEW bit \in BOOLEAN, write(e, v, bit)
        PROVE  Rows!Write(e, v, bit)
    <3>1. RowOf(set, e) \in [value : Value, active : BOOLEAN]
      BY <2>0, <2>4, RowType DEF write
    <3>2. \A f \in Entity :
            RowOf(set', f) = IF f = e THEN [value |-> v, active |-> bit] ELSE RowOf(set, f)
      BY <2>0, <2>4, WriteCorrect DEF write
    <3>. QED BY <3>1, <3>2, AbsentAssumption DEF Rows!Write
  <2>5. CASE \E v \in Value, bit \in BOOLEAN : emplace(e, v, bit)
    BY <2>5, <2>1 DEF Rows!Next
  <2>6. CASE erase(e)
    BY <2>6, <2>2 DEF Rows!Next
  <2>7. CASE \E bit \in BOOLEAN : set_active(e, bit)
    BY <2>7, <2>3 DEF Rows!Next
  <2>8. CASE \E v \in Value, bit \in BOOLEAN : write(e, v, bit)
    BY <2>8, <2>4 DEF Rows!Next
  <2>. QED BY <2>5, <2>6, <2>7, <2>8
<1>. QED BY <1>1, <1>2, PoolCoherent, PTL DEF PoolSpec, RowsKept, Rows!Spec

-----------------------------------------------------------------------------
(***************************************************************************)
(* The views.                                                              *)
(***************************************************************************)

PoolsOK == pools \in [Component -> SetType] /\ \A c \in Component : Coherent(pools[c])

Frame ==
  [query : Query, inactive : BOOLEAN, driver : {1, 2}, base : Nat, word : SUBSET Nat,
   steady : SUBSET Entity, seen : [1 .. 1 -> SUBSET Entity] \cup [1 .. 2 -> SUBSET Entity],
   visited : Seq(Entity)]

\* The rows of the word are behind the visited ones and not beyond the rows
\* loaded, and were active when they were loaded.
WordAhead(f, at) ==
  \A p \in f.word :
    LET d == at[f.query[f.driver]] IN
    /\ p \in 1 .. Len(d.dense) /\ p <= f.base
    /\ d.dense[p] \in f.seen[f.driver]
    /\ \A n \in 1 .. Len(f.visited) : d.sparse[f.visited[n]] < p

VisitedInOrder(f, at) ==
  LET d == at[f.query[f.driver]] IN
  /\ \A n \in 1 .. Len(f.visited) :
       d.sparse[f.visited[n]] <= f.base /\ \A i \in DOMAIN f.query : f.visited[n] \in f.seen[i]
  /\ \A m, n \in 1 .. Len(f.visited) : m < n => d.sparse[f.visited[m]] < d.sparse[f.visited[n]]

\* What the history of a frame records: who matched all along, who joined once.
HistoryTrue(f, at) ==
  \A i \in DOMAIN f.query :
    /\ \A e \in f.steady : joins(at[f.query[i]], e, f.inactive)
    /\ \A e \in Entity : joins(at[f.query[i]], e, f.inactive) => e \in f.seen[i]

\* A steady row that was loaded is still in the word or was visited.
SteadyCovered(f, at) ==
  \A e \in f.steady :
    LET row == at[f.query[f.driver]].sparse[e] IN
    row <= f.base => row \in f.word \/ \E n \in 1 .. Len(f.visited) : f.visited[n] = e

ScanOK(f, at) ==
  /\ f.driver \in DOMAIN f.query /\ DOMAIN f.seen = DOMAIN f.query
  /\ WordAhead(f, at) /\ VisitedInOrder(f, at) /\ HistoryTrue(f, at) /\ SteadyCovered(f, at)

ViewInv ==
  /\ PoolsOK /\ running \in Seq(Frame)
  /\ \A k \in 1 .. Len(running) : ScanOK(running[k], pools)

-----------------------------------------------------------------------------
\* Every set of rows that is not empty has a first one.
LEMMA FirstRow ==
  ASSUME NEW S \in SUBSET Nat, S # {}
  PROVE  Min(S) \in S /\ \A m \in S : Min(S) <= m
  BY LeastOf DEF Min

LEMMA QueryDomain ==
  ASSUME NEW q \in Query
  PROVE  /\ DOMAIN q \in {1 .. 1, 1 .. 2}
         /\ \A i \in DOMAIN q : q[i] \in Component
  BY DEF Query

\* What a coherent pool says of the rows and their entities.
LEMMA RowFacts ==
  ASSUME NEW d \in SetType, Coherent(d)
  PROVE  /\ Len(d.dense) \in Nat
         /\ \A p \in 1 .. Len(d.dense) : d.dense[p] \in Entity /\ d.sparse[d.dense[p]] = p
         /\ \A e \in Entity : d.sparse[e] \in Nat
         /\ \A e \in Entity, inactive \in BOOLEAN :
              joins(d, e, inactive) => d.sparse[e] \in 1 .. Len(d.dense) /\ d.dense[d.sparse[e]] = e
         /\ \A p \in 1 .. Len(d.dense), inactive \in BOOLEAN :
              joins(d, d.dense[p], inactive) <=> (inactive \/ d.bits[p])
  BY CapacityNat DEF SetType, Coherent, joins, contains, Npos

\* The frame that is scanned, and its driver.
LEMMA ScanFacts ==
  ASSUME ViewInv, running # <<>>
  PROVE  /\ Len(running) \in 1 .. Len(running) /\ Scan \in Frame /\ ScanOK(Scan, pools)
         /\ Scan.driver \in DOMAIN Scan.query
         /\ \A i \in DOMAIN Scan.query :
              Scan.query[i] \in Component /\ pools[Scan.query[i]] \in SetType /\ Coherent(pools[Scan.query[i]])
         /\ Driver \in SetType /\ Coherent(Driver)
<1>1. Len(running) \in 1 .. Len(running) /\ running[Len(running)] \in Frame
  BY DEF ViewInv
<1>2. Scan \in Frame /\ ScanOK(Scan, pools)
  BY <1>1 DEF ViewInv, Scan
<1>3. Scan.query \in Query /\ Scan.driver \in DOMAIN Scan.query
  BY <1>2 DEF Frame, ScanOK
<1>. QED BY <1>1, <1>2, <1>3, QueryDomain DEF ViewInv, PoolsOK, Driver

\* The innermost frame is replaced, the pools stay.
LEMMA ReplaceScan ==
  ASSUME ViewInv, running # <<>>, UNCHANGED pools,
         NEW g \in Frame, ScanOK(g, pools), running' = [running EXCEPT ![Len(running)] = g]
  PROVE  ViewInv'
<1>1. PoolsOK'
  BY DEF ViewInv, PoolsOK
<1>2. running' \in Seq(Frame) /\ Len(running') = Len(running)
  BY DEF ViewInv
<1>3. \A k \in 1 .. Len(running) : running'[k] = IF k = Len(running) THEN g ELSE running[k]
  BY DEF ViewInv
<1>4. ASSUME NEW k \in 1 .. Len(running') PROVE ScanOK(running'[k], pools')
  BY <1>2, <1>3 DEF ViewInv
<1>. QED BY <1>1, <1>2, <1>4 DEF ViewInv

\* A toggle moves no row.
LEMMA SameRows ==
  ASSUME NEW s \in SetType, NEW pos, NEW bit \in BOOLEAN
  PROVE  set_row_active(s, pos, bit).dense = s.dense /\ set_row_active(s, pos, bit).sparse = s.sparse
  BY DEF set_row_active, SetType

LEMMA ChangeOnePool ==
  ASSUME ViewInv, NEW c \in Component, NEW t \in SetType, Coherent(t),
         pools' = [pools EXCEPT ![c] = t]
  PROVE  PoolsOK' /\ pools'[c] = t /\ \A d \in Component \ {c} : pools'[d] = pools[d]
  BY DEF ViewInv, PoolsOK

\* What a frame has seen may only grow, and what was steady only shrink, so a
\* frame stays true while the rows stay where they are.
LEMMA SettleFrame ==
  ASSUME ViewInv, PoolsOK', NEW f \in Frame, ScanOK(f, pools),
         \A d \in Component : pools'[d].dense = pools[d].dense /\ pools'[d].sparse = pools[d].sparse,
         NEW g,
         g = [f EXCEPT
                !.steady = @ \cap Matches(f.query, f.inactive, pools'),
                !.seen = [i \in DOMAIN @ |-> @[i] \cup Joining(pools'[f.query[i]], f.inactive)]]
  PROVE  g \in Frame /\ ScanOK(g, pools')
<1>1. /\ f.query \in Query /\ f.inactive \in BOOLEAN /\ f.steady \in SUBSET Entity
      /\ f.seen \in [1 .. 1 -> SUBSET Entity] \cup [1 .. 2 -> SUBSET Entity]
      /\ f.word \in SUBSET Nat /\ f.visited \in Seq(Entity) /\ f.base \in Nat
  BY DEF Frame
<1>2. /\ f.driver \in DOMAIN f.query /\ DOMAIN f.seen = DOMAIN f.query
      /\ \A i \in DOMAIN f.query : f.query[i] \in Component
  BY <1>1, QueryDomain DEF ScanOK
<1> DEFINE seen == [i \in DOMAIN f.seen |-> f.seen[i] \cup Joining(pools'[f.query[i]], f.inactive)]
           steady == f.steady \cap Matches(f.query, f.inactive, pools')
<1>3. /\ g.query = f.query /\ g.inactive = f.inactive /\ g.driver = f.driver /\ g.base = f.base
      /\ g.word = f.word /\ g.visited = f.visited /\ g.seen = seen /\ g.steady = steady
  BY DEF Frame
<1>4. g \in Frame
  <2>1. seen \in [1 .. 1 -> SUBSET Entity] \cup [1 .. 2 -> SUBSET Entity]
    BY <1>1 DEF Joining
  <2>2. steady \in SUBSET Entity
    BY <1>1
  <2>3. g = [f EXCEPT !.steady = steady, !.seen = seen]
    OBVIOUS
  <2>. HIDE DEF seen, steady
  <2>. QED BY <2>1, <2>2, <2>3 DEF Frame
<1>5. \A i \in DOMAIN f.query : f.seen[i] \subseteq seen[i] /\ Joining(pools'[f.query[i]], f.inactive) \subseteq seen[i]
  BY <1>2
<1>6. \A e \in steady : e \in f.steady /\ \A i \in DOMAIN f.query : joins(pools'[f.query[i]], e, f.inactive)
  BY DEF Matches
<1>. HIDE DEF seen, steady
<1>7. WordAhead(g, pools') /\ VisitedInOrder(g, pools')
  <2>1. PICK d, h : d = pools[f.query[f.driver]] /\ h = pools'[g.query[g.driver]]
    OBVIOUS
  <2>2. h.dense = d.dense /\ h.sparse = d.sparse
    BY <1>2, <1>3, <2>1
  <2>3. \A i \in DOMAIN f.query : f.seen[i] \subseteq g.seen[i]
    BY <1>3, <1>5
  <2>4. WordAhead(f, pools) /\ VisitedInOrder(f, pools)
    BY DEF ScanOK
  <2>5. WordAhead(g, pools')
    <3>1. SUFFICES ASSUME NEW p \in f.word
                   PROVE  /\ p \in 1 .. Len(h.dense) /\ p <= f.base /\ h.dense[p] \in g.seen[f.driver]
                          /\ \A n \in 1 .. Len(f.visited) : h.sparse[f.visited[n]] < p
      BY <1>3, <2>1 DEF WordAhead
    <3>2. /\ p \in 1 .. Len(d.dense) /\ p <= f.base /\ d.dense[p] \in f.seen[f.driver]
          /\ \A n \in 1 .. Len(f.visited) : d.sparse[f.visited[n]] < p
      BY <2>1, <2>4 DEF WordAhead
    <3>. QED BY <1>2, <2>2, <2>3, <3>2
  <2>6. VisitedInOrder(g, pools')
    <3>1. /\ \A n \in 1 .. Len(f.visited) :
               d.sparse[f.visited[n]] <= f.base /\ \A i \in DOMAIN f.query : f.visited[n] \in f.seen[i]
          /\ \A m, n \in 1 .. Len(f.visited) : m < n => d.sparse[f.visited[m]] < d.sparse[f.visited[n]]
      BY <2>1, <2>4 DEF VisitedInOrder
    <3>2. /\ \A n \in 1 .. Len(f.visited) :
               h.sparse[f.visited[n]] <= f.base /\ \A i \in DOMAIN f.query : f.visited[n] \in g.seen[i]
          /\ \A m, n \in 1 .. Len(f.visited) : m < n => h.sparse[f.visited[m]] < h.sparse[f.visited[n]]
      BY <2>2, <2>3, <3>1
    <3>. QED BY <1>3, <2>1, <3>2 DEF VisitedInOrder
  <2>. QED BY <2>5, <2>6
<1>8. HistoryTrue(g, pools')
  BY <1>2, <1>3, <1>5, <1>6 DEF HistoryTrue, Joining
<1>9. SteadyCovered(g, pools')
  BY <1>2, <1>3, <1>6 DEF ScanOK, SteadyCovered
<1>. QED BY <1>2, <1>3, <1>4, <1>7, <1>8, <1>9, <1>5 DEF ScanOK, seen

LEMMA SetActiveInv ==
  ASSUME ViewInv, NEW c \in Component, NEW e \in Entity, NEW bit \in BOOLEAN, view_set_active(c, e, bit)
  PROVE  ViewInv'
<1> DEFINE t == set_row_active(pools[c], pools[c].sparse[e], bit)
<1>1. pools[c] \in SetType /\ Coherent(pools[c]) /\ contains(pools[c], e)
  BY DEF ViewInv, PoolsOK, view_set_active
<1>2. t \in SetType /\ Coherent(t)
  BY <1>1, SetRowActiveCorrect
<1>3. t.dense = pools[c].dense /\ t.sparse = pools[c].sparse
  BY <1>1, SameRows
<1>4. pools' = [pools EXCEPT ![c] = t] /\ running' = Settle(running)
  BY DEF view_set_active
<1>. HIDE DEF t
<1>5. PoolsOK' /\ \A d \in Component : pools'[d].dense = pools[d].dense /\ pools'[d].sparse = pools[d].sparse
  BY <1>2, <1>3, <1>4, ChangeOnePool
<1>6. DOMAIN running = 1 .. Len(running) /\ DOMAIN running' = 1 .. Len(running)
  <2>1. DOMAIN running = 1 .. Len(running)
    BY DEF ViewInv
  <2>. QED BY <1>4, <2>1 DEF Settle
<1>7. ASSUME NEW k \in 1 .. Len(running) PROVE running'[k] \in Frame /\ ScanOK(running'[k], pools')
  <2>1. running[k] \in Frame /\ ScanOK(running[k], pools)
    BY DEF ViewInv
  <2>2. running'[k] = [running[k] EXCEPT
           !.steady = @ \cap Matches(running[k].query, running[k].inactive, pools'),
           !.seen = [i \in DOMAIN @ |-> @[i] \cup Joining(pools'[running[k].query[i]], running[k].inactive)]]
    BY <1>4, <1>6 DEF Settle
  <2>. QED BY <1>5, <2>1, <2>2, SettleFrame
<1>8. running' \in Seq(Frame) /\ Len(running') = Len(running)
  <2>1. Len(running) \in Nat
    BY DEF ViewInv
  <2>2. running' = [k \in 1 .. Len(running) |-> running'[k]]
    BY <1>4, <1>6 DEF Settle
  <2>. QED BY <1>7, <2>1, <2>2
<1>. QED BY <1>5, <1>7, <1>8 DEF ViewInv

LEMMA StructuralInv ==
  ASSUME ViewInv, NEW c \in Component, NEW e \in Entity,
         \/ \E v \in Value, bit \in BOOLEAN : view_emplace(c, e, v, bit)
         \/ view_erase(c, e)
  PROVE  ViewInv'
<1>1. pools[c] \in SetType /\ Coherent(pools[c])
  BY DEF ViewInv, PoolsOK
<1>2. PICK t \in SetType : Coherent(t) /\ pools' = [pools EXCEPT ![c] = t]
  BY <1>1, InsertCorrect, RemoveCorrect DEF view_emplace, view_erase
<1>3. running = <<>> /\ running' = running
  BY DEF view_emplace, view_erase
<1>4. PoolsOK'
  BY <1>2, ChangeOnePool
<1>5. running' = <<>> /\ running' \in Seq(Frame)
  BY <1>3
<1>. QED BY <1>4, <1>5 DEF ViewInv

-----------------------------------------------------------------------------
\* The driver is a position of the query.
LEMMA DriverExists ==
  ASSUME PoolsOK, NEW q \in Query
  PROVE  driver_index(q) \in DOMAIN q
<1>1. \A i \in DOMAIN q : q[i] \in Component /\ Len(pools[q[i]].dense) \in Nat
  BY QueryDomain DEF PoolsOK, SetType
<1> DEFINE Smallest(i) ==
             /\ \A j \in DOMAIN q : Len(pools[q[i]].dense) <= Len(pools[q[j]].dense)
             /\ \A j \in 1 .. i - 1 : Len(pools[q[j]].dense) > Len(pools[q[i]].dense)
<1>2. \E i \in DOMAIN q : Smallest(i)
  <2>1. CASE DOMAIN q = 1 .. 1
    <3>1. Smallest(1)
      BY <1>1, <2>1
    <3>. QED BY <2>1, <3>1
  <2>2. CASE DOMAIN q = 1 .. 2
    <3>1. DOMAIN q = {1, 2} /\ Len(pools[q[1]].dense) \in Nat /\ Len(pools[q[2]].dense) \in Nat
      BY <1>1, <2>2
    <3>2. CASE Len(pools[q[1]].dense) <= Len(pools[q[2]].dense)
      <4>1. Smallest(1)
        BY <3>1, <3>2
      <4>. QED BY <3>1, <4>1
    <3>3. CASE Len(pools[q[2]].dense) < Len(pools[q[1]].dense)
      <4>1. Smallest(2)
        BY <3>1, <3>3
      <4>. QED BY <3>1, <4>1
    <3>. QED BY <3>1, <3>2, <3>3
  <2>. QED BY <2>1, <2>2, QueryDomain
<1>3. driver_index(q) = CHOOSE i \in DOMAIN q : Smallest(i)
  BY DEF driver_index
<1>. HIDE DEF Smallest
<1>. QED BY <1>2, <1>3

LEMMA BeginInv ==
  ASSUME ViewInv, NEW q \in Query, NEW inactive \in BOOLEAN, begin_each(q, inactive)
  PROVE  ViewInv'
<1> DEFINE seen == [i \in DOMAIN q |-> Joining(pools[q[i]], inactive)]
           steady == Matches(q, inactive, pools)
<1>1. PICK f : /\ f = [query |-> q, inactive |-> inactive, driver |-> driver_index(q),
                       base |-> 0, word |-> {}, steady |-> steady, seen |-> seen, visited |-> <<>>]
               /\ running' = Append(running, f)
  BY DEF begin_each
<1>2. pools' = pools /\ PoolsOK /\ running \in Seq(Frame)
  BY DEF begin_each, ViewInv
<1>3. driver_index(q) \in DOMAIN q /\ driver_index(q) \in {1, 2}
  BY <1>2, DriverExists, QueryDomain
<1>4. seen \in [1 .. 1 -> SUBSET Entity] \cup [1 .. 2 -> SUBSET Entity] /\ DOMAIN seen = DOMAIN q
  BY QueryDomain DEF Joining
<1>5. steady \in SUBSET Entity
  BY DEF Matches
<1>6. /\ \A i \in DOMAIN q : \A e \in steady : joins(pools[q[i]], e, inactive)
      /\ \A i \in DOMAIN q : \A e \in Entity : joins(pools[q[i]], e, inactive) => e \in seen[i]
  BY DEF Matches, Joining
<1>. HIDE DEF seen, steady
<1>7. f \in Frame
  BY <1>1, <1>3, <1>4, <1>5 DEF Frame
<1>8. ScanOK(f, pools)
  <2>1. WordAhead(f, pools) /\ VisitedInOrder(f, pools)
    BY <1>1 DEF WordAhead, VisitedInOrder
  <2>2. HistoryTrue(f, pools)
    BY <1>1, <1>6 DEF HistoryTrue
  <2>3. SteadyCovered(f, pools)
    <3>. SUFFICES ASSUME NEW e \in steady PROVE ~(pools[q[driver_index(q)]].sparse[e] <= 0)
      BY <1>1 DEF SteadyCovered
    <3>1. /\ pools[q[driver_index(q)]] \in SetType /\ Coherent(pools[q[driver_index(q)]])
          /\ joins(pools[q[driver_index(q)]], e, inactive) /\ e \in Entity
      BY <1>2, <1>3, <1>5, <1>6, QueryDomain DEF PoolsOK
    <3>. QED BY <3>1, RowFacts
  <2>. QED BY <1>1, <1>3, <1>4, <2>1, <2>2, <2>3 DEF ScanOK
<1>9. ASSUME NEW k \in 1 .. Len(running') PROVE ScanOK(running'[k], pools')
  <2>1. CASE k \in 1 .. Len(running)
    <3>1. running'[k] = running[k]
      BY <1>1, <1>2, <2>1
    <3>. QED BY <1>2, <2>1, <3>1 DEF ViewInv
  <2>2. CASE k = Len(running) + 1
    <3>1. running'[k] = f
      BY <1>1, <1>2, <2>2
    <3>. QED BY <1>2, <1>8, <3>1
  <2>. QED BY <1>1, <1>2, <2>1, <2>2
<1>10. running' \in Seq(Frame)
  BY <1>1, <1>2, <1>7
<1>11. PoolsOK'
  BY <1>2 DEF PoolsOK
<1>. QED BY <1>9, <1>10, <1>11 DEF ViewInv

LEMMA EndInv ==
  ASSUME ViewInv, end_each
  PROVE  ViewInv'
<1>1. running # <<>> /\ running' = SubSeq(running, 1, Len(running) - 1) /\ pools' = pools
  BY DEF end_each, AtEnd
<1>2. running \in Seq(Frame) /\ Len(running) \in Nat \ {0}
  BY <1>1 DEF ViewInv
<1>3. running' \in Seq(Frame) /\ Len(running') = Len(running) - 1
      /\ \A k \in 1 .. Len(running) - 1 : running'[k] = running[k]
  BY <1>1, <1>2, DropLast
<1>. QED BY <1>1, <1>2, <1>3 DEF ViewInv, PoolsOK

-----------------------------------------------------------------------------
\* Loading a word: every row up to the last one loaded is now visited, in the
\* word, or did not match.
LEMMA LoadInv ==
  ASSUME ViewInv, load_word
  PROVE  ViewInv'
<1>1. running # <<>> /\ Scan.word = {} /\ Scan.base < Len(Driver.dense) /\ pools' = pools
  BY DEF load_word
<1>2. /\ Scan \in Frame /\ ScanOK(Scan, pools) /\ Scan.driver \in DOMAIN Scan.query
      /\ Driver \in SetType /\ Coherent(Driver) /\ Len(running) \in 1 .. Len(running)
  BY <1>1, ScanFacts
<1>3. Scan.base \in Nat /\ Scan.inactive \in BOOLEAN /\ WordSize \in Nat \ {0}
      /\ Len(Driver.dense) \in Nat /\ Scan.visited \in Seq(Entity) /\ Scan.steady \in SUBSET Entity
  BY <1>2, RowFacts, ViewAssumption DEF Frame
<1> DEFINE top == Min({Scan.base + WordSize, Len(Driver.dense)})
<1>4. /\ top \in Nat /\ top <= Scan.base + WordSize /\ top <= Len(Driver.dense)
      /\ \A p \in Nat : p <= Scan.base + WordSize /\ p <= Len(Driver.dense) => p <= top
  <2>1. {Scan.base + WordSize, Len(Driver.dense)} \in SUBSET Nat
    BY <1>3
  <2>. QED BY <2>1, <1>3, FirstRow
<1>. HIDE DEF top
<1>5. PICK g : g = [Scan EXCEPT !.word = {p \in Scan.base + 1 .. top : Scan.inactive \/ Driver.bits[p]},
                               !.base = Scan.base + WordSize]
  OBVIOUS
<1>6. running' = [running EXCEPT ![Len(running)] = g]
  BY <1>2, <1>5 DEF load_word, top, Scan
<1>7. /\ g.query = Scan.query /\ g.inactive = Scan.inactive /\ g.driver = Scan.driver
      /\ g.steady = Scan.steady /\ g.seen = Scan.seen /\ g.visited = Scan.visited
      /\ g.base = Scan.base + WordSize
      /\ g.word = {p \in Scan.base + 1 .. top : Scan.inactive \/ Driver.bits[p]}
  BY <1>2, <1>5 DEF Frame
<1>8. g \in Frame
  <2>1. Scan.base + WordSize \in Nat
    BY <1>3
  <2>2. {p \in Scan.base + 1 .. top : Scan.inactive \/ Driver.bits[p]} \in SUBSET Nat
    BY <1>3, <1>4
  <2>. QED BY <1>2, <1>5, <2>1, <2>2 DEF Frame
<1>9. Driver = pools[g.query[g.driver]] /\ g.driver \in DOMAIN g.query
  BY <1>2, <1>7 DEF Driver
<1>10. ASSUME NEW p \in g.word
       PROVE  /\ p \in 1 .. Len(Driver.dense) /\ p <= g.base /\ Scan.base < p
              /\ Scan.inactive \/ Driver.bits[p]
  BY <1>3, <1>4, <1>7
<1>11. WordAhead(g, pools)
  <2>. SUFFICES ASSUME NEW p \in g.word
                PROVE  /\ Driver.dense[p] \in g.seen[g.driver]
                       /\ \A n \in 1 .. Len(g.visited) : Driver.sparse[g.visited[n]] < p
    BY <1>9, <1>10 DEF WordAhead
  <2>1. Driver.dense[p] \in Entity /\ joins(Driver, Driver.dense[p], Scan.inactive)
    BY <1>2, <1>3, <1>10, RowFacts
  <2>2. Driver.dense[p] \in g.seen[g.driver]
    BY <1>2, <1>7, <1>9, <2>1 DEF ScanOK, HistoryTrue
  <2>3. ASSUME NEW n \in 1 .. Len(g.visited) PROVE Driver.sparse[g.visited[n]] < p
    <3>1. Driver.sparse[Scan.visited[n]] <= Scan.base /\ g.visited[n] = Scan.visited[n]
      BY <1>2, <1>7 DEF ScanOK, VisitedInOrder, Driver
    <3>2. Driver.sparse[Scan.visited[n]] \in Nat
      BY <1>2, <1>3, <1>7, RowFacts
    <3>. QED BY <1>3, <1>4, <1>7, <1>10, <3>1, <3>2
  <2>. QED BY <2>2, <2>3
<1>12. VisitedInOrder(g, pools)
  <2>1. ASSUME NEW n \in 1 .. Len(g.visited) PROVE Driver.sparse[g.visited[n]] <= g.base
    <3>1. Driver.sparse[Scan.visited[n]] <= Scan.base /\ g.visited[n] = Scan.visited[n]
      BY <1>2, <1>7 DEF ScanOK, VisitedInOrder, Driver
    <3>2. Driver.sparse[Scan.visited[n]] \in Nat
      BY <1>2, <1>3, <1>7, RowFacts
    <3>. QED BY <1>3, <1>7, <3>1, <3>2
  <2>. QED BY <1>2, <1>7, <1>9, <2>1 DEF ScanOK, VisitedInOrder, Driver
<1>13. HistoryTrue(g, pools)
  BY <1>2, <1>7 DEF ScanOK, HistoryTrue
<1>14. SteadyCovered(g, pools)
  <2>. SUFFICES ASSUME NEW e \in g.steady, Driver.sparse[e] <= g.base
                PROVE  \/ Driver.sparse[e] \in g.word
                       \/ \E n \in 1 .. Len(g.visited) : g.visited[n] = e
    BY <1>9 DEF SteadyCovered
  <2>1. e \in Entity /\ joins(Driver, e, Scan.inactive)
    BY <1>2, <1>3, <1>7 DEF ScanOK, HistoryTrue, Driver
  <2>2. /\ Driver.sparse[e] \in 1 .. Len(Driver.dense) /\ Driver.dense[Driver.sparse[e]] = e
        /\ Scan.inactive \/ Driver.bits[Driver.sparse[e]]
    BY <1>2, <1>3, <2>1, RowFacts
  <2>3. CASE Driver.sparse[e] <= Scan.base
    BY <1>1, <1>2, <1>7, <2>3 DEF ScanOK, SteadyCovered, Driver
  <2>4. CASE ~(Driver.sparse[e] <= Scan.base)
    BY <1>3, <1>4, <1>7, <2>2, <2>4
  <2>. QED BY <2>3, <2>4
<1>15. ScanOK(g, pools)
  BY <1>2, <1>7, <1>9, <1>11, <1>12, <1>13, <1>14 DEF ScanOK
<1>. QED BY <1>1, <1>6, <1>8, <1>15, ReplaceScan

\* Taking a row: it is the first of the word, so behind every visited one; its
\* entity joined the driver when the word was loaded and the others now.
LEMMA VisitInv ==
  ASSUME ViewInv, visit_row
  PROVE  ViewInv'
<1>1. running # <<>> /\ Scan.word # {} /\ pools' = pools
  BY DEF visit_row
<1>2. /\ Scan \in Frame /\ ScanOK(Scan, pools) /\ Scan.driver \in DOMAIN Scan.query
      /\ Driver \in SetType /\ Coherent(Driver) /\ Len(running) \in 1 .. Len(running)
      /\ WordAhead(Scan, pools) /\ VisitedInOrder(Scan, pools)
      /\ HistoryTrue(Scan, pools) /\ SteadyCovered(Scan, pools) /\ DOMAIN Scan.seen = DOMAIN Scan.query
  BY <1>1, ScanFacts DEF ScanOK
<1>3. /\ Scan.base \in Nat /\ Scan.inactive \in BOOLEAN /\ Scan.word \in SUBSET Nat
      /\ Scan.visited \in Seq(Entity) /\ Scan.steady \in SUBSET Entity
  BY <1>2 DEF Frame
<1>4. PICK p : p = Min(Scan.word) /\ p \in Scan.word /\ \A m \in Scan.word : p <= m
  BY <1>1, <1>3, FirstRow
<1>5. PICK e : e = Driver.dense[p]
  OBVIOUS
<1> DEFINE joined == \A i \in DOMAIN Scan.query \ {Scan.driver} :
                       joins(pools[Scan.query[i]], e, Scan.inactive)
<1>6. PICK g : g = [Scan EXCEPT !.word = Scan.word \ {p},
                               !.visited = IF joined THEN Append(Scan.visited, e) ELSE Scan.visited]
  OBVIOUS
<1>7. running' = [running EXCEPT ![Len(running)] = g]
  BY <1>2, <1>4, <1>5, <1>6 DEF visit_row, Scan
<1>8. /\ p \in 1 .. Len(Driver.dense) /\ p <= Scan.base /\ e \in Scan.seen[Scan.driver]
      /\ e \in Entity /\ Driver.sparse[e] = p
      /\ \A n \in 1 .. Len(Scan.visited) : Driver.sparse[Scan.visited[n]] < p
  <2>1. /\ p \in 1 .. Len(Driver.dense) /\ p <= Scan.base /\ e \in Scan.seen[Scan.driver]
        /\ \A n \in 1 .. Len(Scan.visited) : Driver.sparse[Scan.visited[n]] < p
    BY <1>2, <1>4, <1>5 DEF WordAhead, Driver
  <2>. QED BY <1>2, <1>5, <2>1, RowFacts
<1>9. /\ g.query = Scan.query /\ g.inactive = Scan.inactive /\ g.driver = Scan.driver
      /\ g.steady = Scan.steady /\ g.seen = Scan.seen /\ g.base = Scan.base
      /\ g.word = Scan.word \ {p}
      /\ g.visited = IF joined THEN Append(Scan.visited, e) ELSE Scan.visited
  BY <1>2, <1>6 DEF Frame
<1>10. joined => \A i \in DOMAIN Scan.query : e \in Scan.seen[i]
  BY <1>2, <1>8 DEF HistoryTrue
<1>11. ASSUME NEW s \in g.steady PROVE s = e => joined
  BY <1>2, <1>9 DEF HistoryTrue
<1>. HIDE DEF joined
<1>12. g.visited \in Seq(Entity)
  BY <1>3, <1>8, <1>9
<1>13. g \in Frame
  <2>1. Scan.word \ {p} \in SUBSET Nat
    BY <1>3
  <2>2. g = [Scan EXCEPT !.word = Scan.word \ {p}, !.visited = g.visited]
    BY <1>6, <1>9
  <2>. QED BY <1>2, <1>12, <2>1, <2>2 DEF Frame
<1>14. Driver = pools[g.query[g.driver]] /\ g.driver \in DOMAIN g.query
  BY <1>2, <1>9 DEF Driver
\* The callbacks made: those before, then this one, whose row is the last.
<1>15. \A n \in 1 .. Len(g.visited) :
         \/ n \in 1 .. Len(Scan.visited) /\ g.visited[n] = Scan.visited[n]
         \/ joined /\ n = Len(Scan.visited) + 1 /\ g.visited[n] = e
  BY <1>3, <1>9
<1>16. \A n \in 1 .. Len(Scan.visited) :
         /\ n \in 1 .. Len(g.visited) /\ g.visited[n] = Scan.visited[n] /\ n < Len(Scan.visited) + 1
         /\ Driver.sparse[Scan.visited[n]] \in Nat /\ Driver.sparse[Scan.visited[n]] < p
         /\ Driver.sparse[Scan.visited[n]] <= Scan.base
         /\ \A i \in DOMAIN Scan.query : Scan.visited[n] \in Scan.seen[i]
  <2>1. \A n \in 1 .. Len(Scan.visited) :
          /\ n \in 1 .. Len(g.visited) /\ g.visited[n] = Scan.visited[n] /\ n < Len(Scan.visited) + 1
          /\ Scan.visited[n] \in Entity
    BY <1>3, <1>9
  <2>2. \A n \in 1 .. Len(Scan.visited) : Driver.sparse[Scan.visited[n]] \in Nat
    BY <1>2, <2>1, RowFacts
  <2>. QED BY <1>2, <1>8, <2>1, <2>2 DEF VisitedInOrder, Driver
<1>17. p \in Nat
  BY <1>3, <1>4
<1>18. WordAhead(g, pools)
  <2>. SUFFICES ASSUME NEW r \in g.word
                PROVE  /\ r \in 1 .. Len(Driver.dense) /\ r <= g.base
                       /\ Driver.dense[r] \in g.seen[g.driver]
                       /\ \A n \in 1 .. Len(g.visited) : Driver.sparse[g.visited[n]] < r
    BY <1>14 DEF WordAhead
  <2>1. r \in Scan.word /\ p < r
    BY <1>3, <1>4, <1>9, <1>17
  <2>2. /\ r \in 1 .. Len(Driver.dense) /\ r <= g.base /\ Driver.dense[r] \in g.seen[g.driver]
        /\ \A n \in 1 .. Len(Scan.visited) : Driver.sparse[Scan.visited[n]] < r
    BY <1>2, <1>9, <2>1 DEF WordAhead, Driver
  <2>. QED BY <1>8, <1>15, <2>1, <2>2
<1>19. VisitedInOrder(g, pools)
  <2>1. ASSUME NEW n \in 1 .. Len(g.visited)
        PROVE  Driver.sparse[g.visited[n]] <= g.base /\ \A i \in DOMAIN g.query : g.visited[n] \in g.seen[i]
    BY <1>8, <1>9, <1>10, <1>15, <1>16
  <2>2. ASSUME NEW m \in 1 .. Len(g.visited), NEW n \in 1 .. Len(g.visited), m < n
        PROVE  Driver.sparse[g.visited[m]] < Driver.sparse[g.visited[n]]
    <3>1. CASE n \in 1 .. Len(Scan.visited) /\ g.visited[n] = Scan.visited[n]
      <4>1. m \in 1 .. Len(Scan.visited) /\ g.visited[m] = Scan.visited[m]
        BY <1>3, <1>16, <2>2, <3>1
      <4>. QED BY <1>2, <2>2, <3>1, <4>1 DEF VisitedInOrder, Driver
    <3>2. CASE n = Len(Scan.visited) + 1 /\ g.visited[n] = e
      <4>1. m \in 1 .. Len(Scan.visited) /\ g.visited[m] = Scan.visited[m]
        BY <1>3, <1>16, <2>2, <3>2
      <4>. QED BY <1>8, <1>16, <3>2, <4>1
    <3>. QED BY <1>15, <3>1, <3>2
  <2>. QED BY <1>14, <2>1, <2>2 DEF VisitedInOrder
<1>20. HistoryTrue(g, pools)
  BY <1>2, <1>9 DEF HistoryTrue
<1>21. SteadyCovered(g, pools)
  <2>. SUFFICES ASSUME NEW s \in g.steady, Driver.sparse[s] <= g.base, Driver.sparse[s] \notin g.word
                PROVE  \E n \in 1 .. Len(g.visited) : g.visited[n] = s
    BY <1>14 DEF SteadyCovered
  <2>1. CASE Driver.sparse[s] = p
    <3>1. s \in Entity /\ joins(Driver, s, Scan.inactive)
      BY <1>2, <1>3, <1>9 DEF HistoryTrue, Driver
    <3>2. s = e
      BY <1>2, <1>3, <1>5, <2>1, <3>1, RowFacts
    <3>3. g.visited = Append(Scan.visited, e)
      BY <1>9, <1>11, <3>2
    <3>. QED BY <1>3, <3>2, <3>3
  <2>2. CASE Driver.sparse[s] # p
    <3>1. \E n \in 1 .. Len(Scan.visited) : Scan.visited[n] = s
      BY <1>2, <1>9, <2>2 DEF SteadyCovered, Driver
    <3>. QED BY <1>16, <3>1
  <2>. QED BY <2>1, <2>2
<1>22. ScanOK(g, pools)
  BY <1>2, <1>9, <1>18, <1>19, <1>20, <1>21 DEF ScanOK
<1>. QED BY <1>1, <1>7, <1>13, <1>22, ReplaceScan

-----------------------------------------------------------------------------
LEMMA StepViewInv == ViewInv /\ [ViewNext]_viewVars => ViewInv'
<1>1. ASSUME ViewInv, UNCHANGED viewVars PROVE ViewInv'
  BY <1>1 DEF ViewInv, PoolsOK, viewVars
<1>2. ASSUME ViewInv, ViewNext PROVE ViewInv'
  BY <1>2, StructuralInv, SetActiveInv, BeginInv, LoadInv, VisitInv, EndInv DEF ViewNext
<1>. QED BY <1>1, <1>2

LEMMA ViewAlways == ViewSpec => []ViewInv
<1>1. ViewInit => ViewInv
  BY EmptySetInv DEF ViewInit, ViewInv, PoolsOK
<1>. QED BY <1>1, StepViewInv, PTL DEF ViewSpec

\* A view visits, in packed order and once, every entity that matches its
\* query from the start of the scan to its end (View::each), whatever the
\* callbacks toggle and however deep the views nest.
THEOREM ViewsMissNothing == ViewSpec => []NoRowMissed
<1>1. ViewInv => NoRowMissed
  <2>. SUFFICES ASSUME ViewInv PROVE NoRowMissed
    OBVIOUS
  <2>1. ASSUME NEW k \in DOMAIN running
        PROVE  LET driver == pools[running[k].query[running[k].driver]] IN
               \A m, n \in DOMAIN running[k].visited :
                 m < n => driver.sparse[running[k].visited[m]] < driver.sparse[running[k].visited[n]]
    <3>1. k \in 1 .. Len(running) /\ running[k] \in Frame /\ ScanOK(running[k], pools)
      BY DEF ViewInv
    <3>2. DOMAIN running[k].visited = 1 .. Len(running[k].visited)
      BY <3>1 DEF Frame
    <3>. QED BY <3>1, <3>2 DEF ScanOK, VisitedInOrder
  <2>2. ASSUME AtEnd, NEW e \in Scan.steady
        PROVE  \E n \in DOMAIN Scan.visited : Scan.visited[n] = e
    <3>1. /\ Scan \in Frame /\ ScanOK(Scan, pools) /\ Scan.driver \in DOMAIN Scan.query
          /\ Driver \in SetType /\ Coherent(Driver) /\ Scan.word = {} /\ Scan.base >= Len(Driver.dense)
      BY <2>2, ScanFacts DEF AtEnd
    <3>2. e \in Entity /\ Scan.inactive \in BOOLEAN /\ Scan.base \in Nat
          /\ DOMAIN Scan.visited = 1 .. Len(Scan.visited)
      BY <3>1 DEF Frame
    <3>3. joins(Driver, e, Scan.inactive)
      BY <3>1 DEF ScanOK, HistoryTrue, Driver
    <3>4. Driver.sparse[e] <= Scan.base
      BY <3>1, <3>2, <3>3, RowFacts
    <3>. QED BY <3>1, <3>2, <3>4 DEF ScanOK, SteadyCovered, Driver
  <2>. QED BY <2>1, <2>2 DEF NoRowMissed
<1>. QED BY <1>1, ViewAlways, PTL

\* An entity that was inactive in a queried pool for the whole scan is never
\* visited: systems do not see the components of inactive states.
THEOREM ViewsSkipInactive == ViewSpec => []InactiveNeverVisited
<1>1. ViewInv => InactiveNeverVisited
  <2>. SUFFICES ASSUME ViewInv, NEW k \in DOMAIN running, NEW n \in DOMAIN running[k].visited,
                       NEW i \in DOMAIN running[k].query
                PROVE  running[k].visited[n] \in running[k].seen[i]
    BY DEF InactiveNeverVisited
  <2>1. k \in 1 .. Len(running) /\ running[k] \in Frame /\ ScanOK(running[k], pools)
    BY DEF ViewInv
  <2>2. n \in 1 .. Len(running[k].visited)
    BY <2>1 DEF Frame
  <2>. QED BY <2>1, <2>2 DEF ScanOK, VisitedInOrder
<1>. QED BY <1>1, ViewAlways, PTL

-----------------------------------------------------------------------------
(***************************************************************************)
(* The tick loop and the physics phase.                                    *)
(***************************************************************************)

Given == [input : Input, tick : Nat]

TickTypeOK ==
  /\ tick \in Nat /\ phase \in 0 .. kTickEnd /\ poisoned \in BOOLEAN
  /\ input_queue \in Seq(Input) /\ input_drain \in Seq(Input)
  /\ markers \in Seq([tick : Nat, phase : Nat])
  /\ published \in Seq(Nat) /\ ticks \in Nat
  /\ injected \in Seq(Given) /\ resolved \in Seq(Given)

\* The heartbeat up to the last marker, which is that of the phase that runs or,
\* between ticks, of the one the last tick ended or failed in; every packet has
\* the last marker of its tick.
Heartbeat ==
  /\ \A n \in 1 .. Len(markers) - 1 : Follows(markers[n], markers[n + 1])
  /\ Len(markers) # 0 => markers[1] = Marker(1, kTickBegin)

LastMarker ==
  /\ phase # 0 => Len(markers) # 0 /\ markers[Len(markers)] = Marker(tick, phase)
  /\ phase = 0 /\ ~poisoned =>
       IF Len(markers) = 0 THEN tick = 0
       ELSE markers[Len(markers)] \in {Marker(tick, kStructuralApply), Marker(tick, kTickEnd)}

PacketsMarked ==
  /\ \A k \in 1 .. Len(published) : \E n \in 1 .. Len(markers) : markers[n] = Marker(published[k], kTickEnd)
  /\ \A k \in 1 .. Len(published) - 1 : published[k] < published[k + 1]
  /\ \A k \in 1 .. Len(published) : published[k] <= tick /\ (phase # 0 => published[k] < tick)
  /\ ticks <= Len(published) /\ (ticks < Len(published) => poisoned)

MarkersInPlace == Heartbeat /\ LastMarker /\ PacketsMarked

\* An injected input is resolved, to be delivered in the running input phase,
\* or queued, in this order.
InputsKept ==
  /\ Len(injected) = Len(resolved) + Len(input_drain) + Len(input_queue)
  /\ \A k \in 1 .. Len(resolved) : resolved[k] = injected[k]
  /\ \A k \in 1 .. Len(input_drain) : input_drain[k] = injected[Len(resolved) + k].input
  /\ \A k \in 1 .. Len(input_queue) :
       input_queue[k] = injected[Len(resolved) + Len(input_drain) + k].input

InputsDue ==
  /\ ~poisoned /\ phase # kInput => Len(input_drain) = 0
  /\ phase = kInput => \A k \in 1 .. Len(input_drain) : injected[Len(resolved) + k].tick = tick
  /\ ~poisoned => \A k \in 1 .. Len(input_queue) :
       injected[Len(resolved) + Len(input_drain) + k].tick = IF phase = kTickBegin THEN tick ELSE tick + 1

TickInv == TickTypeOK /\ MarkersInPlace /\ InputsKept /\ InputsDue

-----------------------------------------------------------------------------
\* A marker goes behind the last one, or the tick ends.
LEMMA MarkerKeeps ==
  ASSUME TickTypeOK, MarkersInPlace, NEW t \in Nat, NEW p \in 1 .. kTickEnd, phase_marker(t, p),
         UNCHANGED <<published, ticks, poisoned>>, tick' = t, t >= tick, phase = 0 => t > tick,
         ~poisoned => IF Len(markers) = 0 THEN t = 1 /\ p = kTickBegin
                      ELSE Follows(markers[Len(markers)], Marker(t, p))
  PROVE  /\ markers' \in Seq([tick : Nat, phase : Nat]) /\ MarkersInPlace'
         /\ phase' = IF poisoned THEN 0 ELSE p
<1>1. /\ markers \in Seq([tick : Nat, phase : Nat]) /\ published \in Seq(Nat)
      /\ Len(markers) \in Nat /\ Len(published) \in Nat /\ ticks \in Nat /\ tick \in Nat
      /\ Heartbeat /\ LastMarker /\ PacketsMarked /\ t \in Nat /\ p \in 1 .. 9
  BY DEF TickTypeOK, MarkersInPlace, kTickEnd
<1>2. \A k \in 1 .. Len(published) : published[k] \in Nat /\ published[k] <= tick /\ (phase # 0 => published[k] < tick)
  BY <1>1, ElementOfSeq DEF PacketsMarked
<1>3. CASE poisoned
  <2>1. phase' = 0 /\ markers' = markers
    BY <1>3 DEF phase_marker
  <2>2. Heartbeat' /\ LastMarker'
    BY <1>1, <1>3, <2>1 DEF Heartbeat, LastMarker
  <2>3. PacketsMarked'
    BY <1>1, <1>2, <2>1 DEF PacketsMarked
  <2>. QED BY <1>1, <1>3, <2>1, <2>2, <2>3 DEF MarkersInPlace
<1>4. CASE ~poisoned
  <2> DEFINE m == Marker(t, p)
             n == Len(markers)
  <2>1. /\ m \in [tick : Nat, phase : Nat] /\ n \in Nat
        /\ markers' = Append(markers, m) /\ phase' = p
    BY <1>1, <1>4 DEF phase_marker, Marker
  <2>. HIDE DEF m
  <2>2. /\ markers' \in Seq([tick : Nat, phase : Nat]) /\ Len(markers') = n + 1
        /\ \A k \in 1 .. n : markers'[k] = markers[k]
        /\ markers'[n + 1] = m
    BY <1>1, <2>1
  <2>. HIDE DEF n
  <2>3. Heartbeat'
    <3>1. ASSUME NEW k \in 1 .. Len(markers') - 1 PROVE Follows(markers'[k], markers'[k + 1])
      <4>1. CASE k = n
        <5>1. n # 0 /\ markers'[n] = markers[n]
          BY <2>1, <2>2, <4>1
        <5>. QED BY <1>4, <2>2, <4>1, <5>1 DEF n, m
      <4>2. CASE k # n
        <5>1. k \in 1 .. n - 1 /\ k \in 1 .. n /\ k + 1 \in 1 .. n
          BY <2>1, <2>2, <4>2
        <5>2. Follows(markers[k], markers[k + 1])
          BY <1>1, <5>1 DEF Heartbeat, n
        <5>. QED BY <2>2, <5>1, <5>2
      <4>. QED BY <4>1, <4>2
    <3>2. markers'[1] = Marker(1, kTickBegin)
      <4>1. CASE n = 0
        BY <1>4, <2>2, <4>1 DEF n, m
      <4>2. CASE n # 0
        BY <1>1, <2>1, <2>2, <4>2 DEF Heartbeat, n
      <4>. QED BY <4>1, <4>2
    <3>. QED BY <3>1, <3>2 DEF Heartbeat
  <2>4. LastMarker'
    BY <1>1, <2>1, <2>2 DEF LastMarker, m
  <2>5. PacketsMarked'
    <3>1. ASSUME NEW k \in 1 .. Len(published)
          PROVE  \E j \in 1 .. Len(markers') : markers'[j] = Marker(published[k], kTickEnd)
      <4>1. PICK j \in 1 .. n : markers[j] = Marker(published[k], kTickEnd)
        BY <1>1 DEF PacketsMarked, n
      <4>. QED BY <2>1, <2>2, <4>1
    <3>2. \A k \in 1 .. Len(published) : published[k] < t
      BY <1>1, <1>2
    <3>3. \A k \in 1 .. Len(published) : published[k] <= t
      BY <1>1, <1>2, <3>2
    <3>4. /\ \A k \in 1 .. Len(published) - 1 : published[k] < published[k + 1]
          /\ ticks <= Len(published) /\ (ticks < Len(published) => poisoned)
      BY <1>1 DEF PacketsMarked
    <3>5. tick' = t /\ UNCHANGED <<published, ticks, poisoned>>
      OBVIOUS
    <3>. QED BY ONLY <3>1, <3>2, <3>3, <3>4, <3>5 DEF PacketsMarked
  <2>. QED BY <1>4, <2>1, <2>2, <2>3, <2>4, <2>5 DEF MarkersInPlace
<1>. QED BY <1>3, <1>4

\* What the loop knows of its markers, where a step leaves them alone.
LEMMA MarkersRest ==
  ASSUME TickTypeOK, MarkersInPlace, UNCHANGED <<tick, markers, published, ticks>>,
         poisoned => poisoned', phase' = phase \/ (phase' = 0 /\ poisoned')
  PROVE  MarkersInPlace'
<1>1. Heartbeat /\ LastMarker /\ PacketsMarked
  BY DEF MarkersInPlace
<1>2. Heartbeat' /\ LastMarker'
  BY <1>1 DEF Heartbeat, LastMarker
<1>3. PacketsMarked'
  BY <1>1 DEF PacketsMarked
<1>. QED BY <1>2, <1>3 DEF MarkersInPlace

\* What the loop knows of its inputs, where a step leaves them alone.
LEMMA InputsRest ==
  ASSUME TickInv, UNCHANGED <<inputVars, tick>>, phase # kTickBegin, phase' # kTickBegin,
         phase' = kInput => phase = kInput, poisoned => poisoned',
         ~poisoned /\ phase = kInput /\ phase' # kInput => Len(input_drain) = 0 \/ poisoned'
  PROVE  InputsKept' /\ InputsDue'
  BY DEF TickInv, InputsKept, InputsDue, inputVars

LEMMA BeginKeeps == TickInv /\ begin_tick => TickInv'
<1> SUFFICES ASSUME TickInv, begin_tick PROVE TickInv'
  OBVIOUS
<1>. USE DEF kTickBegin, kInput, kTickEnd
<1>1. /\ phase = 0 /\ tick' = tick + 1 /\ phase_marker(tick', 1) /\ tick \in Nat
      /\ UNCHANGED <<inputVars, poisoned, published, ticks>> /\ TickTypeOK /\ MarkersInPlace
  BY DEF begin_tick, TickInv, TickTypeOK
<1>2. ~poisoned => IF Len(markers) = 0 THEN tick' = 1
                   ELSE Follows(markers[Len(markers)], Marker(tick', 1))
  BY <1>1 DEF MarkersInPlace, LastMarker, Follows, Marker, kStructuralApply
<1>3. /\ markers' \in Seq([tick : Nat, phase : Nat]) /\ MarkersInPlace'
      /\ phase' = IF poisoned THEN 0 ELSE 1
  BY <1>1, <1>2, MarkerKeeps
<1>4. TickTypeOK'
  BY <1>1, <1>3 DEF TickTypeOK, inputVars
<1>6. InputsKept'
  BY <1>1 DEF TickInv, InputsKept, inputVars
<1>7. InputsDue'
  BY <1>1, <1>3 DEF TickInv, InputsDue, inputVars
<1>. QED BY <1>3, <1>4, <1>6, <1>7 DEF TickInv

\* A phase that follows another one of the same tick.
LEMMA NextMarkerKeeps ==
  ASSUME TickInv, phase \in 1 .. kTickEnd - 1, phase_marker(tick, phase + 1),
         UNCHANGED <<tick, poisoned, published, ticks>>
  PROVE  /\ MarkersInPlace' /\ markers' \in Seq([tick : Nat, phase : Nat])
         /\ phase' = IF poisoned THEN 0 ELSE phase + 1
<1>1. TickTypeOK /\ MarkersInPlace /\ tick \in Nat /\ phase \in 1 .. 8 /\ phase + 1 \in 1 .. kTickEnd
  BY DEF TickInv, TickTypeOK, kTickEnd
<1>2. Len(markers) # 0 /\ Follows(markers[Len(markers)], Marker(tick, phase + 1))
  BY <1>1 DEF MarkersInPlace, LastMarker, Follows, Marker
<1>. QED BY <1>1, <1>2, MarkerKeeps

LEMMA EnterInputKeeps == TickInv /\ enter_input => TickInv'
<1> SUFFICES ASSUME TickInv, enter_input PROVE TickInv'
  OBVIOUS
<1>. USE DEF kTickBegin, kInput, kTickEnd
<1>1. /\ phase = 1 /\ phase_marker(tick, phase + 1)
      /\ UNCHANGED <<tick, poisoned, published, ticks, injected, resolved>>
      /\ poisoned => UNCHANGED <<input_queue, input_drain>>
      /\ ~poisoned => input_drain' = input_queue /\ input_queue' = <<>>
  BY DEF enter_input
<1>2. /\ MarkersInPlace' /\ markers' \in Seq([tick : Nat, phase : Nat])
      /\ phase' = IF poisoned THEN 0 ELSE 2
  BY <1>1, NextMarkerKeeps
<1>3. TickTypeOK'
  <2>1. TickTypeOK /\ input_queue' \in Seq(Input) /\ input_drain' \in Seq(Input)
    <3>1. TickTypeOK /\ input_queue \in Seq(Input) /\ input_drain \in Seq(Input)
      BY DEF TickInv, TickTypeOK
    <3>2. CASE poisoned
      BY <1>1, <3>1, <3>2
    <3>3. CASE ~poisoned
      BY <1>1, <3>1, <3>3
    <3>. QED BY <3>2, <3>3
  <2>2. phase' \in 0 .. 9
    BY <1>2
  <2>. QED BY <1>1, <1>2, <2>1, <2>2 DEF TickTypeOK
<1>4. CASE poisoned
  BY <1>1, <1>2, <1>3, <1>4 DEF TickInv, InputsKept, InputsDue
<1>5. CASE ~poisoned
  <2>1. /\ Len(input_drain) = 0 /\ Len(input_queue) \in Nat /\ Len(resolved) \in Nat
        /\ Len(input_drain') = Len(input_queue) /\ Len(input_queue') = 0
    BY <1>1, <1>5 DEF TickInv, TickTypeOK, InputsDue
  <2>2. InputsKept'
    BY <1>1, <1>5, <2>1 DEF TickInv, InputsKept
  <2>3. InputsDue'
    BY <1>1, <1>2, <1>5, <2>1 DEF TickInv, InputsDue
  <2>. QED BY <1>2, <1>3, <2>2, <2>3 DEF TickInv
<1>. QED BY <1>4, <1>5

LEMMA NextPhaseKeeps == TickInv /\ next_phase => TickInv'
<1> SUFFICES ASSUME TickInv, next_phase PROVE TickInv'
  OBVIOUS
<1>. USE DEF kTickBegin, kInput, kTickEnd
<1>1. /\ phase \in 2 .. 8 /\ phase_marker(tick, phase + 1)
      /\ phase = 2 => input_drain = <<>>
      /\ UNCHANGED <<inputVars, tick, poisoned, published, ticks>>
  BY DEF next_phase
<1>2. /\ MarkersInPlace' /\ markers' \in Seq([tick : Nat, phase : Nat])
      /\ phase' = IF poisoned THEN 0 ELSE phase + 1
  BY <1>1, NextMarkerKeeps
<1>3. TickTypeOK'
  BY <1>1, <1>2 DEF TickInv, TickTypeOK, inputVars
<1>4. InputsKept' /\ InputsDue'
  BY <1>1, <1>2, InputsRest
<1>. QED BY <1>2, <1>3, <1>4 DEF TickInv

LEMMA DeliverKeeps == TickInv /\ deliver_input => TickInv'
<1> SUFFICES ASSUME TickInv, deliver_input PROVE TickInv'
  OBVIOUS
<1>. USE DEF kTickBegin, kInput, kTickEnd
<1>1. /\ phase = 2 /\ input_drain # <<>>
      /\ UNCHANGED <<tick, poisoned, markers, published, ticks, input_queue, injected>>
  BY DEF deliver_input
<1>2. CASE poisoned
  <2>1. phase' = 0 /\ UNCHANGED <<input_drain, resolved>>
    BY <1>2 DEF deliver_input
  <2>2. TickTypeOK'
    BY <1>1, <2>1 DEF TickInv, TickTypeOK
  <2>3. MarkersInPlace'
    BY <1>1, <1>2, <2>1, MarkersRest DEF TickInv
  <2>4. InputsKept' /\ InputsDue'
    BY <1>1, <1>2, <2>1, InputsRest DEF inputVars
  <2>. QED BY <2>2, <2>3, <2>4 DEF TickInv
<1>3. CASE ~poisoned
  <2> DEFINE given == [input |-> Head(input_drain), tick |-> tick]
  <2>1. /\ phase' = phase /\ input_drain' = Tail(input_drain)
        /\ resolved' = Append(resolved, given)
    BY <1>3 DEF deliver_input
  <2>2. /\ TickTypeOK /\ InputsKept /\ InputsDue
        /\ input_drain \in Seq(Input) /\ resolved \in Seq(Given) /\ injected \in Seq(Given)
        /\ Len(input_drain) \in Nat \ {0} /\ Len(resolved) \in Nat /\ Len(input_queue) \in Nat
    BY <1>1 DEF TickInv, TickTypeOK
  <2>3. /\ Head(input_drain) = input_drain[1] /\ Head(input_drain) \in Input
        /\ Tail(input_drain) \in Seq(Input) /\ Len(Tail(input_drain)) = Len(input_drain) - 1
        /\ \A k \in 1 .. Len(input_drain) - 1 : Tail(input_drain)[k] = input_drain[k + 1]
    BY <2>2
  <2>4. given \in Given
    BY <2>2, <2>3 DEF Given, TickTypeOK
  <2>5. given = injected[Len(resolved) + 1]
    <3>1. Len(resolved) + 1 \in 1 .. Len(injected)
      BY <2>2 DEF InputsKept
    <3>2. injected[Len(resolved) + 1] \in Given
      BY <2>2, <3>1, ElementOfSeq
    <3>3. injected[Len(resolved) + 1].input = Head(input_drain) /\ injected[Len(resolved) + 1].tick = tick
      BY <1>1, <2>2, <2>3 DEF InputsKept, InputsDue
    <3>. QED BY <3>2, <3>3 DEF Given
  <2>. HIDE DEF given
  <2>6. /\ resolved' \in Seq(Given) /\ Len(resolved') = Len(resolved) + 1
        /\ \A k \in 1 .. Len(resolved) : resolved'[k] = resolved[k]
        /\ resolved'[Len(resolved) + 1] = given
    BY <2>1, <2>2, <2>4
  <2>7. TickTypeOK' /\ MarkersInPlace'
    <3>1. TickTypeOK'
      BY <1>1, <2>1, <2>2, <2>3, <2>6 DEF TickInv, TickTypeOK
    <3>2. MarkersInPlace'
      BY <1>1, <2>1, <2>2, MarkersRest DEF TickInv
    <3>. QED BY <3>1, <3>2
  <2>8. InputsKept'
    <3>1. Len(injected)' = Len(resolved') + Len(input_drain') + Len(input_queue')
      BY <1>1, <2>1, <2>2, <2>3, <2>6 DEF InputsKept
    <3>2. ASSUME NEW k \in 1 .. Len(resolved') PROVE resolved'[k] = injected[k]
      <4>1. CASE k \in 1 .. Len(resolved)
        BY <4>1, <2>2, <2>6 DEF InputsKept
      <4>2. CASE k = Len(resolved) + 1
        BY <4>2, <2>5, <2>6
      <4>. QED BY <4>1, <4>2, <2>2, <2>6
    <3>3. ASSUME NEW k \in 1 .. Len(input_drain')
          PROVE  input_drain'[k] = injected[Len(resolved') + k].input
      <4>1. k + 1 \in 1 .. Len(input_drain) /\ k \in 1 .. Len(input_drain) - 1
        BY <2>1, <2>2, <2>3
      <4>2. Len(resolved') + k = Len(resolved) + (k + 1)
        BY <2>2, <2>6
      <4>. QED BY <2>1, <2>2, <2>3, <4>1, <4>2 DEF InputsKept
    <3>4. ASSUME NEW k \in 1 .. Len(input_queue')
          PROVE  input_queue'[k] = injected[Len(resolved') + Len(input_drain') + k].input
      <4>1. Len(resolved') + Len(input_drain') = Len(resolved) + Len(input_drain)
        BY <2>1, <2>2, <2>3, <2>6
      <4>. QED BY <1>1, <2>2, <4>1 DEF InputsKept
    <3>. QED BY <1>1, <3>1, <3>2, <3>3, <3>4 DEF InputsKept
  <2>9. InputsDue'
    <3>1. ASSUME NEW k \in 1 .. Len(input_drain') PROVE injected[Len(resolved') + k].tick = tick
      <4>1. k + 1 \in 1 .. Len(input_drain) /\ Len(resolved') + k = Len(resolved) + (k + 1)
        BY <2>1, <2>2, <2>3, <2>6
      <4>. QED BY <1>1, <2>2, <4>1 DEF InputsDue
    <3>2. Len(resolved') + Len(input_drain') = Len(resolved) + Len(input_drain)
      BY <2>1, <2>2, <2>3, <2>6
    <3>. QED BY <1>1, <2>1, <2>2, <3>1, <3>2 DEF InputsDue
  <2>. QED BY <2>7, <2>8, <2>9 DEF TickInv
<1>. QED BY <1>2, <1>3 DEF TickInv, TickTypeOK

LEMMA EndKeeps == TickInv /\ end_tick => TickInv'
<1> SUFFICES ASSUME TickInv, end_tick PROVE TickInv'
  OBVIOUS
<1>. USE DEF kTickBegin, kInput, kTickEnd
<1> DEFINE n == Len(published)
<1>1. /\ phase = 9 /\ phase' = 0 /\ published' = Append(published, tick)
      /\ ticks' = IF poisoned THEN ticks ELSE ticks + 1
      /\ UNCHANGED <<inputVars, tick, poisoned, markers>>
  BY DEF end_tick
<1>2. /\ published \in Seq(Nat) /\ tick \in Nat /\ ticks \in Nat /\ n \in Nat /\ Len(markers) \in Nat
      /\ published' \in Seq(Nat) /\ Len(published') = n + 1 /\ published'[n + 1] = tick
      /\ \A k \in 1 .. n : published'[k] = published[k]
  BY <1>1 DEF TickInv, TickTypeOK
<1>3. TickTypeOK'
  BY <1>1, <1>2 DEF TickInv, TickTypeOK, inputVars
<1>4. Heartbeat /\ LastMarker /\ PacketsMarked
  BY DEF TickInv, MarkersInPlace
<1>. HIDE DEF n
<1>5. Len(markers) # 0 /\ markers[Len(markers)] = Marker(tick, 9)
  BY <1>1, <1>4 DEF LastMarker
<1>6. Heartbeat' /\ LastMarker'
  BY <1>1, <1>4, <1>5 DEF Heartbeat, LastMarker
<1>7. \A k \in 1 .. n : published[k] < tick /\ \E j \in 1 .. Len(markers) : markers[j] = Marker(published[k], 9)
  BY <1>1, <1>4 DEF PacketsMarked, n
<1>8. ASSUME NEW k \in 1 .. n + 1
      PROVE  published'[k] <= tick /\ \E j \in 1 .. Len(markers) : markers[j] = Marker(published'[k], 9)
  <2>1. CASE k = n + 1
    <3>1. Len(markers) \in 1 .. Len(markers) /\ published'[k] = tick
      BY <1>2, <1>5, <2>1
    <3>. QED BY <1>2, <1>5, <3>1
  <2>2. CASE k \in 1 .. n
    <3>1. published[k] \in Nat /\ published'[k] = published[k]
      BY <1>2, <2>2, ElementOfSeq DEF n
    <3>. QED BY <1>2, <1>7, <2>2, <3>1
  <2>. QED BY <1>2, <2>1, <2>2
<1>9. ASSUME NEW k \in 1 .. n PROVE published'[k] < published'[k + 1]
  <2>1. CASE k = n
    BY <1>2, <1>7, <2>1
  <2>2. CASE k # n
    <3>1. k \in 1 .. n - 1 /\ k + 1 \in 1 .. n
      BY <1>2, <2>2
    <3>. QED BY <1>2, <1>4, <3>1 DEF PacketsMarked, n
  <2>. QED BY <2>1, <2>2
<1>10. PacketsMarked'
  <2>1. ticks' <= n + 1 /\ (ticks' < n + 1 => poisoned)
    BY <1>1, <1>2, <1>4 DEF PacketsMarked, n
  <2>2. Len(published') - 1 = n
    BY <1>2
  <2>. QED BY <1>1, <1>2, <1>8, <1>9, <2>1, <2>2 DEF PacketsMarked
<1>11. InputsKept' /\ InputsDue'
  BY <1>1, InputsRest
<1>. QED BY <1>3, <1>6, <1>10, <1>11 DEF TickInv, MarkersInPlace

\* The journal takes what the next tick records.
LEMMA StructuralFailKeeps == TickInv /\ structural_fails => TickInv'
<1> SUFFICES ASSUME TickInv, structural_fails PROVE TickInv'
  OBVIOUS
<1>. USE DEF kTickBegin, kInput, kTickEnd, kStructuralApply
<1>1. /\ phase = 8 /\ phase' = 0
      /\ UNCHANGED <<inputVars, tick, poisoned, markers, published, ticks>>
  BY DEF structural_fails
<1>2. TickTypeOK'
  BY <1>1 DEF TickInv, TickTypeOK, inputVars
<1>3. Heartbeat' /\ LastMarker' /\ PacketsMarked'
  BY <1>1 DEF TickInv, TickTypeOK, MarkersInPlace, Heartbeat, LastMarker, PacketsMarked
<1>4. InputsKept' /\ InputsDue'
  BY <1>1, InputsRest
<1>. QED BY <1>2, <1>3, <1>4 DEF TickInv, MarkersInPlace

LEMMA FailKeeps == TickInv /\ journal_fails => TickInv'
<1> SUFFICES ASSUME TickInv, journal_fails PROVE TickInv'
  OBVIOUS
<1>1. /\ ~poisoned /\ poisoned' = TRUE
      /\ UNCHANGED <<inputVars, tick, phase, markers, published, ticks>>
  BY DEF journal_fails
<1>2. TickTypeOK' /\ MarkersInPlace'
  <2>1. TickTypeOK'
    BY <1>1 DEF TickInv, TickTypeOK, inputVars
  <2>2. MarkersInPlace'
    BY <1>1, MarkersRest DEF TickInv
  <2>. QED BY <2>1, <2>2
<1>3. InputsKept' /\ InputsDue'
  BY <1>1 DEF TickInv, InputsKept, InputsDue, inputVars
<1>. QED BY <1>2, <1>3 DEF TickInv

LEMMA InjectKeeps == ASSUME TickInv, NEW i \in Input, inject(i) PROVE TickInv'
<1>. USE DEF kTickBegin, kInput, kTickEnd
<1> DEFINE given == [input |-> i, tick |-> tick + 1]
           n == Len(injected)
           q == Len(input_queue)
<1>1. /\ phase # 1 /\ input_queue' = Append(input_queue, i) /\ injected' = Append(injected, given)
      /\ UNCHANGED <<input_drain, resolved, clockVars>>
  BY DEF inject
<1>2. /\ TickTypeOK /\ InputsKept /\ InputsDue /\ n \in Nat /\ q \in Nat
      /\ Len(resolved) \in Nat /\ Len(input_drain) \in Nat
      /\ input_queue \in Seq(Input) /\ injected \in Seq(Given) /\ given \in Given
      /\ given.input = i /\ given.tick = tick + 1
  BY DEF TickInv, TickTypeOK, Given
<1>. HIDE DEF given
<1>3. /\ injected' \in Seq(Given) /\ Len(injected') = n + 1
      /\ \A k \in 1 .. n : injected'[k] = injected[k]
      /\ injected'[n + 1] = given
  BY <1>1, <1>2
<1>4. /\ input_queue' \in Seq(Input) /\ Len(input_queue') = q + 1
      /\ \A k \in 1 .. q : input_queue'[k] = input_queue[k]
      /\ input_queue'[q + 1] = i
  BY <1>1, <1>2
<1>5. TickTypeOK' /\ MarkersInPlace'
  <2>1. TickTypeOK'
    BY <1>1, <1>2, <1>3, <1>4 DEF TickInv, TickTypeOK, clockVars
  <2>2. MarkersInPlace'
    BY <1>1, <1>2, MarkersRest DEF TickInv, clockVars
  <2>. QED BY <2>1, <2>2
<1>6. n = Len(resolved) + Len(input_drain) + q
  BY <1>2 DEF InputsKept
<1>. HIDE DEF n, q
<1>7. /\ injected'[Len(resolved) + Len(input_drain) + (q + 1)] = given
      /\ \A k \in 1 .. q :
           injected'[Len(resolved) + Len(input_drain) + k] = injected[Len(resolved) + Len(input_drain) + k]
  <2>1. Len(resolved) + Len(input_drain) + (q + 1) = n + 1
    BY <1>2, <1>6
  <2>2. \A k \in 1 .. q : Len(resolved) + Len(input_drain) + k \in 1 .. n
    BY <1>2, <1>6
  <2>. QED BY <1>3, <2>1, <2>2
<1>8. \A k \in 1 .. Len(input_drain) : injected'[Len(resolved) + k] = injected[Len(resolved) + k]
  BY <1>2, <1>3, <1>6
<1>9. \A k \in 1 .. Len(resolved) : injected'[k] = injected[k]
  BY <1>2, <1>3, <1>6
<1>10. InputsKept'
  <2>1. UNCHANGED <<input_drain, resolved>>
    BY <1>1 DEF clockVars
  <2>2. Len(injected') = Len(resolved) + Len(input_drain) + Len(input_queue')
    BY <1>2, <1>3, <1>4, <1>6
  <2>3. ASSUME NEW k \in 1 .. Len(input_queue')
        PROVE  input_queue'[k] = injected'[Len(resolved) + Len(input_drain) + k].input
    <3>1. CASE k = q + 1
      BY <3>1, <1>2, <1>4, <1>7
    <3>2. CASE k \in 1 .. q
      BY <3>2, <1>2, <1>4, <1>7 DEF InputsKept, q
    <3>. QED BY <3>1, <3>2, <1>2, <1>4
  <2>4. ASSUME NEW k \in 1 .. Len(input_drain)
        PROVE  input_drain[k] = injected'[Len(resolved) + k].input
    BY <1>2, <1>8 DEF InputsKept
  <2>5. ASSUME NEW k \in 1 .. Len(resolved) PROVE resolved[k] = injected'[k]
    BY <1>2, <1>9 DEF InputsKept
  <2>. QED BY <2>1, <2>2, <2>3, <2>4, <2>5 DEF InputsKept
<1>11. InputsDue'
  <2>1. UNCHANGED <<tick, phase, poisoned, input_drain, resolved>>
    BY <1>1 DEF clockVars
  <2>2. ~poisoned => \A k \in 1 .. q + 1 :
          injected'[Len(resolved) + Len(input_drain) + k].tick = tick + 1
    <3> SUFFICES ASSUME ~poisoned, NEW k \in 1 .. q + 1
                 PROVE  injected'[Len(resolved) + Len(input_drain) + k].tick = tick + 1
      OBVIOUS
    <3>1. CASE k = q + 1
      BY <3>1, <1>2, <1>7
    <3>2. CASE k \in 1 .. q
      BY <3>2, <1>1, <1>2, <1>7 DEF InputsDue, q
    <3>3. k = q + 1 \/ k \in 1 .. q
      BY ONLY <1>2
    <3>. QED BY ONLY <3>1, <3>2, <3>3
  <2>3. ~poisoned /\ phase # kInput => Len(input_drain) = 0
    BY <1>2 DEF InputsDue
  <2>4. phase = kInput => \A k \in 1 .. Len(input_drain) : injected'[Len(resolved) + k].tick = tick
    BY <1>2, <1>8 DEF InputsDue
  <2>5. Len(input_queue') = q + 1 /\ phase # kTickBegin
    BY <1>1, <1>4
  <2>. QED BY <2>1, <2>2, <2>3, <2>4, <2>5 DEF InputsDue
<1>. QED BY <1>5, <1>10, <1>11 DEF TickInv

-----------------------------------------------------------------------------
LEMMA TickInitInv == TickInit => TickInv
<1> SUFFICES ASSUME TickInit PROVE TickInv
  OBVIOUS
<1>1. /\ input_queue = <<>> /\ input_drain = <<>> /\ markers = <<>> /\ injected = <<>> /\ resolved = <<>>
      /\ tick = 0 /\ phase = 0 /\ poisoned = FALSE /\ published = <<>> /\ ticks = 0
  BY DEF TickInit
<1>2. /\ input_queue \in Seq(Input) /\ input_drain \in Seq(Input)
      /\ markers \in Seq([tick : Nat, phase : Nat])
      /\ injected \in Seq(Given) /\ resolved \in Seq(Given)
      /\ published \in Seq(Nat) /\ Len(published) = 0
      /\ Len(input_queue) = 0 /\ Len(input_drain) = 0 /\ Len(markers) = 0
      /\ Len(injected) = 0 /\ Len(resolved) = 0
  BY <1>1
<1>3. TickTypeOK
  <2>1. tick \in Nat /\ phase \in 0 .. 9 /\ ticks \in Nat
    BY <1>1
  <2>2. poisoned \in BOOLEAN
    BY <1>1, Zenon
  <2>. QED BY <1>2, <2>1, <2>2 DEF TickTypeOK, kTickEnd
<1>5. MarkersInPlace
  BY <1>1, <1>2 DEF MarkersInPlace, Heartbeat, LastMarker, PacketsMarked
<1>4. InputsKept /\ InputsDue
  BY <1>1, <1>2 DEF InputsKept, InputsDue, kInput
<1>. QED BY <1>3, <1>4, <1>5 DEF TickInv

LEMMA TickStep == TickInv /\ [TickNext]_tickVars => TickInv'
<1> SUFFICES ASSUME TickInv, [TickNext]_tickVars PROVE TickInv'
  OBVIOUS
<1>1. CASE UNCHANGED tickVars
  <2>1. UNCHANGED <<tick, phase, poisoned, markers, published, ticks>> /\ UNCHANGED inputVars
    BY <1>1 DEF tickVars, clockVars
  <2>2. MarkersInPlace'
    BY <2>1, MarkersRest DEF TickInv
  <2>3. TickTypeOK' /\ InputsKept' /\ InputsDue'
    BY <2>1 DEF inputVars, TickInv, TickTypeOK, InputsKept, InputsDue
  <2>. QED BY <2>2, <2>3 DEF TickInv
<1>2. CASE TickNext
  BY <1>2, BeginKeeps, EnterInputKeeps, DeliverKeeps, EndKeeps, FailKeeps, NextPhaseKeeps, InjectKeeps,
         StructuralFailKeeps
     DEF TickNext, Ticking
<1>. QED BY <1>1, <1>2

\* Before a marker of a phase but the first comes that of the phase before it.
LEMMA MarkerBefore ==
  ASSUME TickTypeOK, Heartbeat, NEW t \in Nat, NEW p \in 2 .. 9, NEW n \in 1 .. Len(markers),
         markers[n] = Marker(t, p)
  PROVE  n - 1 \in 1 .. Len(markers) /\ markers[n - 1] = Marker(t, p - 1)
<1>. USE DEF kTickBegin, kTickEnd, kStructuralApply
<1>1. Len(markers) \in Nat /\ n \in Int /\ n >= 1 /\ p \in Int /\ p >= 2
  BY DEF TickTypeOK
<1>2. markers[1] = Marker(1, 1)
  BY <1>1 DEF Heartbeat
<1>3. n # 1
  BY <1>1, <1>2 DEF Marker
<1>4. n - 1 \in 1 .. Len(markers) - 1 /\ n - 1 \in 1 .. Len(markers) /\ (n - 1) + 1 = n
  BY <1>1, <1>3
<1>5. Follows(markers[n - 1], markers[n])
  BY <1>4 DEF Heartbeat
<1>6. markers[n - 1] \in [tick : Nat, phase : Nat]
  BY <1>4, ElementOfSeq DEF TickTypeOK
<1>7. PICK m \in [tick : Nat, phase : Nat] : m = markers[n - 1]
  BY <1>6
<1>8. Follows(m, Marker(t, p))
  BY <1>5, <1>7
<1>9. m = Marker(t, p - 1)
  BY <1>1, <1>8 DEF Follows, Marker
<1>. QED BY <1>4, <1>7, <1>9

\* Nine steps back from the last marker of a tick.
LEMMA TickWhole ==
  ASSUME TickTypeOK, Heartbeat, NEW t \in Nat, NEW n \in 1 .. Len(markers), markers[n] = Marker(t, 9)
  PROVE  n - 9 \in 0 .. Len(markers) - 9 /\ \A p \in 1 .. 9 : markers[(n - 9) + p] = Marker(t, p)
<1> DEFINE At(p) == n - 9 + p \in 1 .. Len(markers) /\ markers[n - 9 + p] = Marker(t, p)
<1>1. Len(markers) \in Nat /\ n \in Int
  BY DEF TickTypeOK
<1>2. At(9)
  BY <1>1
<1>3. ASSUME NEW p \in 2 .. 9, At(p) PROVE At(p - 1)
  <2>1. PICK j \in 1 .. Len(markers) : j = n - 9 + p
    BY <1>3
  <2>2. j - 1 \in 1 .. Len(markers) /\ markers[j - 1] = Marker(t, p - 1)
    BY <1>3, <2>1, MarkerBefore
  <2>3. j - 1 = n - 9 + (p - 1)
    BY <1>1, <2>1
  <2>. QED BY <2>2, <2>3
<1>. HIDE DEF At
<1>4. At(8) /\ At(7) /\ At(6) /\ At(5)
  <2>1. At(9 - 1)
    <3>1. 9 \in 2 .. 9
      OBVIOUS
    <3>. QED BY ONLY <1>2, <1>3, <3>1, Zenon
  <2>2. At(8 - 1)
    BY <1>3, <2>1
  <2>3. At(7 - 1)
    BY <1>3, <2>2
  <2>4. At(6 - 1)
    BY <1>3, <2>3
  <2>. QED BY <2>1, <2>2, <2>3, <2>4
<1>5. At(4) /\ At(3) /\ At(2) /\ At(1)
  <2>1. At(5 - 1)
    BY <1>3, <1>4
  <2>2. At(4 - 1)
    BY <1>3, <2>1
  <2>3. At(3 - 1)
    BY <1>3, <2>2
  <2>4. At(2 - 1)
    BY <1>3, <2>3
  <2>. QED BY <2>1, <2>2, <2>3, <2>4
<1>6. \A p \in 1 .. 9 : At(p)
  BY <1>2, <1>4, <1>5
<1>7. n - 9 \in 0 .. Len(markers) - 9
  BY <1>1, <1>5 DEF At
<1>. QED BY <1>1, <1>6, <1>7 DEF At

LEMMA TickInvSafe == TickInv => InputsOnTime /\ FramesJournaled
<1> SUFFICES ASSUME TickInv PROVE InputsOnTime /\ FramesJournaled
  OBVIOUS
<1>. USE DEF kTickBegin, kInput, kTickEnd
<1>1. /\ Len(resolved) \in Nat /\ Len(input_drain) \in Nat /\ Len(input_queue) \in Nat
      /\ Len(injected) \in Nat /\ Len(markers) \in Nat /\ tick \in Nat /\ ticks \in Nat
      /\ Len(injected) = Len(resolved) + Len(input_drain) + Len(input_queue)
      /\ DOMAIN injected = 1 .. Len(injected) /\ DOMAIN resolved = 1 .. Len(resolved)
      /\ DOMAIN published = 1 .. Len(published) /\ published \in Seq(Nat) /\ Len(published) \in Nat
  BY DEF TickInv, TickTypeOK, InputsKept
<1>2. ASSUME NEW k \in DOMAIN injected, ~poisoned, injected[k].tick <= tick, phase \notin {1, 2}
      PROVE  k <= Len(resolved)
  <2> SUFFICES ASSUME k > Len(resolved) PROVE FALSE
    BY <1>1
  <2>1. Len(input_drain) = 0
    BY <1>2 DEF TickInv, InputsDue
  <2>2. k - Len(resolved) \in 1 .. Len(input_queue)
    BY <1>1, <2>1
  <2>3. injected[Len(resolved) + Len(input_drain) + (k - Len(resolved))].tick = tick + 1
    BY <1>2, <2>2 DEF TickInv, InputsDue
  <2>4. Len(resolved) + Len(input_drain) + (k - Len(resolved)) = k
    BY <1>1, <2>1
  <2>. QED BY <1>1, <1>2, <2>3, <2>4
<1>3. InputsOnTime
  BY <1>1, <1>2 DEF InputsOnTime, TickInv, InputsKept
<1>4. TickTypeOK /\ Heartbeat /\ PacketsMarked
  BY DEF TickInv, MarkersInPlace
<1>5. ASSUME NEW k \in DOMAIN published
      PROVE  \E n \in 0 .. Len(markers) - 9 : \A p \in 1 .. 9 : markers[n + p] = Marker(published[k], p)
  <2>1. published[k] \in Nat
    BY <1>1, ElementOfSeq
  <2>2. PICK n \in 1 .. Len(markers) : markers[n] = Marker(published[k], 9)
    BY <1>1, <1>4 DEF PacketsMarked
  <2>. QED BY <1>4, <2>1, <2>2, TickWhole
<1>6. FramesJournaled
  BY <1>1, <1>4, <1>5 DEF FramesJournaled, Heartbeat, PacketsMarked
<1>. QED BY <1>3, <1>6

\* The inductive invariant of the loop, in every reachable state.
THEOREM TickInvariant == TickSpec => []TickInv
  BY TickInitInv, TickStep, PTL DEF TickSpec

\* Inputs reach the bus once each, in order, in the tick they were given for.
THEOREM InputsDelivered == TickSpec => []InputsOnTime
  BY TickInvariant, TickInvSafe, PTL

\* No frame is shown that is not in the journal, and the journal has every
\* marker of a run up to the last one.
THEOREM FramesAreJournaled == TickSpec => []FramesJournaled
  BY TickInvariant, TickInvSafe, PTL

-----------------------------------------------------------------------------
Slot == 1 .. MaxBodies

BodyTypeOK ==
  /\ alive \subseteq Entity
  /\ bindings \in [Slot -> [entity : Entity \cup {None}, id : Value]]
  /\ \A i \in Slot : bindings[i] # Unbound =>
       bindings[i].entity \in Entity /\ bindings[i].id \in Body /\ bindings[i].id.index = i
  /\ made \in [Slot -> Seq(Entity)]
  /\ SetInv
  /\ \A e \in Entity : contains(set, e) => e \in alive

BodyInv == BodyTypeOK /\ BodiesMatchRows

-----------------------------------------------------------------------------
LEMMA BodyFacts ==
  /\ Unbound.entity = None /\ Unbound.id = NoBody
  /\ NoBody \in Value /\ NoBody \notin Body /\ None \notin Entity
  /\ \A b \in Value : b # NoBody => b \in Body /\ b.index \in Slot
  BY PhysicsAssumption DEF Unbound, Body, Slot

\* The body of an entity, by the row that stands for it.
LEMMA BodyOfRow ==
  ASSUME NEW s \in SetType, Coherent(s), NEW e \in Entity
  PROVE  /\ contains(s, e) <=> RowOf(s, e) # Absent
         /\ contains(s, e) => RowOf(s, e).value \in Value
<1>1. contains(s, e) => RowOf(s, e) \in [value : Value, active : BOOLEAN]
  BY RowType
<1>2. ~contains(s, e) => RowOf(s, e) = Absent
  BY DEF RowOf
<1>. QED BY <1>1, <1>2, AbsentAssumption

LEMMA BodyOfValue == SetInv => \A e \in Entity : body_of_entity(e) \in Value
  BY BodyOfRow, BodyFacts DEF SetInv, body_of_entity

\* A body id that is bound is the id of the binding at its index.
LEMMA BindingFacts ==
  ASSUME BodyTypeOK, NEW b \in Value, b # NoBody
  PROVE  /\ binding_of(b) # Unbound => bindings[b.index].id = b /\ binding_of(b) = bindings[b.index]
         /\ binding_of(b).entity \in Entity => binding_of(b) # Unbound
         /\ \A i \in Slot : bindings[i].id = b => i = b.index /\ bindings[i] # Unbound
  BY BodyFacts DEF BodyTypeOK, binding_of

LEMMA InitBody == PhysicsInit => BodyInv
<1> SUFFICES ASSUME PhysicsInit PROVE BodyInv
  OBVIOUS
<1>1. /\ set = EmptySet /\ alive = Entity
      /\ bindings = [i \in Slot |-> Unbound] /\ made = [i \in Slot |-> <<>>]
  BY DEF PhysicsInit, PoolInit, Slot
<1>2. Unbound \in [entity : Entity \cup {None}, id : Value]
  BY PhysicsAssumption DEF Unbound
<1>3. \A e \in Entity : ~contains(set, e)
  BY <1>1 DEF EmptySet, contains, Npos
<1>4. SetInv
  BY <1>1, EmptySetInv DEF SetInv
<1>5. BodyTypeOK
  BY <1>1, <1>2, <1>3, <1>4 DEF BodyTypeOK
<1>6. BodiesMatchRows
  BY <1>1, <1>3 DEF BodiesMatchRows, body_of_entity, Slot
<1>. QED BY <1>5, <1>6 DEF BodyInv

\* despawn drops a row and keeps the binding of the entity for the reaper.
LEMMA DespawnKeeps == ASSUME BodyInv, NEW e \in Entity, despawn(e) PROVE BodyInv'
<1>1. /\ e \in alive /\ alive' = alive \ {e} /\ UNCHANGED <<bindings, made>>
      /\ erase(e) \/ (~contains(set, e) /\ set' = set)
  BY DEF despawn
<1>2. BodyTypeOK /\ SetInv /\ set \in SetType /\ Coherent(set)
  BY DEF BodyInv, BodyTypeOK, SetInv
<1>3. /\ SetInv'
      /\ \A f \in Entity : RowOf(set', f) = IF f = e THEN Absent ELSE RowOf(set, f)
  <2>1. CASE erase(e)
    BY <2>1, <1>2, RemoveCorrect DEF SetInv, erase
  <2>2. CASE ~contains(set, e) /\ set' = set
    BY <2>2, <1>2 DEF SetInv, RowOf
  <2>. QED BY <1>1, <2>1, <2>2
<1>4. \A f \in Entity : /\ contains(set', f) <=> RowOf(set', f) # Absent
                        /\ contains(set, f) <=> RowOf(set, f) # Absent
  BY <1>2, <1>3, BodyOfRow DEF SetInv
<1>5. \A f \in Entity : body_of_entity(f)' = IF f = e THEN NoBody ELSE body_of_entity(f)
  BY <1>3, <1>4 DEF body_of_entity
<1>6. BodyTypeOK'
  BY <1>1, <1>2, <1>3, <1>4 DEF BodyTypeOK
<1>7. BodiesMatchRows'
  BY <1>1, <1>2, <1>5 DEF BodyInv, BodyTypeOK, BodiesMatchRows, binding_of, Slot
<1>. QED BY <1>6, <1>7 DEF BodyInv

\* Dormancy moves an activity bit.
LEMMA DormantKeeps == ASSUME BodyInv, NEW e \in Entity, NEW bit \in BOOLEAN, set_dormant(e, bit) PROVE BodyInv'
<1>1. set_active(e, bit) /\ UNCHANGED <<alive, bindings, made>>
  BY DEF set_dormant
<1>2. BodyTypeOK /\ SetInv /\ set \in SetType /\ Coherent(set) /\ contains(set, e)
  BY <1>1 DEF BodyInv, BodyTypeOK, SetInv, set_active
<1>3. /\ SetInv'
      /\ \A f \in Entity :
           RowOf(set', f) = IF f = e THEN [value |-> RowOf(set, e).value, active |-> bit] ELSE RowOf(set, f)
  BY <1>1, <1>2, SetRowActiveCorrect DEF SetInv, set_active
<1>4. \A f \in Entity : contains(set', f) <=> contains(set, f)
  BY <1>1 DEF set_active, set_row_active, contains
<1>5. \A f \in Entity : body_of_entity(f)' = body_of_entity(f)
  BY <1>3, <1>4 DEF body_of_entity
<1>6. BodyTypeOK'
  BY <1>1, <1>2, <1>3, <1>4 DEF BodyTypeOK
<1>7. BodiesMatchRows'
  BY <1>1, <1>5 DEF BodyInv, BodyTypeOK, BodiesMatchRows, binding_of, Slot
<1>. QED BY <1>6, <1>7 DEF BodyInv

\* create_body binds an index nobody has and writes the row, or adds it.
LEMMA CreateKeeps == ASSUME BodyInv, NEW e \in Entity, NEW i \in Slot, create_body(e, i) PROVE BodyInv'
<1> DEFINE id == [index |-> i, sequence |-> Len(made[i]) + 1]
           new == [entity |-> e, id |-> id]
<1>1. /\ e \in alive /\ body_of_entity(e) = NoBody /\ bindings[i] = Unbound
      /\ Len(made[i]) < MaxSequence
      /\ bindings' = [bindings EXCEPT ![i] = new]
      /\ write(e, id, TRUE) \/ emplace(e, id, TRUE)
      /\ made' = [made EXCEPT ![i] = Append(@, e)] /\ alive' = alive
  BY DEF create_body
<1>2. BodyTypeOK /\ SetInv /\ set \in SetType /\ Coherent(set) /\ BodiesMatchRows
  BY DEF BodyInv, BodyTypeOK, SetInv
<1>3. id \in Body /\ id \in Value /\ id.index = i /\ id # NoBody
  <2>1. Len(made[i]) + 1 \in 1 .. MaxSequence
    <3>1. made[i] \in Seq(Entity)
      BY <1>2 DEF BodyTypeOK
    <3>2. Len(made[i]) \in Nat
      BY <3>1
    <3>. QED BY <1>1, <3>2, PhysicsAssumption
  <2>. QED BY <2>1, PhysicsAssumption DEF Body, Slot
<1>. HIDE DEF id
<1>4. new \in [entity : Entity \cup {None}, id : Value] /\ new.entity = e /\ new.id = id /\ new # Unbound
  BY <1>3, BodyFacts DEF Unbound
<1>. HIDE DEF new
<1>5. /\ SetInv'
      /\ \A f \in Entity : RowOf(set', f) = IF f = e THEN [value |-> id, active |-> TRUE] ELSE RowOf(set, f)
  <2>1. CASE write(e, id, TRUE)
    <3>1. PICK bit \in BOOLEAN, v \in Value : bit = TRUE /\ v = id
      BY ONLY <1>3
    <3>2. contains(set, e) /\ set' = set_row_active(set_row_value(set, set.sparse[e], v), set.sparse[e], bit)
      BY ONLY <2>1, <3>1 DEF write
    <3>3. /\ set' \in SetType /\ Coherent(set')
          /\ \A f \in Entity : RowOf(set', f) = IF f = e THEN [value |-> v, active |-> bit] ELSE RowOf(set, f)
      BY ONLY <3>2, <1>2, WriteCorrect
    <3>. QED BY ONLY <3>1, <3>3 DEF SetInv
  <2>2. CASE emplace(e, id, TRUE)
    <3>1. PICK bit \in BOOLEAN, v \in Value : bit = TRUE /\ v = id
      BY ONLY <1>3
    <3>2. ~contains(set, e) /\ set' = insert(set, e, v, bit)
      BY ONLY <2>2, <3>1 DEF emplace
    <3>3. /\ set' \in SetType /\ Coherent(set')
          /\ \A f \in Entity : RowOf(set', f) = IF f = e THEN [value |-> v, active |-> bit] ELSE RowOf(set, f)
      BY ONLY <3>2, <1>2, InsertCorrect
    <3>. QED BY ONLY <3>1, <3>3 DEF SetInv
  <2>. QED BY <1>1, <2>1, <2>2
<1>6. \A f \in Entity : /\ contains(set', f) <=> RowOf(set', f) # Absent
                        /\ contains(set, f) <=> RowOf(set, f) # Absent
  BY <1>2, <1>5, BodyOfRow DEF SetInv
<1>7. \A f \in Entity : body_of_entity(f)' = IF f = e THEN id ELSE body_of_entity(f)
  <2>1. [value |-> id, active |-> TRUE] \in [value : Value, active : BOOLEAN]
    BY <1>3
  <2>2. [value |-> id, active |-> TRUE] # Absent
    BY <2>1, AbsentAssumption
  <2>. QED BY <2>2, <1>5, <1>6 DEF body_of_entity
<1>8. BodyTypeOK'
  <2>1. bindings' \in [Slot -> [entity : Entity \cup {None}, id : Value]]
    BY <1>1, <1>2, <1>4 DEF BodyTypeOK
  <2>2. \A j \in Slot : bindings'[j] # Unbound =>
          bindings'[j].entity \in Entity /\ bindings'[j].id \in Body /\ bindings'[j].id.index = j
    BY <1>1, <1>2, <1>3, <1>4 DEF BodyTypeOK
  <2>3. made' \in [Slot -> Seq(Entity)]
    BY <1>1, <1>2 DEF BodyTypeOK
  <2>4. \A f \in Entity : contains(set', f) => f \in alive'
    BY <1>1, <1>2, <1>5, <1>6 DEF BodyTypeOK
  <2>. QED BY <1>1, <1>2, <1>5, <2>1, <2>2, <2>3, <2>4 DEF BodyTypeOK
<1>9. ASSUME NEW j \in Slot, bindings'[j] # Unbound, bindings'[j].entity \in alive
      PROVE  \E f \in Entity : f = bindings'[j].entity /\ body_of_entity(f)' = bindings'[j].id
  <2>1. CASE j = i
    BY <2>1, <1>1, <1>2, <1>4, <1>7 DEF BodyTypeOK
  <2>2. CASE j # i
    <3>1. bindings'[j] = bindings[j] /\ bindings[j].entity \in Entity /\ bindings[j].id \in Body
      BY <2>2, <1>1, <1>2, <1>9 DEF BodyTypeOK
    <3>. PICK f \in Entity : f = bindings[j].entity
      BY <3>1
    <3>2. body_of_entity(f) = bindings[j].id /\ f # e
      BY <1>1, <1>2, <1>9, <3>1, BodyFacts DEF BodiesMatchRows, Slot
    <3>. QED BY <1>7, <3>1, <3>2
  <2>. QED BY <2>1, <2>2
<1>10. ASSUME NEW f \in Entity, body_of_entity(f)' # NoBody
       PROVE  f \in alive /\ binding_of(body_of_entity(f))'.entity = f
  <2>1. CASE f = e
    BY <2>1, <1>1, <1>2, <1>3, <1>4, <1>7 DEF BodyTypeOK, binding_of
  <2>2. CASE f # e
    <3>. PICK b \in Value : b = body_of_entity(f)
      BY <1>2, BodyOfValue
    <3>1. body_of_entity(f)' = b /\ b # NoBody /\ b.index \in Slot
      BY <2>2, <1>7, <1>10, BodyFacts
    <3>2. f \in alive /\ binding_of(b).entity = f
      BY <1>2, <3>1 DEF BodiesMatchRows
    <3>3. bindings[b.index].id = b /\ bindings[b.index].entity = f /\ b.index # i
      BY <1>1, <1>2, <3>1, <3>2, BindingFacts, BodyFacts
    <3>4. bindings'[b.index] = bindings[b.index]
      BY <1>1, <1>2, <3>1, <3>3 DEF BodyTypeOK
    <3>. QED BY <3>1, <3>2, <3>3, <3>4 DEF binding_of
  <2>. QED BY <2>1, <2>2
<1>11. \A j \in Slot : bindings'[j] # Unbound /\ bindings'[j].entity \in alive' =>
         body_of_entity(bindings[j].entity)' = bindings'[j].id
  BY <1>1, <1>9 DEF body_of_entity
<1>12. BodiesMatchRows'
  BY <1>1, <1>10, <1>11 DEF BodiesMatchRows, Slot
<1>. QED BY <1>8, <1>12 DEF BodyInv

\* What a write of the pool leaves in its rows.
LEMMA WriteRow ==
  ASSUME SetInv, NEW e \in Entity, NEW v \in Value, NEW bit \in BOOLEAN, write(e, v, bit)
  PROVE  /\ SetInv'
         /\ \A f \in Entity : RowOf(set', f) = IF f = e THEN [value |-> v, active |-> bit] ELSE RowOf(set, f)
  BY WriteCorrect DEF SetInv, write

\* destroy_body unbinds an index and makes the row of its entity null.
LEMMA DestroyKeeps == ASSUME BodyInv, NEW e \in Entity, destroy_body(e) PROVE BodyInv'
<1>. PICK b \in Value : b = body_of_entity(e)
  BY BodyOfValue DEF BodyInv, BodyTypeOK
<1>1. /\ e \in alive /\ b # NoBody /\ binding_of(b) # Unbound
      /\ bindings' = [bindings EXCEPT ![b.index] = Unbound]
      /\ write(e, NoBody, FALSE) /\ contains(set, e)
      /\ made' = made /\ alive' = alive
  BY DEF destroy_body, write
<1>2. BodyTypeOK /\ SetInv /\ set \in SetType /\ Coherent(set) /\ BodiesMatchRows
  BY DEF BodyInv, BodyTypeOK, SetInv
<1>3. b \in Body /\ b \in Value /\ b.index \in Slot /\ bindings[b.index].id = b /\ bindings[b.index].entity = e
  <2>1. b \in Value /\ binding_of(b).entity = e
    BY <1>1, <1>2, BodyOfValue DEF BodiesMatchRows
  <2>. QED BY <1>1, <1>2, <2>1, BindingFacts, BodyFacts
<1>4. /\ SetInv'
      /\ \A f \in Entity : RowOf(set', f) = IF f = e THEN [value |-> NoBody, active |-> FALSE] ELSE RowOf(set, f)
  BY <1>1, <1>2, BodyFacts, WriteRow
<1>5. \A f \in Entity : contains(set', f) <=> contains(set, f)
  BY <1>1 DEF write, set_row_active, set_row_value, contains
<1>6. \A f \in Entity : body_of_entity(f)' = IF f = e THEN NoBody ELSE body_of_entity(f)
  BY <1>1, <1>4, <1>5 DEF body_of_entity
<1>7. /\ \A j \in Slot : bindings'[j] = IF j = b.index THEN Unbound ELSE bindings[j]
      /\ bindings' \in [Slot -> [entity : Entity \cup {None}, id : Value]]
  BY <1>1, <1>2, <1>3, BodyFacts DEF BodyTypeOK, Unbound
<1>8. BodyTypeOK'
  BY <1>1, <1>2, <1>4, <1>5, <1>7 DEF BodyTypeOK
<1>9. ASSUME NEW j \in Slot, bindings'[j] # Unbound, bindings'[j].entity \in alive
      PROVE  body_of_entity(bindings[j].entity)' = bindings'[j].id
  <2>1. j # b.index /\ bindings'[j] = bindings[j] /\ bindings[j].entity \in Entity
    BY <1>2, <1>7, <1>9 DEF BodyTypeOK
  <2>. PICK f \in Entity : f = bindings[j].entity
    BY <2>1
  <2>2. body_of_entity(f) = bindings[j].id /\ bindings[j].id.index = j
    BY <1>2, <1>9, <2>1 DEF BodiesMatchRows, BodyTypeOK, Slot
  <2>3. f # e
    BY <1>2, <2>1, <2>2
  <2>4. body_of_entity(f)' = bindings'[j].id
    BY <1>6, <2>1, <2>2, <2>3
  <2>5. bindings[j].entity' = f
    <3>1. bindings'[j].entity = f
      BY <2>1
    <3>. QED BY <3>1
  <2>. QED BY <2>4, <2>5 DEF body_of_entity
<1>10. ASSUME NEW f \in Entity, body_of_entity(f)' # NoBody
       PROVE  f \in alive /\ binding_of(body_of_entity(f))'.entity = f
  <2>. PICK c \in Value : c = body_of_entity(f)
    BY <1>2, BodyOfValue
  <2>1. f # e /\ body_of_entity(f)' = c /\ c # NoBody /\ c.index \in Slot
    BY <1>6, <1>10, BodyFacts
  <2>2. f \in alive /\ binding_of(c).entity = f
    BY <1>2, <2>1 DEF BodiesMatchRows
  <2>3. bindings[c.index].id = c /\ bindings[c.index].entity = f
    BY <1>2, <2>1, <2>2, BindingFacts
  <2>4. bindings'[c.index] = bindings[c.index]
    BY <1>3, <1>7, <2>1, <2>3
  <2>. QED BY <2>1, <2>2, <2>3, <2>4 DEF binding_of
<1>11. BodiesMatchRows'
  BY <1>1, <1>9, <1>10 DEF BodiesMatchRows, Slot
<1>. QED BY <1>8, <1>11 DEF BodyInv

\* The step reaps bindings of dead entities, which have no row.
LEMMA StepKeeps == BodyInv /\ step => BodyInv'
<1> SUFFICES ASSUME BodyInv, step PROVE BodyInv'
  OBVIOUS
<1>1. /\ bindings' = [i \in DOMAIN bindings |->
           IF bindings[i] # Unbound /\ bindings[i].entity \notin alive THEN Unbound ELSE bindings[i]]
      /\ UNCHANGED <<alive, set, made>>
  BY DEF step
<1>2. BodyTypeOK /\ SetInv /\ BodiesMatchRows
  BY DEF BodyInv, BodyTypeOK
<1>3. /\ DOMAIN bindings = Slot
      /\ \A j \in Slot : bindings'[j] # Unbound => bindings'[j] = bindings[j]
      /\ \A j \in Slot : bindings[j] # Unbound /\ bindings[j].entity \in alive => bindings'[j] = bindings[j]
      /\ \A j \in Slot : bindings'[j] \in [entity : Entity \cup {None}, id : Value]
  BY <1>1, <1>2, BodyFacts DEF BodyTypeOK, Unbound
<1>4. \A f \in Entity : body_of_entity(f)' = body_of_entity(f)
  BY <1>1 DEF body_of_entity
<1>5. BodyTypeOK'
  <2>1. bindings' \in [Slot -> [entity : Entity \cup {None}, id : Value]]
    BY <1>1, <1>3
  <2>. QED BY <2>1, <1>1, <1>2, <1>3 DEF BodyTypeOK, SetInv
<1>6. ASSUME NEW j \in Slot, bindings'[j] # Unbound, bindings'[j].entity \in alive
      PROVE  body_of_entity(bindings[j].entity)' = bindings'[j].id
  <2>1. bindings'[j] = bindings[j] /\ bindings[j].entity \in Entity
    BY <1>2, <1>3, <1>6 DEF BodyTypeOK
  <2>. PICK f \in Entity : f = bindings[j].entity
    BY <2>1
  <2>2. body_of_entity(f)' = bindings'[j].id
    BY <1>2, <1>4, <1>6, <2>1 DEF BodiesMatchRows, Slot
  <2>3. bindings'[j].entity = f
    BY <2>1
  <2>. QED BY <2>2, <2>3 DEF body_of_entity
<1>7. ASSUME NEW f \in Entity, body_of_entity(f)' # NoBody
      PROVE  f \in alive /\ binding_of(body_of_entity(f))'.entity = f
  <2>. PICK c \in Value : c = body_of_entity(f)
    BY <1>2, BodyOfValue
  <2>1. body_of_entity(f)' = c /\ c # NoBody /\ c.index \in Slot
    BY <1>4, <1>7, BodyFacts
  <2>2. f \in alive /\ binding_of(c).entity = f
    BY <1>2, <2>1 DEF BodiesMatchRows
  <2>3. bindings[c.index].id = c /\ bindings[c.index].entity = f /\ bindings[c.index] # Unbound
    BY <1>2, <2>1, <2>2, BindingFacts
  <2>4. bindings'[c.index] = bindings[c.index]
    BY <1>3, <2>1, <2>2, <2>3
  <2>. QED BY <2>1, <2>2, <2>3, <2>4 DEF binding_of
<1>8. BodiesMatchRows'
  BY <1>1, <1>6, <1>7 DEF BodiesMatchRows, Slot
<1>. QED BY <1>5, <1>8 DEF BodyInv

\* Every other step leaves rows, bindings and entities alone.
LEMMA RestKeeps == BodyInv /\ UNCHANGED <<alive, set, bindings, made>> => BodyInv'
  BY DEF BodyInv, BodyTypeOK, BodiesMatchRows, SetInv, body_of_entity, binding_of

LEMMA StepBody == BodyInv /\ [PhysicsNext]_physicsVars => BodyInv'
<1> SUFFICES ASSUME BodyInv, [PhysicsNext]_physicsVars PROVE BodyInv'
  OBVIOUS
<1>1. CASE UserCalls
  <2>1. CASE \E e \in Entity : despawn(e)
    BY <2>1, DespawnKeeps
  <2>2. CASE \E e \in Entity : destroy_body(e)
    BY <2>2, DestroyKeeps
  <2>3. CASE \E e \in Entity, bit \in BOOLEAN : set_dormant(e, bit)
    BY <2>3, DormantKeeps
  <2>4. CASE \E e \in Entity, i \in Slot : create_body(e, i)
    BY <2>4, CreateKeeps
  <2>5. CASE UNCHANGED bodyVars
    BY <2>5, RestKeeps DEF bodyVars
  <2>. QED BY <1>1, <2>1, <2>2, <2>3, <2>4, <2>5 DEF UserCalls, Slot
<1>2. CASE step
  BY <1>2, StepKeeps
<1>3. CASE Dispatching \/ Loop \/ UNCHANGED physicsVars
  <2>1. UNCHANGED bodyVars
    BY <1>3 DEF Dispatching, skip_contact, tell_first, tell_second, told, Loop, physicsVars
  <2>. QED BY <2>1, RestKeeps DEF bodyVars
<1>. QED BY <1>1, <1>2, <1>3 DEF PhysicsNext

-----------------------------------------------------------------------------
\* Rows and bindings name each other in every reachable state, whatever is
\* despawned, destroyed or reaped, and whatever the listeners do.
THEOREM BodiesAndRows == PhysicsSpec => []BodiesMatchRows
<1>1. BodyInv => BodiesMatchRows
  BY DEF BodyInv
<1>. QED BY <1>1, InitBody, StepBody, PTL DEF PhysicsSpec

\* The composition implements the loop: its phase of physics delays the next
\* marker and changes nothing else.
THEOREM LoopRefined == PhysicsSpec => TickSpec
<1>1. PhysicsInit => TickInit
  BY DEF PhysicsInit
<1>2. [PhysicsNext]_physicsVars => [TickNext]_tickVars
  <2> SUFFICES ASSUME [PhysicsNext]_physicsVars PROVE [TickNext]_tickVars
    OBVIOUS
  <2>1. CASE UserCalls
    <3>1. CASE \E i \in Input : inject(i)
      BY <3>1 DEF TickNext
    <3>2. CASE UNCHANGED tickVars
      BY <3>2
    <3>. QED BY <2>1, <3>1, <3>2 DEF UserCalls, despawn, destroy_body, set_dormant, create_body
  <2>2. CASE Loop
    BY <2>2 DEF Loop, TickNext
  <2>3. CASE step \/ Dispatching \/ UNCHANGED physicsVars
    BY <2>3 DEF step, Dispatching, skip_contact, tell_first, tell_second, told, physicsVars
  <2>. QED BY <2>1, <2>2, <2>3 DEF PhysicsNext
<1>. QED BY <1>1, <1>2, PTL DEF PhysicsSpec, TickSpec

\* What the loop guarantees, it guarantees around physics.
THEOREM LoopHolds == PhysicsSpec => [](InputsOnTime /\ FramesJournaled)
  BY LoopRefined, InputsDelivered, FramesAreJournaled, PTL

\* The composition implements the pool of its rows: user code and the server
\* touch a row through the operations of the pool only, with body ids.
THEOREM PoolRefined == PhysicsSpec => PoolSpec
<1>1. PhysicsInit => PoolInit
  BY DEF PhysicsInit
<1>2. BodyInv /\ [PhysicsNext]_physicsVars => [PoolNext]_set
  <2> SUFFICES ASSUME BodyInv, [PhysicsNext]_physicsVars PROVE [PoolNext]_set
    OBVIOUS
  <2>1. CASE \E e \in Entity : despawn(e)
    BY <2>1 DEF despawn, PoolNext
  <2>2. CASE \E e \in Entity : destroy_body(e)
    BY <2>2, BodyFacts DEF destroy_body, PoolNext
  <2>3. CASE \E e \in Entity, bit \in BOOLEAN : set_dormant(e, bit)
    BY <2>3 DEF set_dormant, PoolNext
  <2>4. ASSUME NEW e \in Entity, NEW i \in Slot, create_body(e, i) PROVE PoolNext
    <3>1. Len(made[i]) \in Nat
      BY DEF BodyInv, BodyTypeOK
    <3>2. [index |-> i, sequence |-> Len(made[i]) + 1] \in Value
      BY <2>4, <3>1, PhysicsAssumption DEF create_body, Body, Slot
    <3>. QED BY <2>4, <3>2 DEF create_body, PoolNext
  <2>5. CASE set' = set
    BY <2>5
  <2>6. UserCalls => \/ \E e \in Entity : despawn(e)
                     \/ \E e \in Entity : destroy_body(e)
                     \/ \E e \in Entity, bit \in BOOLEAN : set_dormant(e, bit)
                     \/ \E e \in Entity, i \in Slot : create_body(e, i)
                     \/ set' = set
    BY DEF UserCalls, bodyVars, Slot
  <2>7. step \/ Dispatching \/ Loop \/ UNCHANGED physicsVars => set' = set
    BY DEF step, Dispatching, skip_contact, tell_first, tell_second, told, Loop, bodyVars, physicsVars
  <2>. QED BY <2>1, <2>2, <2>3, <2>4, <2>5, <2>6, <2>7 DEF PhysicsNext
<1>. QED BY <1>1, <1>2, InitBody, StepBody, PTL DEF PhysicsSpec, PoolSpec

\* What the pool guarantees, it guarantees for the rows of the bodies.
THEOREM PoolHolds == PhysicsSpec => []SetInv /\ RowsKept
  BY PoolRefined, PoolCoherent, PoolIsMap, PTL

-----------------------------------------------------------------------------
\* A contact names the entity each of its bodies was made for.
OwnerOf(id) == made[id.index][id.sequence]
IsMade(id) == id.index \in Slot /\ id.sequence \in 1 .. Len(made[id.index])

\* Bindings are of the last body made at their index.
BindingsMade ==
  \A i \in Slot : bindings[i] # Unbound => IsMade(bindings[i].id) /\ OwnerOf(bindings[i].id) = bindings[i].entity

ContactTypeOK ==
  /\ touching \subseteq [a : Body, b : Body]
  /\ contacts \in Seq([a : Body, b : Body])
  /\ telling \in {"none", "first", "second"}

\* Events are dispatched in the physics phase, after the step.
InPhase == contacts # <<>> => phase = kPhysics /\ stepped = tick

\* While an event is heard the step of this tick is over, and, where listeners
\* leave the bodies alone, both bodies stay bound until the second one is told.
TellingOf(first, second) == event = [self |-> OwnerOf(first), other |-> OwnerOf(second)]
ContactTold ==
  Listening =>
    /\ contacts # <<>>
    /\ IsMade(Contact.a) /\ IsMade(Contact.b)
    /\ telling = "first" => TellingOf(Contact.a, Contact.b)
    /\ ~ListenersRebind => IF telling = "first" THEN Bound ELSE TellingOf(Contact.b, Contact.a)

ContactInv == BindingsMade /\ ContactTypeOK /\ InPhase /\ ContactTold

\* A body that is bound was made for the entity of its binding.
LEMMA BoundMade ==
  ASSUME BodyTypeOK, BindingsMade, NEW id \in Body, binding_of(id) # Unbound
  PROVE  IsMade(id) /\ bindings[id.index].entity = OwnerOf(id) /\ Owner(id) = OwnerOf(id)
<1>1. id.index \in Slot /\ Unbound.id = NoBody /\ id # NoBody
  BY PhysicsAssumption DEF Body, Slot, Unbound
<1>2. bindings[id.index].id = id /\ bindings[id.index] # Unbound
  BY DEF binding_of
<1>. QED BY <1>1, <1>2 DEF BindingsMade, binding_of, Owner, OwnerOf

LEMMA HeadContact ==
  ContactTypeOK /\ contacts # <<>> => Contact.a \in Body /\ Contact.b \in Body
<1> SUFFICES ASSUME ContactTypeOK, contacts # <<>> PROVE Contact.a \in Body /\ Contact.b \in Body
  OBVIOUS
<1>1. Head(contacts) \in [a : Body, b : Body]
  BY HeadTailProperties DEF ContactTypeOK
<1>. QED BY <1>1 DEF Contact

LEMMA InitContact == PhysicsInit => ContactInv
  BY DEF PhysicsInit, ContactInv, BindingsMade, ContactTypeOK, InPhase, ContactTold, Listening, Slot

\* What was made stays made, for the same entities.
LEMMA MadeGrows ==
  ASSUME BodyTypeOK, NEW e \in Entity, NEW i \in Slot, made' = [made EXCEPT ![i] = Append(@, e)],
         NEW id, IsMade(id)
  PROVE  IsMade(id)' /\ OwnerOf(id)' = OwnerOf(id)
<1>1. \A j \in Slot : made[j] \in Seq(Entity)
  BY DEF BodyTypeOK
<1>2. made'[id.index] = IF id.index = i THEN Append(made[i], e) ELSE made[id.index]
  BY DEF BodyTypeOK, IsMade
<1>3. made[id.index] \in Seq(Entity) /\ id.sequence \in 1 .. Len(made[id.index])
  BY <1>1 DEF IsMade
<1>4. CASE id.index = i
  <2>1. /\ Len(Append(made[i], e)) = Len(made[i]) + 1
        /\ Append(made[i], e)[id.sequence] = made[i][id.sequence]
    BY <1>3, <1>4, AppendProperties
  <2>. QED BY <1>2, <1>3, <1>4, <2>1 DEF IsMade, OwnerOf
<1>5. CASE id.index # i
  BY <1>2, <1>5 DEF IsMade, OwnerOf
<1>. QED BY <1>4, <1>5

\* The event that is being heard stays right while nothing but `made` grows.
LEMMA ContactKept ==
  ASSUME ContactTold, UNCHANGED contactVars,
         \A id : IsMade(id) => IsMade(id)' /\ OwnerOf(id)' = OwnerOf(id),
         Listening /\ ~ListenersRebind => bindings' = bindings
  PROVE  ContactTold'
<1> SUFFICES ASSUME Listening' PROVE ContactTold'
  BY DEF ContactTold
<1>1. Listening /\ Contact' = Contact /\ event' = event /\ telling' = telling
  BY DEF contactVars, Listening, Contact
<1>2. /\ contacts # <<>>
      /\ IsMade(Contact.a) /\ IsMade(Contact.b)
      /\ telling = "first" => TellingOf(Contact.a, Contact.b)
      /\ ~ListenersRebind => IF telling = "first" THEN Bound ELSE TellingOf(Contact.b, Contact.a)
  BY <1>1 DEF ContactTold
<1>3. /\ IsMade(Contact.a)' /\ OwnerOf(Contact.a)' = OwnerOf(Contact.a)
      /\ IsMade(Contact.b)' /\ OwnerOf(Contact.b)' = OwnerOf(Contact.b)
  BY <1>1, <1>2
<1>4. /\ TellingOf(Contact.a, Contact.b) => TellingOf(Contact.a, Contact.b)'
      /\ TellingOf(Contact.b, Contact.a) => TellingOf(Contact.b, Contact.a)'
  BY <1>1, <1>3 DEF TellingOf
<1>5. ~ListenersRebind /\ Bound => Bound'
  BY <1>1 DEF Bound, binding_of
<1>. QED BY <1>1, <1>2, <1>3, <1>4, <1>5 DEF ContactTold, contactVars

\* Calls of user code: a listener of a contact changes no binding.
LEMMA UserContact ==
  ASSUME BodyInv, ContactInv, UserCalls PROVE ContactInv'
<1>1. BodyTypeOK /\ BindingsMade /\ ContactTypeOK /\ ContactTold
  BY DEF BodyInv, ContactInv
<1>2. UNCHANGED <<tick, phase, touching, contactVars>>
  BY DEF UserCalls, despawn, destroy_body, set_dormant, create_body, inject, bodyVars, tickVars, clockVars
<1>3. ContactTypeOK' /\ InPhase'
  BY <1>1, <1>2 DEF ContactInv, ContactTypeOK, InPhase, contactVars
<1>4. ASSUME NEW e \in Entity, NEW i \in Slot, create_body(e, i) PROVE BindingsMade' /\ ContactTold'
  <2>0. PICK id : id = [index |-> i, sequence |-> Len(made[i]) + 1]
    OBVIOUS
  <2>1. /\ bindings[i] = Unbound /\ made' = [made EXCEPT ![i] = Append(@, e)]
        /\ bindings' = [bindings EXCEPT ![i] = [entity |-> e, id |-> id]]
        /\ Listening => ListenersRebind
    BY <2>0, <1>4 DEF create_body, MayRebind
  <2>2. \A j : IsMade(j) => IsMade(j)' /\ OwnerOf(j)' = OwnerOf(j)
    BY <1>1, <2>1, MadeGrows
  <2>3. IsMade(id)' /\ OwnerOf(id)' = e
    <3>1. made[i] \in Seq(Entity)
      BY <1>1 DEF BodyTypeOK
    <3>2. /\ Len(Append(made[i], e)) = Len(made[i]) + 1
          /\ Append(made[i], e)[Len(made[i]) + 1] = e
      BY <3>1, AppendProperties
    <3>3. made'[i] = Append(made[i], e) /\ Len(made[i]) \in Nat
      BY <1>1, <2>1, <3>1 DEF BodyTypeOK
    <3>. QED BY <2>0, <3>2, <3>3 DEF IsMade, OwnerOf
  <2>4. BindingsMade'
    <3> SUFFICES ASSUME NEW j \in Slot, bindings'[j] # Unbound
                 PROVE IsMade(bindings[j].id)' /\ OwnerOf(bindings[j].id)' = bindings'[j].entity
      BY DEF BindingsMade
    <3>1. CASE j = i
      <4>1. bindings'[j] = [entity |-> e, id |-> id]
        BY <3>1, <2>1, <1>1 DEF BodyTypeOK
      <4>. QED BY <4>1, <2>3
    <3>2. CASE j # i
      <4>1. bindings'[j] = bindings[j]
        BY <3>2, <2>1, <1>1 DEF BodyTypeOK
      <4>2. IsMade(bindings[j].id) /\ OwnerOf(bindings[j].id) = bindings[j].entity
        BY <4>1, <1>1 DEF BindingsMade
      <4>. QED BY <4>1, <4>2, <2>2
    <3>. QED BY <3>1, <3>2
  <2>5. ContactTold'
    BY <1>1, <1>2, <2>1, <2>2, ContactKept
  <2>. QED BY <2>4, <2>5
<1>5. CASE UNCHANGED made /\ (Listening /\ ~ListenersRebind => bindings' = bindings)
           /\ \A j \in Slot : bindings'[j] \in {bindings[j], Unbound}
  <2>1. \A j : IsMade(j)' = IsMade(j) /\ OwnerOf(j)' = OwnerOf(j)
    BY <1>5 DEF IsMade, OwnerOf
  <2>2. ContactTold'
    BY <1>1, <1>2, <1>5, <2>1, ContactKept
  <2>3. BindingsMade'
    BY <1>1, <1>5, <2>1 DEF BindingsMade
  <2>. QED BY <1>3, <2>2, <2>3 DEF ContactInv
<1>6. ASSUME NEW e \in Entity, destroy_body(e)
      PROVE UNCHANGED made /\ (Listening /\ ~ListenersRebind => bindings' = bindings)
            /\ \A j \in Slot : bindings'[j] \in {bindings[j], Unbound}
  <2>1. /\ UNCHANGED made /\ (Listening => ListenersRebind)
        /\ bindings' = [bindings EXCEPT ![body_of_entity(e).index] = Unbound]
    BY <1>6 DEF destroy_body, MayRebind
  <2>. QED BY <2>1, <1>1 DEF BodyTypeOK
<1>7. UserCalls => \/ \E e \in Entity : destroy_body(e)
                   \/ \E e \in Entity, i \in Slot : create_body(e, i)
                   \/ UNCHANGED <<made, bindings>>
  BY DEF UserCalls, despawn, set_dormant, bodyVars, Slot
<1>. QED BY <1>3, <1>4, <1>5, <1>6, <1>7 DEF ContactInv

\* There are finitely many pairs of bodies.
LEMMA PairsFinite == IsFiniteSet([a : Body, b : Body])
<1>1. IsFiniteSet(Body)
  <2> DEFINE Numbers == (1 .. MaxBodies) \X (1 .. MaxSequence)
             body == [p \in Numbers |-> [index |-> p[1], sequence |-> p[2]]]
  <2>1. IsFiniteSet(1 .. MaxBodies) /\ IsFiniteSet(1 .. MaxSequence)
    BY PhysicsAssumption, FS_Interval
  <2>2. IsFiniteSet(Numbers)
    BY <2>1, FS_Product
  <2>3. body \in Surjection(Numbers, Body)
    <3>1. body \in [Numbers -> Body]
      BY DEF Body
    <3>2. ASSUME NEW id \in Body PROVE \E p \in Numbers : body[p] = id
      <4>1. <<id.index, id.sequence>> \in Numbers /\ id = [index |-> id.index, sequence |-> id.sequence]
        BY DEF Body
      <4>2. body[<<id.index, id.sequence>>] = id
        BY <4>1
      <4>. QED BY <4>1, <4>2
    <3>. QED BY <3>1, <3>2 DEF Surjection
  <2>. QED BY <2>2, <2>3, FS_Surjection
<1>2. IsFiniteSet(Body \X Body)
  BY <1>1, FS_Product
<1>3. [p \in Body \X Body |-> [a |-> p[1], b |-> p[2]]] \in Surjection(Body \X Body, [a : Body, b : Body])
  <2> DEFINE pair == [p \in Body \X Body |-> [a |-> p[1], b |-> p[2]]]
  <2>1. pair \in [Body \X Body -> [a : Body, b : Body]]
    OBVIOUS
  <2>2. ASSUME NEW r \in [a : Body, b : Body] PROVE \E p \in Body \X Body : pair[p] = r
    <3>1. <<r.a, r.b>> \in Body \X Body /\ r = [a |-> r.a, b |-> r.b]
      OBVIOUS
    <3>2. pair[<<r.a, r.b>>] = r
      BY <3>1
    <3>. QED BY <3>1, <3>2
  <2>. QED BY <2>1, <2>2 DEF Surjection
<1>. QED BY <1>2, <1>3, FS_Surjection

\* The solver steps: what is collected is a list of pairs of bodies.
LEMMA SolverContact ==
  ASSUME TickTypeOK, BodyInv, ContactInv, step PROVE ContactInv'
<1>1. BodyTypeOK /\ BindingsMade /\ ContactTypeOK /\ ContactTold
  BY DEF BodyInv, ContactInv
<1>2. PICK now \in SUBSET {p \in Pairs : Below(p.a, p.b)} :
        /\ touching' = now
        /\ \E began \in Collected(now \ touching), ended \in Collected(touching \ now) :
             contacts' = began \o ended
  BY DEF step
<1>3. now \subseteq [a : Body, b : Body]
  <2>1. Living \subseteq Body
    BY <1>1 DEF Living, BodyTypeOK, Slot
  <2>. QED BY <2>1 DEF Pairs
<1>4. contacts' \in Seq([a : Body, b : Body])
  <2>1. PICK began \in Collected(now \ touching), ended \in Collected(touching \ now) :
          contacts' = began \o ended
    BY <1>2
  <2>2. ASSUME NEW S \in SUBSET [a : Body, b : Body], IsFiniteSet(S), NEW list \in Collected(S)
        PROVE  list \in Seq([a : Body, b : Body])
    <3>1. Cardinality(S) \in Nat /\ list \in [1 .. Cardinality(S) -> S]
      BY <2>2, FS_CardinalityType DEF Collected
    <3>2. list \in Seq(S)
      BY <3>1
    <3>. QED BY <3>2, SeqMonotonic
  <2>3. IsFiniteSet([a : Body, b : Body])
    BY PairsFinite
  <2>4. IsFiniteSet(now \ touching) /\ IsFiniteSet(touching \ now)
    BY <1>1, <1>3, <2>3, FS_Subset DEF ContactTypeOK
  <2>5. began \in Seq([a : Body, b : Body]) /\ ended \in Seq([a : Body, b : Body])
    BY <1>1, <1>3, <2>2, <2>4 DEF ContactTypeOK
  <2>. QED BY <2>1, <2>5, ConcatProperties
<1>5. ~Listening' /\ InPhase'
  BY <1>1 DEF step, ContactInv, InPhase, ContactTold, Listening, TickTypeOK, tickVars, clockVars
<1>6. BindingsMade'
  <2>1. UNCHANGED made /\ \A i \in Slot : bindings'[i] \in {bindings[i], Unbound}
    BY <1>1 DEF step, BodyTypeOK
  <2>. QED BY <1>1, <2>1 DEF BindingsMade, IsMade, OwnerOf
<1>7. ContactTypeOK'
  BY <1>1, <1>2, <1>3, <1>4 DEF step, ContactTypeOK
<1>. QED BY <1>5, <1>6, <1>7 DEF ContactInv, ContactTold

\* The dispatch: an event is made of what the bindings hold when it is told.
LEMMA DispatchContact ==
  ASSUME BodyInv, ContactInv, Dispatching PROVE ContactInv'
<1>1. BodyTypeOK /\ BindingsMade /\ ContactTypeOK /\ ContactTold
  BY DEF BodyInv, ContactInv
<1>2. UNCHANGED <<tick, phase, bindings, made, touching, stepped>> /\ contacts # <<>>
  BY <1>1 DEF Dispatching, skip_contact, tell_first, tell_second, told, tickVars, clockVars, bodyVars,
              ContactTold, Listening
<1>3. BindingsMade'
  BY <1>1, <1>2 DEF BindingsMade, IsMade, OwnerOf
<1>4. Contact.a \in Body /\ Contact.b \in Body
  BY <1>1, <1>2, HeadContact
<1>5. contacts' \in {contacts, Tail(contacts)} /\ telling' \in {"none", "first", "second"}
  BY <1>1 DEF Dispatching, skip_contact, tell_first, tell_second, told, ContactTypeOK
<1>6. ContactTypeOK' /\ InPhase'
  BY <1>1, <1>2, <1>5, HeadTailProperties DEF ContactInv, ContactTypeOK, InPhase
<1>7. CASE skip_contact \/ told
  BY <1>3, <1>6, <1>7, <1>1 DEF skip_contact, told, ContactInv, ContactTold, Listening
<1>8. CASE tell_first
  <2>0. /\ Bound /\ event' = [self |-> Owner(Contact.a), other |-> Owner(Contact.b)]
        /\ UNCHANGED <<contacts, made>>
    BY <1>8 DEF tell_first, bodyVars
  <2>1. IsMade(Contact.a) /\ IsMade(Contact.b) /\ TellingOf(Contact.a, Contact.b)'
    <3>1. /\ IsMade(Contact.a) /\ Owner(Contact.a) = OwnerOf(Contact.a)
          /\ IsMade(Contact.b) /\ Owner(Contact.b) = OwnerOf(Contact.b)
      BY <1>1, <1>4, <2>0, BoundMade DEF Bound
    <3>. QED BY <2>0, <3>1 DEF TellingOf, OwnerOf, Contact
  <2>. QED BY <1>2, <1>3, <1>6, <1>8, <2>1 DEF tell_first, ContactInv, ContactTold, Contact, Listening,
                                               IsMade, Bound, binding_of
<1>9. CASE tell_second
  <2>1. /\ Listening /\ telling = "first" /\ telling' = "second" /\ UNCHANGED <<contacts, bindings, made>>
        /\ event' = [self |-> bindings[Contact.b.index].entity, other |-> bindings[Contact.a.index].entity]
    BY <1>9 DEF tell_second, Listening, bodyVars
  <2>2. IsMade(Contact.a) /\ IsMade(Contact.b) /\ (~ListenersRebind => Bound)
    BY <1>1, <2>1 DEF ContactTold
  <2>3. ~ListenersRebind => TellingOf(Contact.b, Contact.a)'
    <3> SUFFICES ASSUME ~ListenersRebind PROVE TellingOf(Contact.b, Contact.a)'
      OBVIOUS
    <3>1. /\ bindings[Contact.a.index].entity = OwnerOf(Contact.a)
          /\ bindings[Contact.b.index].entity = OwnerOf(Contact.b)
      BY <1>1, <1>4, <2>2, BoundMade DEF Bound
    <3>. QED BY <2>1, <3>1 DEF TellingOf, OwnerOf, Contact
  <2>. QED BY <1>2, <1>3, <1>6, <2>1, <2>2, <2>3 DEF ContactInv, ContactTold, Contact, Listening, IsMade
<1>. QED BY <1>7, <1>8, <1>9 DEF Dispatching

\* The loop waits for the dispatch.
LEMMA LoopContact ==
  ASSUME ContactInv, Loop \/ UNCHANGED physicsVars PROVE ContactInv'
<1>1. UNCHANGED <<bodyVars, contactVars>> /\ BindingsMade /\ ContactTypeOK /\ ContactTold
  BY DEF Loop, ContactInv, physicsVars
<1>2. InPhase'
  BY <1>1 DEF ContactInv, InPhase, contactVars, Loop, BodyOver, Ticking, begin_tick, enter_input, deliver_input, end_tick,
              structural_fails, kStructuralApply, journal_fails, physicsVars, tickVars, clockVars, kPhysics,
              kTickBegin, kInput, kTickEnd
<1>3. BindingsMade' /\ ContactTypeOK'
  BY <1>1 DEF BindingsMade, ContactTypeOK, IsMade, OwnerOf, bodyVars, contactVars
<1>4. ContactTold'
  <2>1. CASE Listening
    BY <1>1, <1>2, <2>1, ContactKept DEF IsMade, OwnerOf, bodyVars
  <2>2. CASE ~Listening
    BY <1>1, <2>2 DEF ContactTold, Listening, contactVars
  <2>. QED BY <2>1, <2>2
<1>. QED BY <1>2, <1>3, <1>4 DEF ContactInv

LEMMA StepContact == TickTypeOK /\ BodyInv /\ ContactInv /\ [PhysicsNext]_physicsVars => ContactInv'
  BY UserContact, SolverContact, DispatchContact, LoopContact DEF PhysicsNext

\* Every contact event that is heard names the entities its two bodies were
\* made for: the first one always, the second one where listeners of contacts
\* neither create nor destroy bodies.
THEOREM FirstEventNamesOwners ==
  PhysicsSpec =>
    [](telling = "first" => event = [self |-> OwnerOf(Contact.a), other |-> OwnerOf(Contact.b)])
<1>1. TickInv => TickTypeOK
  BY DEF TickInv
<1>2. ContactInv =>
        (telling = "first" => event = [self |-> OwnerOf(Contact.a), other |-> OwnerOf(Contact.b)])
  BY DEF ContactInv, ContactTold, TellingOf, Listening
<1>. QED BY <1>1, <1>2, LoopRefined, TickInvariant, InitBody, StepBody, InitContact, StepContact, PTL
         DEF PhysicsSpec

\* With the restriction the run makes.
THEOREM ContactsRight == ~ListenersRebind => (PhysicsSpec => []ContactsNameOwners)
<1> SUFFICES ASSUME ~ListenersRebind PROVE PhysicsSpec => []ContactsNameOwners
  OBVIOUS
<1>1. TickInv => TickTypeOK
  BY DEF TickInv
<1>2. ContactInv => ContactsNameOwners
  BY DEF ContactInv, ContactTypeOK, ContactTold, TellingOf, Listening, OwnerOf, ContactsNameOwners
<1>. QED BY <1>1, <1>2, LoopRefined, TickInvariant, InitBody, StepBody, InitContact, StepContact, PTL
         DEF PhysicsSpec
=============================================================================
