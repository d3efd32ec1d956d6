----------------------------- MODULE WorldProofs -----------------------------
(***************************************************************************)
(* The entity table keeps its invariant and implements the abstract        *)
(* handles, for every number of slots and generations; and the world keeps *)
(* its rows, its reservations and its despawns in flight consistent with   *)
(* the table, for every number of components and queued commands and any   *)
(* despawn observer that keeps its contract.                               *)
(***************************************************************************)
EXTENDS World, FiniteSetTheorems, TLAPS

LEMMA SlotsFinite == IsFiniteSet(Slot) /\ Cardinality(Slot) = MaxSlots
  BY FS_Interval, BoundsAssumption DEF Slot

LEMMA InitTableInv == TableInit => TableInv
<1> SUFFICES ASSUME TableInit PROVE TableInv
  OBVIOUS
<1>1. {i \in Slot : state[i] = "alive"} = {}
  BY DEF TableInit, Slot
<1>2. AliveCountExact
  BY <1>1, FS_EmptySet DEF TableInit, AliveCountExact
<1>. QED
  BY <1>2, BoundsAssumption
  DEF TableInit, TableInv, TableTypeOK, FreeListExact, GenerationHeadroom, Slot, SlotState

\* Where an allocation puts the entity: a created or a fresh slot that is
\* free, at a generation one more incarnation can still be released from.
LEMMA NextSlotFree ==
  ASSUME TableInv, CanAllocate
  PROVE  /\ NextSlot \in Slot
         /\ state[NextSlot] = "free"
         /\ generation[NextSlot] < MaxGeneration
         /\ IF free # <<>> THEN NextSlot < slot_count ELSE NextSlot = slot_count
<1> USE BoundsAssumption
    DEF TableInv, TableTypeOK, FreeListExact, GenerationHeadroom, Slot, NextSlot, CanAllocate
<1>1. CASE free # <<>>
  <2>1. Len(free) \in 1 .. Len(free)
    BY <1>1
  <2>2. free[Len(free)] \in {i \in Slot : i < slot_count /\ state[i] = "free"}
    BY <2>1
  <2>. QED BY <1>1, <2>2
<1>2. CASE free = <<>>
  BY <1>2
<1>. QED BY <1>1, <1>2

\* Taking a slot off the top of the stack leaves the rest of it in place.
LEMMA PoppedStack ==
  ASSUME NEW S, NEW s \in Seq(S), s # <<>>,
         \A a, b \in 1 .. Len(s) : s[a] = s[b] => a = b
  PROVE  LET t == SubSeq(s, 1, Len(s) - 1) IN
         /\ t \in Seq(S)
         /\ \A a, b \in 1 .. Len(t) : t[a] = t[b] => a = b
         /\ {t[a] : a \in 1 .. Len(t)} = {s[a] : a \in 1 .. Len(s)} \ {s[Len(s)]}
  OBVIOUS

\* Pushing a slot that is not on the stack keeps its entries distinct.
LEMMA PushedStack ==
  ASSUME NEW S, NEW s \in Seq(S), NEW x \in S,
         \A a, b \in 1 .. Len(s) : s[a] = s[b] => a = b,
         x \notin {s[a] : a \in 1 .. Len(s)}
  PROVE  LET t == Append(s, x) IN
         /\ t \in Seq(S)
         /\ \A a, b \in 1 .. Len(t) : t[a] = t[b] => a = b
         /\ {t[a] : a \in 1 .. Len(t)} = {s[a] : a \in 1 .. Len(s)} \cup {x}
  OBVIOUS

\* The live slots a counter stands for: one more, or one less.
LEMMA CountAfterAdd ==
  ASSUME NEW S \in SUBSET Slot, NEW i \in Slot \ S
  PROVE  /\ Cardinality(S \cup {i}) = Cardinality(S) + 1
         /\ Cardinality(S \cup {i}) \in 0 .. MaxSlots
<1>1. IsFiniteSet(S)
  BY SlotsFinite, FS_Subset
<1>2. Cardinality(S \cup {i}) = Cardinality(S) + 1 /\ Cardinality(S) \in Nat
  BY <1>1, FS_AddElement, FS_CardinalityType
<1>3. S \cup {i} \in SUBSET Slot
  OBVIOUS
<1>4. Cardinality(S \cup {i}) <= MaxSlots
  BY <1>3, SlotsFinite, FS_Subset
<1>. QED BY <1>2, <1>4, BoundsAssumption

LEMMA CountAfterRemove ==
  ASSUME NEW S \in SUBSET Slot, NEW i \in S
  PROVE  /\ Cardinality(S \ {i}) = Cardinality(S) - 1
         /\ Cardinality(S \ {i}) \in 0 .. MaxSlots
<1>1. IsFiniteSet(S)
  BY SlotsFinite, FS_Subset
<1>2. Cardinality(S \ {i}) = Cardinality(S) - 1
  BY <1>1, FS_RemoveElement
<1>3. S \ {i} \in SUBSET Slot
  OBVIOUS
<1>4. IsFiniteSet(S \ {i}) /\ Cardinality(S \ {i}) <= MaxSlots
  BY <1>3, SlotsFinite, FS_Subset
<1>5. Cardinality(S \ {i}) \in Nat
  BY <1>4, FS_CardinalityType
<1>. QED BY <1>2, <1>4, <1>5, BoundsAssumption

AliveSlots == {i \in Slot : state[i] = "alive"}

LEMMA AllocateTableInv ==
  ASSUME TableInv, NEW initial \in {"pending", "alive"}, allocate(initial)
  PROVE  TableInv'
<1> USE BoundsAssumption DEF TableInv
<1>0. CanAllocate
  BY DEF allocate
<1>1. /\ NextSlot \in Slot
      /\ state[NextSlot] = "free"
      /\ generation[NextSlot] < MaxGeneration
      /\ IF free # <<>> THEN NextSlot < slot_count ELSE NextSlot = slot_count
  BY <1>0, NextSlotFree
<1>2. state' \in [Slot -> SlotState] /\ slot_count' \in 0 .. MaxSlots /\ generation' = generation
  BY <1>0, <1>1 DEF allocate, TableTypeOK, SlotState, CanAllocate
<1>3. free' \in Seq(Slot) /\ FreeListExact'
  <2>1. CASE free # <<>>
    <3>1. /\ free' \in Seq(Slot)
          /\ \A a, b \in 1 .. Len(free') : free'[a] = free'[b] => a = b
          /\ {free'[a] : a \in 1 .. Len(free')} = {free[a] : a \in 1 .. Len(free)} \ {NextSlot}
      <4>1. free' = SubSeq(free, 1, Len(free) - 1) /\ NextSlot = free[Len(free)]
        BY <2>1 DEF allocate, NextSlot
      <4>2. free \in Seq(Slot) /\ \A a, b \in 1 .. Len(free) : free[a] = free[b] => a = b
        BY DEF TableTypeOK, FreeListExact
      <4>. HIDE DEF TableInv
      <4>. QED BY <4>1, <4>2, <2>1, PoppedStack
    <3>2. {i \in Slot : i < slot_count' /\ state'[i] = "free"}
            = {i \in Slot : i < slot_count /\ state[i] = "free"} \ {NextSlot}
      BY <2>1, <1>1 DEF allocate, TableTypeOK
    <3>. QED BY <3>1, <3>2 DEF FreeListExact
  <2>2. CASE free = <<>>
    <3>1. free' = free /\ slot_count' = slot_count + 1 /\ NextSlot = slot_count
      BY <2>2 DEF allocate, NextSlot
    <3>2. {i \in Slot : i < slot_count' /\ state'[i] = "free"}
            = {i \in Slot : i < slot_count /\ state[i] = "free"}
      <4>1. \A i \in Slot : state'[i] = IF i = slot_count THEN initial ELSE state[i]
        BY <3>1, <1>1 DEF allocate, TableTypeOK
      <4>2. slot_count \in Nat
        BY DEF TableTypeOK
      <4>3. ASSUME NEW i \in Slot
            PROVE  (i < slot_count' /\ state'[i] = "free") <=> (i < slot_count /\ state[i] = "free")
        BY <3>1, <4>1, <4>2 DEF Slot
      <4>. QED BY <4>3
    <3>3. free \in Seq(Slot) /\ FreeListExact
      BY DEF TableTypeOK
    <3>. HIDE DEF TableInv
    <3>. QED BY <3>1, <3>2, <3>3 DEF FreeListExact
  <2>. QED BY <2>1, <2>2
<1>4. GenerationHeadroom'
  <2>1. slot_count \in Nat /\ slot_count' \in Nat
    BY <1>2 DEF TableTypeOK
  <2>2. \A i \in Slot : state'[i] = IF i = NextSlot THEN initial ELSE state[i]
    BY <1>1 DEF allocate, TableTypeOK
  <2>3. slot_count' = IF free # <<>> THEN slot_count ELSE slot_count + 1
    BY DEF allocate
  <2>4. ASSUME NEW i \in Slot, i >= slot_count'
        PROVE  i # NextSlot /\ i >= slot_count
    BY <2>1, <2>3, <2>4, <1>1 DEF Slot
  <2>. QED BY <1>1, <1>2, <2>2, <2>4 DEF GenerationHeadroom
<1>5. AliveCountExact' /\ alive_count' \in 0 .. MaxSlots
  <2>1. AliveSlots \in SUBSET Slot /\ NextSlot \in Slot \ AliveSlots
    BY <1>1 DEF AliveSlots
  <2>2. CASE initial = "alive"
    <3>1. AliveSlots' = AliveSlots \cup {NextSlot}
      BY <2>2, <1>1 DEF AliveSlots, allocate, TableTypeOK
    <3>2. alive_count' = Cardinality(AliveSlots) + 1
      BY <2>2 DEF AliveCountExact, AliveSlots, allocate
    <3>. QED BY <2>1, <3>1, <3>2, CountAfterAdd DEF AliveCountExact, AliveSlots
  <2>3. CASE initial = "pending"
    <3>1. AliveSlots' = AliveSlots
      BY <2>3, <1>1 DEF AliveSlots, allocate, TableTypeOK
    <3>. QED BY <2>3, <3>1 DEF AliveCountExact, AliveSlots, allocate, TableTypeOK
  <2>. QED BY <2>2, <2>3
<1>. QED BY <1>2, <1>3, <1>4, <1>5 DEF TableTypeOK

LEMMA MakeAliveTableInv ==
  ASSUME TableInv, NEW ref \in Ref, make_alive(ref)
  PROVE  TableInv'
<1> USE BoundsAssumption DEF TableInv
<1>1. ref.index \in Slot /\ state[ref.index] = "pending" /\ ref.index < slot_count
  BY DEF make_alive, is_pending, names, Ref
<1>2. FreeListExact' /\ GenerationHeadroom'
  BY <1>1 DEF make_alive, FreeListExact, GenerationHeadroom, TableTypeOK
<1>3. AliveCountExact' /\ alive_count' \in 0 .. MaxSlots
  <2>1. AliveSlots \in SUBSET Slot /\ ref.index \in Slot \ AliveSlots
    BY <1>1 DEF AliveSlots
  <2>2. AliveSlots' = AliveSlots \cup {ref.index}
    BY <1>1 DEF AliveSlots, make_alive, TableTypeOK
  <2>. QED BY <2>1, <2>2, CountAfterAdd DEF AliveCountExact, AliveSlots, make_alive
<1>. QED BY <1>1, <1>2, <1>3 DEF make_alive, TableTypeOK, SlotState

LEMMA ReleaseTableInv ==
  ASSUME TableInv, NEW ref \in Ref, release(ref)
  PROVE  TableInv'
<1> USE BoundsAssumption DEF TableInv
<1>1. ref.index \in Slot /\ state[ref.index] = "alive" /\ ref.index < slot_count
  BY DEF release, is_alive, names, Ref
<1>2. generation[ref.index] \in 0 .. MaxGeneration - 1
  BY <1>1, SMTT(30) DEF GenerationHeadroom, TableTypeOK
<1>3. free' \in Seq(Slot) /\ FreeListExact'
  <2>1. ref.index \notin {free[a] : a \in 1 .. Len(free)}
    BY <1>1 DEF FreeListExact
  <2>2. /\ free' \in Seq(Slot)
        /\ \A a, b \in 1 .. Len(free') : free'[a] = free'[b] => a = b
        /\ {free'[a] : a \in 1 .. Len(free')} = {free[a] : a \in 1 .. Len(free)} \cup {ref.index}
    <3>1. free' = Append(free, ref.index)
      BY DEF release
    <3>2. free \in Seq(Slot) /\ \A a, b \in 1 .. Len(free) : free[a] = free[b] => a = b
      BY DEF TableTypeOK, FreeListExact
    <3>. HIDE DEF TableInv
    <3>. QED BY <3>1, <3>2, <2>1, <1>1, PushedStack
  <2>3. {i \in Slot : i < slot_count' /\ state'[i] = "free"}
          = {i \in Slot : i < slot_count /\ state[i] = "free"} \cup {ref.index}
    BY <1>1 DEF release, TableTypeOK
  <2>. QED BY <2>2, <2>3 DEF FreeListExact
<1>4. GenerationHeadroom'
  BY <1>1, <1>2 DEF GenerationHeadroom, release, TableTypeOK
<1>5. AliveCountExact' /\ alive_count' \in 0 .. MaxSlots
  <2>1. AliveSlots \in SUBSET Slot /\ ref.index \in AliveSlots
    BY <1>1 DEF AliveSlots
  <2>2. AliveSlots' = AliveSlots \ {ref.index}
    BY <1>1 DEF AliveSlots, release, TableTypeOK
  <2>. QED BY <2>1, <2>2, CountAfterRemove DEF AliveCountExact, AliveSlots, release
<1>. QED BY <1>1, <1>2, <1>3, <1>4, <1>5 DEF release, TableTypeOK, SlotState

LEMMA StepTableInv == TableInv /\ [TableNext]_tableVars => TableInv'
<1> SUFFICES ASSUME TableInv, [TableNext]_tableVars PROVE TableInv'
  OBVIOUS
<1>1. CASE \E initial \in {"pending", "alive"} : allocate(initial)
  BY <1>1, AllocateTableInv
<1>2. CASE \E ref \in Ref : make_alive(ref)
  BY <1>2, MakeAliveTableInv
<1>3. CASE \E ref \in Ref : release(ref)
  BY <1>3, ReleaseTableInv
<1>4. CASE UNCHANGED tableVars
  BY <1>4 DEF tableVars, TableInv, TableTypeOK, FreeListExact, GenerationHeadroom,
              AliveCountExact
<1>. QED BY <1>1, <1>2, <1>3, <1>4 DEF TableNext

\* The slot states, free list, generations and live count agree in every
\* reachable state of the table.
THEOREM TableInvariant == TableSpec => []TableInv
<1>. QED BY InitTableInv, StepTableInv, PTL DEF TableSpec

\* The free list holds each created free slot exactly once: allocate never
\* hands out a slot in use and release never loses one.
THEOREM FreeListCorrect == TableSpec => []FreeListExact
<1>1. TableInv => FreeListExact
  BY DEF TableInv
<1>. QED BY <1>1, TableInvariant, PTL

-----------------------------------------------------------------------------
\* The handles a table state stands for.
ReservedRefs == {ref \in Ref : is_pending(ref)}
LiveRefs == {ref \in Ref : is_alive(ref)}
RetiredRefs == {ref \in Ref : ref.index < slot_count /\ ref.generation < generation[ref.index]}

LEMMA InitPromise == TableInit => Promise!Init
<1> SUFFICES ASSUME TableInit PROVE Promise!Init
  OBVIOUS
<1>1. slot_count = 0 /\ \A ref \in Ref : ~(ref.index < 0)
  BY BoundsAssumption DEF TableInit, Ref, Slot
<1>. QED BY <1>1 DEF Promise!Init, is_pending, is_alive, names

\* The handle an allocation returns was never issued before.
LEMMA AllocatePromise ==
  ASSUME TableInv, NEW initial \in {"pending", "alive"}, allocate(initial)
  PROVE  \E h \in Ref : Promise!Reserve(h) \/ Promise!Issue(h)
<1>0. CanAllocate
  BY DEF allocate
<1>1. /\ NextSlot \in Slot
      /\ state[NextSlot] = "free"
      /\ generation[NextSlot] < MaxGeneration
      /\ IF free # <<>> THEN NextSlot < slot_count ELSE NextSlot = slot_count
  BY <1>0, NextSlotFree
<1>2. /\ generation \in [Slot -> 0 .. MaxGeneration] /\ generation' = generation
      /\ state \in [Slot -> SlotState]
      /\ state' = [state EXCEPT ![NextSlot] = initial]
      /\ slot_count \in Nat
      /\ slot_count' = IF free # <<>> THEN slot_count ELSE slot_count + 1
  BY DEF TableInv, TableTypeOK, allocate
<1>3. \A i \in Slot : i >= slot_count => generation[i] = 0
  BY DEF TableInv, GenerationHeadroom
<1>4. PICK h \in Ref : h.index = NextSlot /\ h.generation = generation[NextSlot]
  <2>1. ref_of(NextSlot) \in Ref
    BY <1>1, <1>2, BoundsAssumption DEF ref_of, Ref
  <2>. QED BY <2>1 DEF ref_of
<1>5. h \notin ReservedRefs \cup LiveRefs \cup RetiredRefs
  BY <1>1, <1>2, <1>4, BoundsAssumption
  DEF ReservedRefs, LiveRefs, RetiredRefs, is_pending, is_alive, names, Slot
<1>6. \A ref \in Ref : /\ ref.index \in Slot /\ ref.generation \in Nat
                       /\ ref = h <=> (ref.index = NextSlot /\ ref.generation = generation[NextSlot])
  BY <1>4, BoundsAssumption DEF Ref, Slot
<1>7. \A ref \in Ref :
        /\ ref \in RetiredRefs' <=> ref \in RetiredRefs
        /\ ref # h => (is_pending(ref)' <=> is_pending(ref)) /\ (is_alive(ref)' <=> is_alive(ref))
        /\ is_pending(h)' <=> initial = "pending"
        /\ is_alive(h)' <=> initial = "alive"
  <2> SUFFICES ASSUME NEW ref \in Ref
               PROVE  /\ ref \in RetiredRefs' <=> ref \in RetiredRefs
                      /\ ref # h => (is_pending(ref)' <=> is_pending(ref))
                                      /\ (is_alive(ref)' <=> is_alive(ref))
                      /\ is_pending(h)' <=> initial = "pending"
                      /\ is_alive(h)' <=> initial = "alive"
    OBVIOUS
  <2>1. ref.index \in Nat /\ ref.index \in Slot /\ ref.generation \in Nat /\ NextSlot \in Nat
    BY <1>1, <1>6, BoundsAssumption DEF Slot
  <2>2. ref.index # NextSlot => (ref.index < slot_count' <=> ref.index < slot_count)
    BY <2>1, <1>1, <1>2
  <2>3. NextSlot < slot_count'
    BY <1>1, <1>2
  <2>4. ref \in RetiredRefs' <=> ref \in RetiredRefs
    BY <2>1, <2>2, <1>1, <1>2, <1>3 DEF RetiredRefs
  <2>5. ref # h => (is_pending(ref)' <=> is_pending(ref)) /\ (is_alive(ref)' <=> is_alive(ref))
    BY <2>1, <2>2, <1>1, <1>2, <1>6 DEF is_pending, is_alive, names
  <2>6. (is_pending(h)' <=> initial = "pending") /\ (is_alive(h)' <=> initial = "alive")
    BY <2>3, <1>1, <1>2, <1>4 DEF is_pending, is_alive, names
  <2>. QED BY <2>4, <2>5, <2>6
<1>8. RetiredRefs' = RetiredRefs
  BY <1>7 DEF RetiredRefs
<1>9. CASE initial = "pending"
  <2>1. ReservedRefs' = ReservedRefs \cup {h} /\ LiveRefs' = LiveRefs
    BY <1>4, <1>5, <1>7, <1>9 DEF ReservedRefs, LiveRefs
  <2>. QED BY <2>1, <1>4, <1>5, <1>8
           DEF Promise!Reserve, Promise!Issued, ReservedRefs, LiveRefs, RetiredRefs
<1>10. CASE initial = "alive"
  <2>1. LiveRefs' = LiveRefs \cup {h} /\ ReservedRefs' = ReservedRefs
    BY <1>4, <1>5, <1>7, <1>10 DEF ReservedRefs, LiveRefs
  <2>. QED BY <2>1, <1>4, <1>5, <1>8
           DEF Promise!Issue, Promise!Issued, ReservedRefs, LiveRefs, RetiredRefs
<1>. QED BY <1>9, <1>10

LEMMA MakeAlivePromise ==
  ASSUME TableInv, NEW h \in Ref, make_alive(h)
  PROVE  Promise!GoLive(h)
<1>1. h.index \in Slot /\ state \in [Slot -> SlotState] /\ \A ref \in Ref : ref.index \in Slot
  BY DEF Ref, TableInv, TableTypeOK
<1>2. /\ is_pending(h) /\ state' = [state EXCEPT ![h.index] = "alive"]
      /\ generation' = generation /\ slot_count' = slot_count
  BY DEF make_alive
<1>3. \A ref \in Ref : ref = h <=> (ref.index = h.index /\ ref.generation = h.generation)
  BY DEF Ref
<1>4. RetiredRefs' = RetiredRefs
  BY <1>2 DEF RetiredRefs
<1>5. ReservedRefs' = ReservedRefs \ {h}
  BY <1>1, <1>2, <1>3 DEF ReservedRefs, is_pending, names
<1>6. LiveRefs' = LiveRefs \cup {h}
  BY <1>1, <1>2, <1>3 DEF LiveRefs, is_alive, is_pending, names
<1>. QED BY <1>2, <1>4, <1>5, <1>6
         DEF Promise!GoLive, ReservedRefs, LiveRefs, RetiredRefs

LEMMA ReleasePromise ==
  ASSUME TableInv, NEW h \in Ref, release(h)
  PROVE  Promise!Retire(h)
<1>1. /\ h.index \in Slot /\ state \in [Slot -> SlotState]
      /\ generation \in [Slot -> 0 .. MaxGeneration]
      /\ \A ref \in Ref : ref.index \in Slot /\ ref.generation \in Nat
  BY BoundsAssumption DEF Ref, TableInv, TableTypeOK
<1>2. /\ is_alive(h) /\ state' = [state EXCEPT ![h.index] = "free"]
      /\ generation' = [generation EXCEPT ![h.index] = @ + 1] /\ slot_count' = slot_count
      /\ h.generation = generation[h.index]
  BY DEF release, is_alive, names
<1>3. \A ref \in Ref : ref = h <=> (ref.index = h.index /\ ref.generation = h.generation)
  BY DEF Ref
<1>4. RetiredRefs' = RetiredRefs \cup {h}
  BY <1>1, <1>2, <1>3 DEF RetiredRefs, is_alive, names
<1>5. ReservedRefs' = ReservedRefs
  BY <1>1, <1>2, <1>3 DEF ReservedRefs, is_alive, is_pending, names
<1>6. LiveRefs' = LiveRefs \ {h}
  BY <1>1, <1>2, <1>3 DEF LiveRefs, is_alive, names
<1>. QED BY <1>2, <1>4, <1>5, <1>6
         DEF Promise!Retire, ReservedRefs, LiveRefs, RetiredRefs

\* The table implements the abstract handles: a handle is issued once and a
\* retired one never names an entity again, however slots are recycled.
THEOREM HandlesCorrect == TableSpec => HandlesKept
<1>1. TableInv /\ [TableNext]_tableVars => [Promise!Next]_(Promise!handleVars)
  <2> SUFFICES ASSUME TableInv, [TableNext]_tableVars
               PROVE  [Promise!Next]_(Promise!handleVars)
    OBVIOUS
  <2>1. CASE \E initial \in {"pending", "alive"} : allocate(initial)
    BY <2>1, AllocatePromise DEF Promise!Next
  <2>2. CASE \E ref \in Ref : make_alive(ref)
    BY <2>2, MakeAlivePromise DEF Promise!Next
  <2>3. CASE \E ref \in Ref : release(ref)
    BY <2>3, ReleasePromise DEF Promise!Next
  <2>4. CASE UNCHANGED tableVars
    BY <2>4 DEF tableVars, Promise!handleVars, is_pending, is_alive, names
  <2>. QED BY <2>1, <2>2, <2>3, <2>4 DEF TableNext
<1>. QED BY <1>1, InitPromise, TableInvariant, PTL DEF TableSpec, HandlesKept, Promise!Spec

-----------------------------------------------------------------------------
LEMMA InitWorldInv == WorldInit => WorldInv
<1> SUFFICES ASSUME WorldInit PROVE WorldInv
  OBVIOUS
<1>1. TableInv
  BY InitTableInv DEF WorldInit
<1>2. WorldTypeOK
  <2>1. commands \in Seq(Command) /\ Len(commands) = 0 /\ despawning \in Seq(Ref)
    BY DEF WorldInit
  <2>2. present \in [Component -> SUBSET Slot] /\ active \in [Component -> SUBSET Slot]
    BY DEF WorldInit
  <2>3. iteration_depth \in 0 .. MaxIterating /\ cursor \in 0 .. Len(commands) + 1
    BY <2>1, QueueBoundsAssumption DEF WorldInit
  <2>4. handler \in BOOLEAN
    BY DEF WorldInit
  <2>. QED BY <1>1, <2>1, <2>2, <2>3, <2>4 DEF WorldTypeOK, TableInv
<1>. QED BY <1>1, <1>2
  DEF WorldInit, TableInit, WorldInv, RowsOnlyForAlive, SpawnOwed, OwedSpawns, InFlightAlive

-----------------------------------------------------------------------------
\* What an allocation does to the handle tests: the new handle is named, and
\* every handle that was current stays as it was.
LEMMA AllocateFrame ==
  ASSUME TableInv, NEW initial \in {"pending", "alive"}, allocate(initial)
  PROVE  /\ TableInv'
         /\ NextSlot \in Slot /\ state[NextSlot] = "free"
         /\ generation' = generation
         /\ \A i \in Slot : state'[i] = IF i = NextSlot THEN initial ELSE state[i]
         /\ slot_count \in Nat /\ slot_count' \in Nat /\ slot_count <= slot_count'
         /\ NextSlot < slot_count'
         /\ ref_of(NextSlot) \in Ref
<1>0. CanAllocate
  BY DEF allocate
<1>1. /\ NextSlot \in Slot /\ state[NextSlot] = "free" /\ generation[NextSlot] < MaxGeneration
      /\ IF free # <<>> THEN NextSlot < slot_count ELSE NextSlot = slot_count
  BY <1>0, NextSlotFree
<1>2. TableInv'
  BY AllocateTableInv
<1>3. /\ generation \in [Slot -> 0 .. MaxGeneration] /\ generation' = generation
      /\ state \in [Slot -> SlotState] /\ state' = [state EXCEPT ![NextSlot] = initial]
      /\ slot_count \in Nat
      /\ slot_count' = IF free # <<>> THEN slot_count ELSE slot_count + 1
  BY DEF TableInv, TableTypeOK, allocate
<1>4. ref_of(NextSlot) \in Ref
  BY <1>1, <1>3, BoundsAssumption DEF ref_of, Ref
<1>. QED BY <1>1, <1>2, <1>3, <1>4

\* Handles of different live or pending entities are of different slots.
LEMMA SlotOfCurrent ==
  ASSUME NEW r \in Ref, NEW q \in Ref, is_current(r), is_current(q), r.index = q.index
  PROVE  r = q
  BY DEF is_current, names, Ref

\* A step that leaves the table alone leaves every handle test alone.
LEMMA TableFrame ==
  ASSUME UNCHANGED tableVars
  PROVE  /\ \A r \in Ref : is_alive(r)' <=> is_alive(r)
         /\ \A r \in Ref : is_pending(r)' <=> is_pending(r)
         /\ \A i \in Slot : ref_of(i)' = ref_of(i)
         /\ state' = state
  BY DEF tableVars, is_alive, is_pending, names, ref_of

-----------------------------------------------------------------------------
LEMMA StepTable ==
  ASSUME WorldInv, [WorldNext]_worldVars
  PROVE  TableInv'
<1> USE DEF WorldInv
<1>1. CASE UNCHANGED tableVars
  BY <1>1 DEF tableVars, TableInv, TableTypeOK, FreeListExact, GenerationHeadroom, AliveCountExact
<1>2. CASE spawn \/ queue_spawn
  BY <1>2, AllocateTableInv DEF spawn, queue_spawn
<1>3. CASE flush_spawn
  <2>1. Current.entity \in Ref
    BY <1>3 DEF flush_spawn, Flushing, Current, WorldTypeOK, Command
  <2>. QED BY <1>3, <2>1, MakeAliveTableInv DEF flush_spawn
<1>4. CASE finish_despawn
  <2>1. InFlight \in Ref
    BY <1>4 DEF finish_despawn, InFlight, WorldTypeOK
  <2>. QED BY <1>4, <2>1, ReleaseTableInv DEF finish_despawn
<1>. QED
  BY <1>1, <1>2, <1>3, <1>4
  DEF WorldNext, Calls, Running, worldVars, despawn, emplace, set_active, begin_each, end_each,
      set_reparent_handler, queue_despawn, queue_reparent, flush_structural, flush_despawn,
      flush_reparent, flush_drop, flush_done, observer_despawn

\* Every command and every despawn in flight names a handle of the table.
LEMMA NamedHandles ==
  ASSUME WorldTypeOK
  PROVE  /\ \A k \in 1 .. Len(commands) : commands[k] \in Command /\ commands[k].entity \in Ref
         /\ \A k \in 1 .. Len(despawning) : despawning[k] \in Ref
         /\ Len(commands) \in Nat /\ Len(despawning) \in Nat /\ cursor \in Nat
  BY DEF WorldTypeOK, Command

\* Whom a flush adopts is alive: the handles of the command were validated again.
LEMMA StrangersAlive ==
  ASSUME WorldTypeOK, flush_reparent
  PROVE  \A i \in Strangers : i \in Slot /\ state[i] = "alive"
<1> SUFFICES ASSUME NEW i \in Strangers PROVE i \in Slot /\ state[i] = "alive"
  OBVIOUS
<1>1. Current \in Command /\ Current.op = "reparent"
  BY NamedHandles DEF flush_reparent, Flushing, Current
<1>2. Current.entity \in Ref /\ Current.parent \in Ref \cup {NullRef}
  BY <1>1 DEF Command
<1>3. PICK ref \in {Current.entity, Current.parent} \ {NullRef} : i = ref.index
  BY DEF Strangers
<1>4. ref \in Ref /\ is_alive(ref)
  BY <1>2, <1>3 DEF flush_reparent, ReparentApplies
<1>. QED BY <1>3, <1>4 DEF is_alive, Ref

LEMMA StepType ==
  ASSUME WorldInv, [WorldNext]_worldVars
  PROVE  WorldTypeOK'
<1> USE DEF WorldInv
<1>0. TableTypeOK'
  BY StepTable DEF TableInv
<1>1. present' \in [Component -> SUBSET Slot] /\ active' \in [Component -> SUBSET Slot]
  <2>1. CASE UNCHANGED rowVars
    BY <2>1 DEF rowVars, WorldTypeOK
  <2>2. ASSUME NEW ref \in Ref, NEW c \in Component, NEW bit \in BOOLEAN,
               emplace(ref, c, bit) \/ set_active(ref, c, bit)
        PROVE  present' \in [Component -> SUBSET Slot] /\ active' \in [Component -> SUBSET Slot]
    <3>1. ref.index \in Slot
      BY DEF Ref
    <3>. QED BY <2>2, <3>1 DEF emplace, set_active, WorldTypeOK
  <2>3. CASE flush_reparent
    <3>1. Strangers \subseteq Slot
      BY <2>3, StrangersAlive
    <3>. QED BY <2>3, <3>1 DEF flush_reparent, WorldTypeOK
  <2>4. CASE finish_despawn
    BY <2>4 DEF finish_despawn, erase_rows, WorldTypeOK
  <2>. QED
    BY <2>1, <2>2, <2>3, <2>4
    DEF WorldNext, Calls, Running, worldVars, spawn, queue_spawn, despawn, begin_each, end_each,
        set_reparent_handler, queue_despawn, queue_reparent, enqueue, flush_structural, flush_spawn,
        flush_despawn, flush_drop, flush_done, observer_despawn
<1>2. /\ commands' \in Seq(Command) /\ iteration_depth' \in 0 .. MaxIterating
      /\ handler' \in BOOLEAN /\ cursor' \in 0 .. Len(commands') + 1
  <2>0. /\ commands \in Seq(Command) /\ iteration_depth \in 0 .. MaxIterating
        /\ handler \in BOOLEAN /\ cursor \in 0 .. Len(commands) + 1 /\ Len(commands) \in Nat
    BY DEF WorldTypeOK
  <2>1. CASE UNCHANGED <<queueVars, cursor>>
    BY <2>0, <2>1 DEF queueVars
  <2>2. CASE queue_spawn
    <3>1. ref_of(NextSlot) \in Ref
      BY <2>2, AllocateFrame DEF queue_spawn
    <3>2. [op |-> "spawn", entity |-> ref_of(NextSlot)] \in Command
      BY <3>1 DEF Command
    <3>. QED BY <2>0, <2>2, <3>2 DEF queue_spawn, enqueue, Idle
  <2>3. ASSUME NEW ref \in Ref, queue_despawn(ref)
        PROVE  commands' \in Seq(Command) /\ cursor' \in 0 .. Len(commands') + 1
               /\ UNCHANGED <<iteration_depth, handler>>
    <3>1. [op |-> "despawn", entity |-> ref] \in Command
      BY DEF Command
    <3>. QED BY <2>0, <2>3, <3>1 DEF queue_despawn, enqueue, Idle
  <2>4. ASSUME NEW child \in Ref, NEW parent \in Ref \cup {NullRef}, queue_reparent(child, parent)
        PROVE  commands' \in Seq(Command) /\ cursor' \in 0 .. Len(commands') + 1
               /\ UNCHANGED <<iteration_depth, handler>>
    <3>1. [op |-> "reparent", entity |-> child, parent |-> parent] \in Command
      BY DEF Command
    <3>. QED BY <2>0, <2>4, <3>1 DEF queue_reparent, enqueue, Idle
  <2>5. CASE begin_each \/ end_each
    BY <2>0, <2>5, QueueBoundsAssumption DEF begin_each, end_each
  <2>6. CASE set_reparent_handler
    BY <2>0, <2>6 DEF set_reparent_handler
  <2>7. CASE flush_structural
    BY <2>0, <2>7 DEF flush_structural, queueVars
  <2>8. CASE flush_spawn \/ flush_despawn \/ flush_reparent \/ flush_drop
    BY <2>0, <2>8
    DEF flush_spawn, flush_despawn, flush_reparent, flush_drop, Flushing, StepCursor, queueVars
  <2>9. CASE flush_done
    <3>1. <<>> \in Seq(Command) /\ Len(<<>>) = 0
      OBVIOUS
    <3>. QED BY <2>0, <2>9, <3>1 DEF flush_done
  <2>. QED
    BY <2>0, <2>1, <2>2, <2>3, <2>4, <2>5, <2>6, <2>7, <2>8, <2>9
    DEF WorldNext, Calls, Running, worldVars, spawn, despawn, emplace, set_active,
        observer_despawn, finish_despawn
<1>3. despawning' \in Seq(Ref)
  <2>0. despawning \in Seq(Ref)
    BY DEF WorldTypeOK
  <2>1. CASE UNCHANGED despawning
    BY <2>0, <2>1
  <2>2. ASSUME NEW ref \in Ref, despawn(ref) \/ observer_despawn(ref)
        PROVE  despawning' \in Seq(Ref)
    <3>1. <<ref>> \in Seq(Ref) /\ Append(despawning, ref) \in Seq(Ref)
      BY <2>0
    <3>. QED BY <2>2, <3>1 DEF despawn, observer_despawn
  <2>3. CASE flush_despawn
    <3>1. Current.entity \in Ref /\ despawning' = <<Current.entity>>
      BY <2>3, NamedHandles DEF flush_despawn, Flushing, Current
    <3>. QED BY <3>1
  <2>4. CASE finish_despawn
    BY <2>0, <2>4 DEF finish_despawn
  <2>. QED
    BY <2>1, <2>2, <2>3, <2>4
    DEF WorldNext, Calls, Running, worldVars, spawn, queue_spawn, emplace, set_active,
        begin_each, end_each, set_reparent_handler, queue_despawn, queue_reparent, enqueue,
        flush_structural, flush_spawn, flush_reparent, flush_drop, flush_done
<1>. QED BY <1>0, <1>1, <1>2, <1>3 DEF WorldTypeOK

\* Rows: only emplace and adoption add one, for a live entity; a slot stops being live
\* only when its rows have been erased from every pool.
LEMMA StepRows ==
  ASSUME WorldInv, [WorldNext]_worldVars
  PROVE  RowsOnlyForAlive'
<1> USE DEF WorldInv
<1>0. /\ present \in [Component -> SUBSET Slot] /\ active \in [Component -> SUBSET Slot]
      /\ state \in [Slot -> SlotState]
  BY DEF WorldTypeOK, TableTypeOK
<1>1. CASE UNCHANGED <<rowVars, state>>
  BY <1>1 DEF rowVars, RowsOnlyForAlive
<1>2. CASE spawn \/ queue_spawn
  <2>1. UNCHANGED rowVars
    BY <1>2 DEF spawn, queue_spawn, enqueue
  <2>2. NextSlot \in Slot /\ state[NextSlot] = "free"
        /\ \A i \in Slot : i # NextSlot => state'[i] = state[i]
    BY <1>2, AllocateFrame DEF spawn, queue_spawn
  <2>. QED BY <1>0, <2>1, <2>2 DEF RowsOnlyForAlive, rowVars
<1>3. ASSUME NEW ref \in Ref, NEW c \in Component, NEW bit \in BOOLEAN, emplace(ref, c, bit)
      PROVE  RowsOnlyForAlive'
  BY <1>0, <1>3 DEF emplace, RowsOnlyForAlive, is_alive, tableVars
<1>4. ASSUME NEW ref \in Ref, NEW c \in Component, NEW bit \in BOOLEAN, set_active(ref, c, bit)
      PROVE  RowsOnlyForAlive'
  BY <1>0, <1>4 DEF set_active, RowsOnlyForAlive, tableVars
<1>5. CASE flush_spawn
  <2>1. Current.entity \in Ref /\ state[Current.entity.index] = "pending"
    BY <1>5, NamedHandles DEF flush_spawn, Flushing, Current, make_alive, is_pending
  <2>. QED BY <1>0, <1>5, <2>1 DEF flush_spawn, make_alive, RowsOnlyForAlive, rowVars, Ref
<1>6. CASE flush_reparent
  <2>1. state' = state /\ \A i \in Strangers : i \in Slot /\ state[i] = "alive"
    BY <1>6, StrangersAlive DEF flush_reparent, tableVars
  <2>2. \A c \in Component : active'[c] \subseteq present'[c]
    BY <1>6 DEF flush_reparent
  <2>3. \A c \in Component : present'[c] \subseteq present[c] \cup Strangers
    BY <1>6 DEF flush_reparent
  <2>. QED BY <2>1, <2>2, <2>3 DEF RowsOnlyForAlive
<1>7. CASE finish_despawn
  <2>1. InFlight \in Ref /\ InFlight.index \in Slot
    BY <1>7, NamedHandles DEF finish_despawn, InFlight, Ref, WorldTypeOK
  <2>2. state' = [state EXCEPT ![InFlight.index] = "free"]
    BY <1>7 DEF finish_despawn, release
  <2>. QED BY <1>0, <1>7, <2>1, <2>2 DEF finish_despawn, erase_rows, RowsOnlyForAlive
<1>. QED
  BY <1>1, <1>2, <1>3, <1>4, <1>5, <1>6, <1>7
  DEF WorldNext, Calls, Running, worldVars, tableVars, despawn, begin_each, end_each,
      set_reparent_handler, queue_despawn, queue_reparent, enqueue, flush_structural,
      flush_despawn, flush_drop, flush_done, observer_despawn

\* Reservations: the queue still owes every pending entity its spawn.
LEMMA StepOwed ==
  ASSUME WorldInv, [WorldNext]_worldVars
  PROVE  SpawnOwed'
<1> USE DEF WorldInv
<1>0. /\ \A k \in 1 .. Len(commands) : commands[k] \in Command /\ commands[k].entity \in Ref
      /\ commands \in Seq(Command) /\ Len(commands) \in Nat /\ cursor \in 0 .. Len(commands) + 1
      /\ DOMAIN commands = 1 .. Len(commands)
      /\ state \in [Slot -> SlotState] /\ generation \in [Slot -> 0 .. MaxGeneration]
      /\ slot_count \in Nat
  BY NamedHandles DEF WorldTypeOK, TableTypeOK
<1>1. CASE UNCHANGED tableVars /\ OwedSpawns' = OwedSpawns /\ (\A k \in OwedSpawns : commands'[k] = commands[k])
  <2>1. \A k \in OwedSpawns : commands[k].entity \in Ref
    BY <1>0 DEF OwedSpawns
  <2>. QED BY <1>1, <2>1, TableFrame DEF SpawnOwed
<1>2. CASE spawn
  <2>1. OwedSpawns' = OwedSpawns /\ commands' = commands
    BY <1>2 DEF spawn, queueVars, OwedSpawns
  <2>2. /\ NextSlot \in Slot /\ state[NextSlot] = "free" /\ generation' = generation
        /\ \A i \in Slot : state'[i] = IF i = NextSlot THEN "alive" ELSE state[i]
        /\ slot_count' \in Nat /\ slot_count <= slot_count'
    BY <1>2, AllocateFrame DEF spawn
  <2>3. \A r \in Ref : is_pending(r) => is_pending(r)'
    BY <1>0, <2>2 DEF is_pending, names, Ref, Slot
  <2>4. \A k \in OwedSpawns : commands[k].entity \in Ref
    BY <1>0 DEF OwedSpawns
  <2>5. \A i \in Slot : state'[i] = "pending" => state[i] = "pending" /\ ref_of(i)' = ref_of(i)
    BY <2>2 DEF ref_of
  <2>. QED BY <2>1, <2>3, <2>4, <2>5 DEF SpawnOwed
<1>3. CASE queue_spawn
  <2>n. PICK n : n = Len(commands) + 1
    OBVIOUS
  <2>s. PICK s : s = NextSlot
    OBVIOUS
  <2>r. PICK r : r = ref_of(s)
    OBVIOUS
  <2>1. cursor = 0 /\ cursor' = 0
    BY <1>3 DEF queue_spawn, enqueue, Idle
  <2>2. /\ s \in Slot /\ state[s] = "free" /\ generation' = generation
        /\ \A i \in Slot : state'[i] = IF i = s THEN "pending" ELSE state[i]
        /\ slot_count' \in Nat /\ slot_count <= slot_count' /\ s < slot_count'
        /\ r \in Ref /\ r.index = s /\ r.generation = generation[s]
    BY <1>3, <2>s, <2>r, AllocateFrame DEF queue_spawn, ref_of
  <2>3. commands' = Append(commands, [op |-> "spawn", entity |-> r])
    BY <1>3, <2>s, <2>r DEF queue_spawn, enqueue
  <2>4. /\ DOMAIN commands' = 1 .. n /\ n \notin 1 .. Len(commands)
        /\ commands'[n] = [op |-> "spawn", entity |-> r]
        /\ \A k \in 1 .. Len(commands) : commands'[k] = commands[k]
    BY <1>0, <2>3, <2>n
  <2>5. OwedSpawns' = OwedSpawns \cup {n}
    BY <1>0, <2>1, <2>4, <2>n DEF OwedSpawns
  <2>6. \A k \in OwedSpawns : /\ k \in 1 .. Len(commands) /\ commands'[k] = commands[k]
                              /\ commands[k].entity \in Ref /\ is_pending(commands[k].entity)
                              /\ commands[k].entity.index # s
    BY <1>0, <2>2, <2>4 DEF OwedSpawns, SpawnOwed, is_pending
  <2>7. \A q \in Ref : is_pending(q) => is_pending(q)'
    BY <1>0, <2>2 DEF is_pending, names, Ref, Slot
  <2>8. is_pending(r)'
    BY <1>0, <2>2 DEF is_pending, names
  <2>9. commands'[n].entity = r
    BY <2>4
  <2>10. \A k \in OwedSpawns' : is_pending(commands[k].entity)'
    <3> TAKE k \in OwedSpawns'
    <3>1. PICK q : q = commands'[k].entity
      OBVIOUS
    <3>2. q \in Ref /\ is_pending(q)'
      BY <2>2, <2>5, <2>6, <2>7, <2>8, <2>9, <3>1
    <3>. QED BY <3>1, <3>2 DEF is_pending, names
  <2>11. ASSUME NEW i \in Slot, state'[i] = "pending"
         PROVE  \E k \in OwedSpawns' :
                  /\ commands'[k].entity = ref_of(i)'
                  /\ \A j \in OwedSpawns' : commands'[j].entity = ref_of(i)' => j = k
    <3>1. ref_of(i)' = ref_of(i) /\ ref_of(i).index = i
      BY <2>2 DEF ref_of
    <3>2. CASE i = s
      <4>1. \A j \in OwedSpawns : commands'[j].entity # r
        BY <2>2, <2>6
      <4>. QED BY <2>r, <3>1, <3>2, <4>1, <2>5, <2>9
    <3>3. CASE i # s
      <4>1. state[i] = "pending"
        BY <2>2, <2>11, <3>3
      <4>2. PICK k \in OwedSpawns : /\ commands[k].entity = ref_of(i)
                                    /\ \A j \in OwedSpawns : commands[j].entity = ref_of(i) => j = k
        BY <4>1 DEF SpawnOwed
      <4>3. commands'[n].entity # ref_of(i)
        BY <2>2, <2>9, <3>1, <3>3
      <4>. QED BY <3>1, <4>2, <4>3, <2>5, <2>6
    <3>. QED BY <3>2, <3>3
  <2>. QED BY <2>10, <2>11 DEF SpawnOwed
<1>4. ASSUME NEW command, command.op # "spawn", enqueue(command), UNCHANGED tableVars
      PROVE  SpawnOwed'
  <2>1. cursor = 0 /\ cursor' = 0 /\ commands' = Append(commands, command)
    BY <1>4 DEF enqueue, Idle
  <2>2. /\ DOMAIN commands' = 1 .. Len(commands) + 1
        /\ commands'[Len(commands) + 1] = command
        /\ \A k \in 1 .. Len(commands) : commands'[k] = commands[k]
    BY <1>0, <2>1
  <2>3. OwedSpawns' = OwedSpawns /\ \A k \in OwedSpawns : commands'[k] = commands[k]
    BY <1>0, <1>4, <2>1, <2>2 DEF OwedSpawns
  <2>. QED BY <1>1, <1>4, <2>3
<1>5. CASE flush_structural
  <2>1. OwedSpawns' = OwedSpawns
    BY <1>0, <1>5 DEF flush_structural, Idle, queueVars, OwedSpawns
  <2>. QED BY <1>1, <1>5, <2>1 DEF flush_structural, queueVars
<1>6. CASE flush_spawn
  <2>1. /\ cursor \in 1 .. Len(commands) /\ Current = commands[cursor] /\ Current.op = "spawn"
        /\ cursor' = cursor + 1 /\ commands' = commands
    BY <1>6 DEF flush_spawn, Flushing, Current, StepCursor, queueVars
  <2>2. OwedSpawns' = OwedSpawns \ {cursor} /\ cursor \in OwedSpawns
    BY <1>0, <2>1 DEF OwedSpawns
  <2>e. PICK e : e = commands[cursor].entity
    OBVIOUS
  <2>3. /\ e \in Ref /\ is_pending(e) /\ e.index \in Slot
        /\ state' = [state EXCEPT ![e.index] = "alive"]
        /\ generation' = generation /\ slot_count' = slot_count
    BY <1>0, <1>6, <2>1, <2>e DEF flush_spawn, make_alive, Ref
  <2>4. ref_of(e.index) = e /\ state[e.index] = "pending"
    BY <2>3 DEF ref_of, is_pending, names, Ref
  <2>5. \A k \in OwedSpawns : commands[k].entity = e => k = cursor
    BY <2>2, <2>3, <2>4, <2>e DEF SpawnOwed
  <2>6. \A q \in Ref : is_pending(q) /\ q # e => is_pending(q)'
    BY <1>0, <2>3 DEF is_pending, names, Ref
  <2>7. \A k \in OwedSpawns' : is_pending(commands[k].entity)'
    <3> TAKE k \in OwedSpawns'
    <3>1. k \in OwedSpawns /\ k # cursor /\ commands'[k] = commands[k]
      BY <2>1, <2>2
    <3>2. PICK q : q = commands'[k].entity
      OBVIOUS
    <3>3. q \in Ref /\ is_pending(q) /\ q # e
      BY <1>0, <2>5, <3>1, <3>2 DEF SpawnOwed, OwedSpawns
    <3>4. is_pending(q)'
      BY <2>6, <3>3
    <3>. QED BY <3>2, <3>4 DEF is_pending, names
  <2>8. ASSUME NEW i \in Slot, state'[i] = "pending"
        PROVE  \E k \in OwedSpawns' :
                 /\ commands'[k].entity = ref_of(i)'
                 /\ \A j \in OwedSpawns' : commands'[j].entity = ref_of(i)' => j = k
    <3>1. state[i] = "pending" /\ i # e.index /\ ref_of(i)' = ref_of(i)
      BY <1>0, <2>3, <2>8 DEF ref_of
    <3>2. PICK k \in OwedSpawns : /\ commands[k].entity = ref_of(i)
                                  /\ \A j \in OwedSpawns : commands[j].entity = ref_of(i) => j = k
      BY <3>1 DEF SpawnOwed
    <3>3. ref_of(i) # e
      BY <3>1 DEF ref_of
    <3>4. k # cursor
      BY <3>2, <3>3, <2>e
    <3>. QED BY <3>1, <3>2, <3>4, <2>1, <2>2
  <2>. QED BY <2>7, <2>8 DEF SpawnOwed
<1>7. CASE flush_despawn \/ flush_reparent \/ flush_drop
  <2>1. /\ cursor \in 1 .. Len(commands) /\ cursor' = cursor + 1 /\ commands' = commands
        /\ UNCHANGED tableVars
    BY <1>7 DEF flush_despawn, flush_reparent, flush_drop, Flushing, StepCursor, queueVars
  <2>2. Current.op # "spawn"
    <3>1. CASE flush_drop
      <4>1. Current.op = "spawn" => cursor \in OwedSpawns /\ ~is_pending(commands[cursor].entity)
        BY <1>0, <2>1, <3>1 DEF flush_drop, Current, OwedSpawns
      <4>. QED BY <4>1 DEF SpawnOwed
    <3>. QED BY <1>7, <3>1 DEF flush_despawn, flush_reparent
  <2>3. OwedSpawns' = OwedSpawns
    BY <1>0, <2>1, <2>2 DEF OwedSpawns, Current
  <2>. QED BY <1>1, <2>1, <2>3
<1>8. CASE flush_done
  <2>1. OwedSpawns = {}
    BY <1>0, <1>8 DEF flush_done, OwedSpawns
  <2>2. OwedSpawns' = {}
    BY <1>8 DEF flush_done, OwedSpawns
  <2>3. \A i \in Slot : state'[i] # "pending"
    BY <1>8, <2>1 DEF flush_done, tableVars, SpawnOwed
  <2>. QED BY <2>2, <2>3 DEF SpawnOwed
<1>9. CASE finish_despawn
  <2>1. OwedSpawns' = OwedSpawns /\ commands' = commands
    BY <1>9 DEF finish_despawn, queueVars, OwedSpawns
  <2>2. /\ InFlight \in Ref /\ InFlight.index \in Slot /\ state[InFlight.index] = "alive"
        /\ state' = [state EXCEPT ![InFlight.index] = "free"]
        /\ generation' = [generation EXCEPT ![InFlight.index] = @ + 1] /\ slot_count' = slot_count
    BY <1>9, NamedHandles DEF finish_despawn, release, is_alive, InFlight, Ref, WorldTypeOK
  <2>3. \A r \in Ref : is_pending(r) => is_pending(r)'
    BY <1>0, <2>2 DEF is_pending, names, Ref
  <2>4. \A k \in OwedSpawns : commands[k].entity \in Ref
    BY <1>0 DEF OwedSpawns
  <2>5. \A i \in Slot : state'[i] = "pending" => state[i] = "pending" /\ ref_of(i)' = ref_of(i)
    BY <1>0, <2>2 DEF ref_of
  <2>. QED BY <2>1, <2>3, <2>4, <2>5 DEF SpawnOwed
<1>10. CASE UNCHANGED <<tableVars, commands, cursor>>
  <2>1. OwedSpawns' = OwedSpawns
    BY <1>10 DEF OwedSpawns
  <2>. QED BY <1>1, <1>10, <2>1
<1>11. ASSUME NEW ref \in Ref, queue_despawn(ref)
       PROVE  SpawnOwed'
  <2>1. [op |-> "despawn", entity |-> ref].op # "spawn"
    OBVIOUS
  <2>. QED BY <1>4, <1>11, <2>1 DEF queue_despawn
<1>12. ASSUME NEW child \in Ref, NEW parent \in Ref \cup {NullRef}, queue_reparent(child, parent)
       PROVE  SpawnOwed'
  <2>1. [op |-> "reparent", entity |-> child, parent |-> parent].op # "spawn"
    OBVIOUS
  <2>. QED BY <1>4, <1>12, <2>1 DEF queue_reparent
<1>. QED
  BY <1>2, <1>3, <1>5, <1>6, <1>7, <1>8, <1>9, <1>10, <1>11, <1>12
  DEF WorldNext, Calls, Running, worldVars, queueVars, despawn, emplace, set_active, begin_each,
      end_each, set_reparent_handler, observer_despawn

\* Despawns in flight: each is of a live entity no other call is despawning,
\* so its release runs once, and releasing it leaves the outer ones alive.
LEMMA StepInFlight ==
  ASSUME WorldInv, [WorldNext]_worldVars
  PROVE  InFlightAlive'
<1> USE DEF WorldInv
<1>n. PICK n : n = Len(despawning)
  OBVIOUS
<1>0. /\ despawning \in Seq(Ref) /\ n \in Nat
      /\ \A k \in 1 .. n : despawning[k] \in Ref /\ is_alive(despawning[k])
      /\ \A j, k \in 1 .. n : despawning[j] = despawning[k] => j = k
      /\ state \in [Slot -> SlotState] /\ generation \in [Slot -> 0 .. MaxGeneration]
      /\ slot_count \in Nat
  BY <1>n, NamedHandles DEF WorldTypeOK, TableTypeOK, InFlightAlive
<1>1. ASSUME UNCHANGED despawning, \A r \in Ref : is_alive(r) => is_alive(r)'
      PROVE  InFlightAlive'
  <2>1. \A k \in 1 .. Len(despawning) : is_alive(despawning[k])'
    <3> TAKE k \in 1 .. Len(despawning)
    <3>1. PICK q : q = despawning[k]
      OBVIOUS
    <3>2. q \in Ref /\ is_alive(q)'
      BY <1>0, <1>1, <1>n, <3>1
    <3>. QED BY <1>1, <3>1, <3>2 DEF is_alive, names
  <2>. QED BY <1>0, <1>1, <1>n, <2>1 DEF InFlightAlive
<1>2. ASSUME UNCHANGED <<despawning, tableVars>>
      PROVE  InFlightAlive'
  BY <1>1, <1>2, TableFrame
<1>3. CASE spawn \/ queue_spawn
  <2>1. /\ NextSlot \in Slot /\ state[NextSlot] = "free" /\ generation' = generation
        /\ \A i \in Slot : i # NextSlot => state'[i] = state[i]
        /\ slot_count' \in Nat /\ slot_count <= slot_count'
    BY <1>3, AllocateFrame DEF spawn, queue_spawn
  <2>2. \A r \in Ref : is_alive(r) => is_alive(r)'
    BY <1>0, <2>1 DEF is_alive, names, Ref, Slot
  <2>. QED BY <1>1, <1>3, <2>2 DEF spawn, queue_spawn, enqueue
<1>4. CASE flush_spawn
  <2>1. PICK e : e = Current.entity
    OBVIOUS
  <2>2. e \in Ref /\ state[e.index] = "pending"
    BY <1>4, <2>1, NamedHandles DEF flush_spawn, Flushing, Current, make_alive, is_pending
  <2>3. state' = [state EXCEPT ![e.index] = "alive"] /\ generation' = generation
        /\ slot_count' = slot_count
    BY <1>4, <2>1 DEF flush_spawn, make_alive
  <2>4. \A r \in Ref : is_alive(r) => is_alive(r)'
    BY <1>0, <2>2, <2>3 DEF is_alive, names, Ref
  <2>. QED BY <1>1, <1>4, <2>4 DEF flush_spawn
\* The handle a despawn starts with is alive, and no despawn of it runs.
<1>5. ASSUME NEW r \in Ref, is_alive(r), \A k \in 1 .. n : despawning[k] # r,
             UNCHANGED tableVars, despawning' = Append(despawning, r)
      PROVE  InFlightAlive'
  <2>1. Len(despawning') = n + 1 /\ despawning'[n + 1] = r
        /\ \A k \in 1 .. n : despawning'[k] = despawning[k]
    BY <1>0, <1>5, <1>n
  <2>2. ASSUME NEW k \in 1 .. Len(despawning'), NEW j \in 1 .. Len(despawning'), despawning'[j] = despawning'[k]
        PROVE  j = k
    BY <1>0, <1>5, <2>1, <2>2
  <2>3. ASSUME NEW k \in 1 .. Len(despawning') PROVE is_alive(despawning[k])'
    <3>1. PICK q : q = despawning'[k]
      OBVIOUS
    <3>2. q \in Ref /\ is_alive(q)
      BY <1>0, <1>5, <2>1, <3>1
    <3>3. is_alive(q)'
      BY <1>5, <3>2, TableFrame
    <3>. QED BY <3>1, <3>3 DEF is_alive, names
  <2>. QED BY <2>2, <2>3 DEF InFlightAlive
<1>6. ASSUME NEW ref \in Ref, despawn(ref) PROVE InFlightAlive'
  <2>1. despawning = <<>> /\ n = 0 /\ despawning' = Append(despawning, ref)
    BY <1>6, <1>n DEF despawn, Idle
  <2>. QED BY <1>5, <1>6, <2>1 DEF despawn
<1>7. ASSUME NEW ref \in Ref, observer_despawn(ref) PROVE InFlightAlive'
  BY <1>5, <1>7, <1>n DEF observer_despawn
<1>8. CASE flush_despawn
  <2>1. PICK e : e = Current.entity
    OBVIOUS
  <2>2. e \in Ref /\ is_alive(e) /\ UNCHANGED tableVars
    BY <1>8, <2>1, NamedHandles DEF flush_despawn, Flushing, Current
  <2>3. despawning = <<>> /\ n = 0 /\ despawning' = Append(despawning, e)
    BY <1>8, <1>n, <2>1 DEF flush_despawn, Flushing
  <2>. QED BY <1>5, <2>2, <2>3
<1>9. CASE finish_despawn
  <2>1. PICK e : e = InFlight
    OBVIOUS
  <2>2. n # 0 /\ e = despawning[n] /\ e \in Ref /\ is_alive(e)
    BY <1>0, <1>9, <1>n, <2>1 DEF finish_despawn, InFlight
  <2>3. /\ state' = [state EXCEPT ![e.index] = "free"]
        /\ generation' = [generation EXCEPT ![e.index] = @ + 1] /\ slot_count' = slot_count
        /\ despawning' = SubSeq(despawning, 1, n - 1)
    BY <1>9, <1>n, <2>1 DEF finish_despawn, release
  <2>4. Len(despawning') = n - 1 /\ \A k \in 1 .. n - 1 : despawning'[k] = despawning[k]
    BY <1>0, <1>n, <2>2, <2>3
  <2>5. \A q \in Ref : is_alive(q) /\ q # e => is_alive(q)'
    <3> TAKE q \in Ref
    <3>1. is_alive(q) /\ q # e => q.index # e.index
      BY <2>2, SlotOfCurrent DEF is_alive, is_current
    <3>. QED BY <1>0, <2>2, <2>3, <3>1 DEF is_alive, names, Ref
  <2>6. ASSUME NEW k \in 1 .. Len(despawning') PROVE is_alive(despawning[k])'
    <3>1. PICK q : q = despawning'[k]
      OBVIOUS
    <3>k. k \in 1 .. n /\ k # n /\ q = despawning[k]
      BY <1>0, <2>4, <3>1
    <3>2. q \in Ref /\ is_alive(q) /\ q # e
      BY <1>0, <2>2, <3>k
    <3>3. is_alive(q)'
      BY <2>5, <3>2
    <3>. QED BY <3>1, <3>3 DEF is_alive, names
  <2>7. ASSUME NEW k \in 1 .. Len(despawning'), NEW j \in 1 .. Len(despawning'), despawning'[j] = despawning'[k]
        PROVE  j = k
    BY <1>0, <2>2, <2>4, <2>7
  <2>. QED BY <2>6, <2>7 DEF InFlightAlive
<1>. QED
  BY <1>2, <1>3, <1>4, <1>6, <1>7, <1>8, <1>9
  DEF WorldNext, Calls, Running, worldVars, emplace, set_active, begin_each, end_each,
      set_reparent_handler, queue_despawn, queue_reparent, enqueue, flush_structural,
      flush_reparent, flush_drop, flush_done

LEMMA StepWorldInv ==
  ASSUME WorldInv, [WorldNext]_worldVars
  PROVE  WorldInv'
  BY StepTable, StepType, StepRows, StepOwed, StepInFlight DEF WorldInv

-----------------------------------------------------------------------------
\* The whole invariant of the world holds in every reachable state.
THEOREM WorldInvariant == WorldSpec => []WorldInv
<1>1. WorldInit => WorldInv
  BY InitWorldInv
<1>2. WorldInv /\ [WorldNext]_worldVars => WorldInv'
  BY StepWorldInv
<1>. QED BY <1>1, <1>2, PTL DEF WorldSpec

\* No pool ever holds a row of an entity that is not alive, so a recycled
\* slot starts without rows (despawn_now, world.cpp).
THEOREM RowsCorrect == WorldSpec => []RowsOnlyForAlive
<1>1. WorldInv => RowsOnlyForAlive
  BY DEF WorldInv
<1>. QED BY <1>1, WorldInvariant, PTL

\* Every queued spawn still finds its reservation when the flush reaches it
\* (the assertion in flush_structural's spawn case), and no reservation leaks.
THEOREM SpawnsCorrect == WorldSpec => []SpawnOwed
<1>1. WorldInv => SpawnOwed
  BY DEF WorldInv
<1>. QED BY <1>1, WorldInvariant, PTL

\* No slot is released twice, however the despawn observer nests despawns.
THEOREM DespawnsCorrect == WorldSpec => []InFlightAlive
<1>1. WorldInv => InFlightAlive
  BY DEF WorldInv
<1>. QED BY <1>1, WorldInvariant, PTL

\* The world uses its table through the operations of the table only, so the
\* handles it gives out are issued once and never name two entities.
THEOREM WorldHandles == WorldSpec => HandlesKept
<1>1. WorldInit => TableInit
  BY DEF WorldInit
<1>2. WorldInv /\ [WorldNext]_worldVars => [TableNext]_tableVars
  <2> SUFFICES ASSUME WorldInv, [WorldNext]_worldVars PROVE [TableNext]_tableVars
    OBVIOUS
  <2>1. CASE UNCHANGED tableVars
    BY <2>1
  <2>2. CASE spawn \/ queue_spawn
    BY <2>2 DEF spawn, queue_spawn, TableNext
  <2>3. CASE flush_spawn
    <3>1. Current.entity \in Ref
      BY <2>3 DEF flush_spawn, Flushing, Current, WorldInv, WorldTypeOK, Command
    <3>. QED BY <2>3, <3>1 DEF flush_spawn, TableNext
  <2>4. CASE finish_despawn
    <3>1. InFlight \in Ref
      BY <2>4 DEF finish_despawn, InFlight, WorldInv, WorldTypeOK
    <3>. QED BY <2>4, <3>1 DEF finish_despawn, TableNext
  <2>. QED
    BY <2>1, <2>2, <2>3, <2>4
    DEF WorldNext, Calls, Running, worldVars, despawn, emplace, set_active, begin_each, end_each,
        set_reparent_handler, queue_despawn, queue_reparent, flush_structural, flush_despawn,
        flush_reparent, flush_drop, flush_done, observer_despawn
<1>. QED BY <1>1, <1>2, WorldInvariant, HandlesCorrect, PTL DEF WorldSpec, TableSpec
=============================================================================
