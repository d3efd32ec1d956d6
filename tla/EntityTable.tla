----------------------------- MODULE EntityTable -----------------------------
(***************************************************************************)
(* The slot table behind entity handles (core/ecs/entity.h).               *)
(*                                                                         *)
(* A handle is a slot index and a generation.  Slots go                    *)
(*      free -> (pending ->) alive -> free                                 *)
(* and the free list is a stack, so which handle an allocation returns is  *)
(* a function of the calls made so far.  The actions below are the three   *)
(* operations; their preconditions are the asserts of the code, and World  *)
(* is the caller that meets them.                                          *)
(***************************************************************************)
EXTENDS Naturals, Sequences, FiniteSets

CONSTANTS
  MaxSlots,       \* bound on generation_.size(); the code stops at 2^32 - 1
  MaxGeneration   \* bound on a slot's generation; the code wraps at 2^32

ASSUME BoundsAssumption == MaxSlots \in Nat /\ MaxGeneration \in Nat \ {0}

VARIABLES
  generation,     \* generation_: the current generation of every slot
  state,          \* state_: what the slot holds
  free,           \* free_: the stack of recycled slots, top last
  slot_count,     \* generation_.size(): slots ever created
  alive_count     \* alive_count_

tableVars == <<generation, state, free, slot_count, alive_count>>

Slot == 0 .. MaxSlots - 1
SlotState == {"free", "pending", "alive"}
Ref == [index : Slot, generation : 0 .. MaxGeneration]

\* EntityRef{}: the null handle, equal to no handle the table returns.
NullRef == [index |-> MaxSlots, generation |-> 0]

TableInit ==
  /\ generation = [i \in Slot |-> 0]
  /\ state = [i \in Slot |-> "free"]
  /\ free = <<>>
  /\ slot_count = 0
  /\ alive_count = 0

-----------------------------------------------------------------------------
\* The three handle tests.
names(ref) == ref.index < slot_count /\ generation[ref.index] = ref.generation
is_current(ref) == names(ref) /\ state[ref.index] # "free"
is_alive(ref) == names(ref) /\ state[ref.index] = "alive"
is_pending(ref) == names(ref) /\ state[ref.index] = "pending"

ref_of(i) == [index |-> i, generation |-> generation[i]]

\* The slot the next allocation takes: the top of the stack, else a new one.
NextSlot == IF free # <<>> THEN free[Len(free)] ELSE slot_count

\* The two bounds of the model: no slot beyond MaxSlots, no generation
\* beyond MaxGeneration (a slot whose generation reached it is not reused).
CanAllocate ==
  IF free # <<>> THEN generation[NextSlot] < MaxGeneration
                 ELSE slot_count < MaxSlots

\* Mutant: a recycled slot stays on the free list.
allocate_no_pop(initial) ==
  /\ CanAllocate
  /\ state' = [state EXCEPT ![NextSlot] = initial]
  /\ slot_count' = IF free # <<>> THEN slot_count ELSE slot_count + 1
  /\ alive_count' = IF initial = "alive" THEN alive_count + 1 ELSE alive_count
  /\ UNCHANGED <<generation, free>>

allocate(initial) ==
  /\ CanAllocate
  /\ state' = [state EXCEPT ![NextSlot] = initial]
  /\ free' = IF free # <<>> THEN SubSeq(free, 1, Len(free) - 1) ELSE free
  /\ slot_count' = IF free # <<>> THEN slot_count ELSE slot_count + 1
  /\ alive_count' = IF initial = "alive" THEN alive_count + 1 ELSE alive_count
  /\ UNCHANGED generation

make_alive(ref) ==
  /\ is_pending(ref)
  /\ state' = [state EXCEPT ![ref.index] = "alive"]
  /\ alive_count' = alive_count + 1
  /\ UNCHANGED <<generation, free, slot_count>>

\* Mutant: the slot is recycled at its old generation.
release_same_generation(ref) ==
  /\ is_alive(ref)
  /\ state' = [state EXCEPT ![ref.index] = "free"]
  /\ free' = Append(free, ref.index)
  /\ alive_count' = alive_count - 1
  /\ UNCHANGED <<generation, slot_count>>

release(ref) ==
  /\ is_alive(ref)
  /\ generation' = [generation EXCEPT ![ref.index] = @ + 1]
  /\ state' = [state EXCEPT ![ref.index] = "free"]
  /\ free' = Append(free, ref.index)
  /\ alive_count' = alive_count - 1
  /\ UNCHANGED slot_count

TableNext ==
  \/ \E initial \in {"pending", "alive"} : allocate(initial)
  \/ \E ref \in Ref : make_alive(ref) \/ release(ref)

TableSpec == TableInit /\ [][TableNext]_tableVars

-----------------------------------------------------------------------------
\* Type invariant: every variable of the table has the type the code gives it.
TableTypeOK ==
  /\ generation \in [Slot -> 0 .. MaxGeneration]
  /\ state \in [Slot -> SlotState]
  /\ free \in Seq(Slot)
  /\ slot_count \in 0 .. MaxSlots
  /\ alive_count \in 0 .. MaxSlots

\* The free list holds exactly the created slots that are free, each once: a
\* slot missing from it leaks for the life of the world, a slot on it twice
\* is handed to two entities (allocate / release, entity.h).
FreeListExact ==
  /\ \A a, b \in 1 .. Len(free) : free[a] = free[b] => a = b
  /\ {free[a] : a \in 1 .. Len(free)} =
       {i \in Slot : i < slot_count /\ state[i] = "free"}

\* "A freed slot's stored generation is always one past the last handed-out
\* ref" (is_current, entity.h): a slot that never lived is at generation 0,
\* and no reachable slot in use sits at the bound, so release never wraps.
GenerationHeadroom ==
  \A i \in Slot :
    /\ i >= slot_count => state[i] = "free" /\ generation[i] = 0
    /\ state[i] # "free" => generation[i] < MaxGeneration

\* alive_count() is the number of live slots, whichever way they came to life
\* (direct spawn, or a queued spawn made alive at the flush).
AliveCountExact == alive_count = Cardinality({i \in Slot : state[i] = "alive"})

\* The inductive invariant.
TableInv == TableTypeOK /\ FreeListExact /\ GenerationHeadroom /\ AliveCountExact

\* The abstract handles the table's state stands for.
Promise == INSTANCE Handles WITH
  Handle <- Ref,
  reserved <- {ref \in Ref : is_pending(ref)},
  live <- {ref \in Ref : is_alive(ref)},
  retired <- {ref \in Ref : ref.index < slot_count /\ ref.generation < generation[ref.index]}

\* Every step of the table is a step of the abstract handles or leaves them
\* alone: in particular a stale handle never names an entity again, which is
\* what every holder of an EntityRef across a flush relies on.
HandlesKept == Promise!Spec
=============================================================================
