-------------------------------- MODULE World --------------------------------
(***************************************************************************)
(* ecs::World (core/ecs/world.h, world.cpp): direct structural mutation,   *)
(* component rows, the deferred structural queue and its flush.            *)
(*                                                                         *)
(* The world runs on one thread, so the only interleaving inside a call is *)
(* re-entry: the despawn observer may despawn other entities while a       *)
(* despawn is in flight, and each nested despawn runs through despawn_now. *)
(* The flush is one step per queued command, and the despawns in flight    *)
(* are the stack `despawning`, innermost last.                             *)
(***************************************************************************)
EXTENDS EntityTable

CONSTANTS
  Component,     \* the registered component types (one pool each)
  Node,          \* the one that says an entity is in the tree
  TreeComponent, \* those an adoption emplaces: the node and its two transforms
  MaxCommands,   \* bound on the structural queue
  MaxIterating   \* bound on nested views

ASSUME QueueBoundsAssumption == MaxCommands \in Nat /\ MaxIterating \in Nat
ASSUME TreeAssumption == Node \in TreeComponent /\ TreeComponent \subseteq Component

VARIABLES
  present,          \* per component, the slots with a row in its pool
  active,           \* per component, the rows whose active bit is set
  commands,         \* commands_
  iteration_depth,  \* iteration_depth_: views running
  handler,          \* is a reparent handler installed
  cursor,           \* flush_structural's position in commands, 0 outside it
  despawning        \* despawn_now calls in flight, outermost first

rowVars == <<present, active>>
queueVars == <<commands, iteration_depth, handler>>
worldVars == <<tableVars, rowVars, queueVars, cursor, despawning>>

Command ==
  [op : {"spawn", "despawn"}, entity : Ref]
    \cup [op : {"reparent"}, entity : Ref, parent : Ref \cup {NullRef}]

WorldInit ==
  /\ TableInit
  /\ present = [c \in Component |-> {}]
  /\ active = [c \in Component |-> {}]
  /\ commands = <<>>
  /\ iteration_depth = 0
  /\ handler = FALSE
  /\ cursor = 0
  /\ despawning = <<>>

\* No flush and no despawn is running: control is with the caller.
Idle == cursor = 0 /\ despawning = <<>>

-----------------------------------------------------------------------------
\* Direct mutation.  A refusal (structural lock, stale or pending handle,
\* duplicate or missing row) returns an error and changes nothing.
spawn ==
  /\ Idle /\ iteration_depth = 0
  /\ allocate("alive")
  /\ UNCHANGED <<rowVars, queueVars, cursor, despawning>>

despawn(ref) ==
  /\ Idle /\ iteration_depth = 0
  /\ is_alive(ref)
  /\ despawning' = <<ref>>
  /\ UNCHANGED <<tableVars, rowVars, queueVars, cursor>>

emplace(ref, c, bit) ==
  /\ Idle /\ iteration_depth = 0
  /\ is_alive(ref)
  /\ ref.index \notin present[c]
  /\ present' = [present EXCEPT ![c] = @ \cup {ref.index}]
  /\ active' = IF bit THEN [active EXCEPT ![c] = @ \cup {ref.index}] ELSE active
  /\ UNCHANGED <<tableVars, queueVars, cursor, despawning>>

set_active(ref, c, bit) ==
  /\ Idle
  /\ is_alive(ref)
  /\ ref.index \in present[c]
  /\ active' = [active EXCEPT ![c] = IF bit THEN @ \cup {ref.index} ELSE @ \ {ref.index}]
  /\ UNCHANGED <<tableVars, present, queueVars, cursor, despawning>>

\* IterationScope's constructor and destructor.
begin_each ==
  /\ Idle /\ iteration_depth < MaxIterating
  /\ iteration_depth' = iteration_depth + 1
  /\ UNCHANGED <<tableVars, rowVars, commands, handler, cursor, despawning>>

end_each ==
  /\ Idle /\ iteration_depth > 0
  /\ iteration_depth' = iteration_depth - 1
  /\ UNCHANGED <<tableVars, rowVars, commands, handler, cursor, despawning>>

\* set_reparent_handler: installed by Hierarchy, removed by its destructor.
set_reparent_handler ==
  /\ Idle
  /\ handler' = ~handler
  /\ UNCHANGED <<tableVars, rowVars, commands, iteration_depth, cursor, despawning>>

-----------------------------------------------------------------------------
\* Queueing, allowed while views run.
enqueue(command) ==
  /\ Idle /\ Len(commands) < MaxCommands
  /\ commands' = Append(commands, command)
  /\ UNCHANGED <<rowVars, iteration_depth, handler, cursor, despawning>>

queue_spawn ==
  /\ allocate("pending")
  /\ enqueue([op |-> "spawn", entity |-> ref_of(NextSlot)])

queue_despawn(ref) ==
  /\ is_current(ref)
  /\ enqueue([op |-> "despawn", entity |-> ref])
  /\ UNCHANGED tableVars

queue_reparent(child, parent) ==
  /\ is_current(child)
  /\ parent = NullRef \/ is_current(parent)
  /\ enqueue([op |-> "reparent", entity |-> child, parent |-> parent])
  /\ UNCHANGED tableVars

-----------------------------------------------------------------------------
\* Mutant: the configuration check before the first command is missing.
flush_structural_unchecked ==
  /\ Idle /\ iteration_depth = 0
  /\ cursor' = 1
  /\ UNCHANGED <<tableVars, rowVars, queueVars, despawning>>

\* flush_structural: refused while a view runs, and refused whole when a reparent
\* is queued with no handler to apply it.
flush_structural ==
  /\ Idle /\ iteration_depth = 0
  /\ handler \/ \A k \in 1 .. Len(commands) : commands[k].op # "reparent"
  /\ cursor' = 1
  /\ UNCHANGED <<tableVars, rowVars, queueVars, despawning>>

\* The command the flush is about to resolve.
Flushing == cursor \in 1 .. Len(commands) /\ despawning = <<>>
Current == commands[cursor]
StepCursor == cursor' = cursor + 1 /\ UNCHANGED queueVars

flush_spawn ==
  /\ Flushing /\ Current.op = "spawn"
  /\ make_alive(Current.entity)
  /\ StepCursor
  /\ UNCHANGED <<rowVars, despawning>>

\* Mutant: the handle was validated when queued and is not validated again.
flush_despawn_stale ==
  /\ Flushing /\ Current.op = "despawn"
  /\ despawning' = <<Current.entity>>
  /\ StepCursor
  /\ UNCHANGED <<tableVars, rowVars>>

flush_despawn ==
  /\ Flushing /\ Current.op = "despawn"
  /\ is_alive(Current.entity)
  /\ despawning' = <<Current.entity>>
  /\ StepCursor
  /\ UNCHANGED <<tableVars, rowVars>>

ReparentApplies ==
  /\ is_alive(Current.entity)
  /\ Current.parent = NullRef \/ is_alive(Current.parent)

\* apply_reparent is the handler.  It adopts the child and the new parent where
\* they are not in the tree yet, a row in each pool of the tree, and the change
\* of dormancy may move the bits of every row of the entities in the tree.
Strangers == {ref.index : ref \in {Current.entity, Current.parent} \ {NullRef}} \ present[Node]

flush_reparent ==
  /\ Flushing /\ Current.op = "reparent"
  /\ handler /\ ReparentApplies
  /\ StepCursor
  /\ present' = [c \in Component |-> IF c \in TreeComponent THEN present[c] \cup Strangers ELSE present[c]]
  /\ \E bits \in [Component -> SUBSET Slot] :
       /\ \A c \in Component :
            /\ bits[c] \subseteq present'[c]
            /\ bits[c] \ present'[Node] = active[c] \ present'[Node]
       /\ active' = bits
  /\ UNCHANGED <<tableVars, despawning>>

\* A command whose entity (or new parent) died since it was queued.
flush_drop ==
  /\ Flushing
  /\ Current.op = "spawn" => ~is_pending(Current.entity)
  /\ Current.op = "despawn" => ~is_alive(Current.entity)
  /\ Current.op = "reparent" => ~ReparentApplies
  /\ StepCursor
  /\ UNCHANGED <<tableVars, rowVars, despawning>>

\* Mutant: the queue is not cleared.
flush_done_keeps_queue ==
  /\ cursor = Len(commands) + 1 /\ despawning = <<>>
  /\ cursor' = 0
  /\ UNCHANGED <<tableVars, rowVars, commands, iteration_depth, handler, despawning>>

flush_done ==
  /\ cursor = Len(commands) + 1 /\ despawning = <<>>
  /\ commands' = <<>>
  /\ cursor' = 0
  /\ UNCHANGED <<tableVars, rowVars, iteration_depth, handler, despawning>>

-----------------------------------------------------------------------------
\* despawn_now: the observer runs first, with the rows intact, and may
\* despawn any other live entity (never one already in flight: its contract
\* in world.h); then the rows drop from every pool and the slot is released.
InFlight == despawning[Len(despawning)]

observer_despawn(ref) ==
  /\ despawning # <<>>
  /\ is_alive(ref)
  /\ \A k \in 1 .. Len(despawning) : despawning[k] # ref
  /\ despawning' = Append(despawning, ref)
  /\ UNCHANGED <<tableVars, rowVars, queueVars, cursor>>

\* Mutant: only rows a view can see are erased.
erase_active_rows(i) ==
  /\ present' = [c \in Component |-> IF i \in active[c] THEN present[c] \ {i} ELSE present[c]]
  /\ active' = [c \in Component |-> active[c] \ {i}]

\* pool->erase(index) for every pool, present in it or not.
erase_rows(i) ==
  /\ present' = [c \in Component |-> present[c] \ {i}]
  /\ active' = [c \in Component |-> active[c] \ {i}]

finish_despawn ==
  /\ despawning # <<>>
  /\ erase_rows(InFlight.index)
  /\ release(InFlight)
  /\ despawning' = SubSeq(despawning, 1, Len(despawning) - 1)
  /\ UNCHANGED <<queueVars, cursor>>

-----------------------------------------------------------------------------
Calls ==
  \/ spawn \/ queue_spawn
  \/ begin_each \/ end_each
  \/ set_reparent_handler
  \/ \E ref \in Ref : despawn(ref) \/ queue_despawn(ref)
  \/ \E ref \in Ref, c \in Component, bit \in BOOLEAN :
       emplace(ref, c, bit) \/ set_active(ref, c, bit)
  \/ \E child \in Ref, parent \in Ref \cup {NullRef} : queue_reparent(child, parent)
  \/ flush_structural

\* What runs to completion once a call started it.
Running ==
  \/ flush_spawn \/ flush_despawn \/ flush_reparent \/ flush_drop \/ flush_done
  \/ \E ref \in Ref : observer_despawn(ref)
  \/ finish_despawn

WorldNext == Calls \/ Running

\* A call that started runs to its return: single-threaded code does not stop.
WorldSpec == WorldInit /\ [][WorldNext]_worldVars
FairWorldSpec == WorldSpec /\ WF_worldVars(Running)

-----------------------------------------------------------------------------
\* Type invariant of the world.
WorldTypeOK ==
  /\ TableTypeOK
  /\ present \in [Component -> SUBSET Slot]
  /\ active \in [Component -> SUBSET Slot]
  /\ commands \in Seq(Command)
  /\ iteration_depth \in 0 .. MaxIterating
  /\ handler \in BOOLEAN
  /\ cursor \in 0 .. Len(commands) + 1
  /\ despawning \in Seq(Ref)

\* A component row exists only for a live entity, in every pool and at every
\* instant of a flush or a cascade: a row left behind would belong to the next
\* entity that recycles the slot (despawn_now erases before it releases).
RowsOnlyForAlive ==
  \A c \in Component :
    /\ active[c] \subseteq present[c]
    /\ \A i \in present[c] : state[i] = "alive"

\* The spawn commands a flush has still to resolve.
OwedSpawns == {k \in DOMAIN commands : k >= cursor /\ commands[k].op = "spawn"}

\* "Queue order guarantees the spawn precedes any despawn of the same ref, so
\* a pending entity is still pending here" (flush_structural): every spawn
\* still queued finds its entity pending, and a pending entity is owed exactly
\* one spawn, so no reservation leaks.
SpawnOwed ==
  /\ \A k \in OwedSpawns : is_pending(commands[k].entity)
  /\ \A i \in Slot : state[i] = "pending" =>
       \E k \in OwedSpawns :
         /\ commands[k].entity = ref_of(i)
         /\ \A j \in OwedSpawns : commands[j].entity = ref_of(i) => j = k

\* Every despawn in flight, nested ones included, is of a live entity that no
\* other call is despawning: the release at the end of despawn_now would
\* otherwise run twice on one slot (its assert is compiled out in release
\* builds, where the slot would enter the free list twice).
InFlightAlive ==
  \A k \in 1 .. Len(despawning) :
    /\ is_alive(despawning[k])
    /\ \A j \in 1 .. Len(despawning) : despawning[j] = despawning[k] => j = k

\* The inductive invariant.
WorldInv == WorldTypeOK /\ TableInv /\ RowsOnlyForAlive /\ SpawnOwed /\ InFlightAlive

\* A flush that starts resolves the whole queue and returns, whatever the
\* observer despawns on the way: no command can stop it half applied.
FlushCompletes == cursor # 0 ~> (Idle /\ commands = <<>>)
=============================================================================
