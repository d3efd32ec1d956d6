------------------------------ MODULE Spawner -------------------------------
(***************************************************************************)
(* loader::PrefabSpawner (core/loader/prefab_spawn.cpp) inside the tick    *)
(* (core/tick/tick_loop.cpp): the spawns and despawns scripts request, the *)
(* structural phase that runs exit hooks, flushes, buries and builds, and  *)
(* the scene that stands before the first tick (core/loader/spawn.cpp).    *)
(*                                                                         *)
(* Phase 8 is one sequential program with user code in its middle; what is *)
(* left of it is `todo`.  While a hook or listener runs, its frame is on   *)
(* top and the public calls are enabled, in any number and order.          *)
(*                                                                         *)
(* Two bounds on what is modelled.  Trees are one deep: a prefab is a root *)
(* with state children, and no root is attached to another (Hierarchy has  *)
(* trees of every depth).  A host that refuses a prefab does so before     *)
(* anything of it is seated.                                               *)
(***************************************************************************)
EXTENDS Naturals, SequencesExt, Sublist

CONSTANTS
  Root,          \* what spawn_prefab may create, one handle each
  Child,         \* the state children of the prefabs
  ChildOf,       \* the root whose prefab declares a child
  Machined,      \* the roots whose prefab declares a machine
  Unbuildable,   \* the roots whose components the host may refuse
  None,          \* the null handle
  MaxTick,       \* bound on the ticks run
  MaxDelay,      \* bound on the ticks of a despawn delay
  MaxCommands,   \* bound on the structural queue, for reparents
  DespawnListenersSpawn  \* do listeners of entity.despawned spawn prefabs

ASSUME PrefabAssumption ==
  /\ Root \cap Child = {} /\ None \notin Root \cup Child
  /\ ChildOf \in [Child -> Machined] /\ Machined \subseteq Root /\ Unbuildable \subseteq Root
  /\ IsFiniteSet(Root \cup Child)  \* the table has finitely many slots and generations
ASSUME SpawnerBoundsAssumption ==
  MaxTick \in Nat /\ MaxDelay \in Nat /\ MaxCommands \in Nat /\ DespawnListenersSpawn \in BOOLEAN

VARIABLES
  tick,           \* TickLoop::tick_, also the bus's stamp
  phase,          \* boot, between ticks, open (phases 1 to 7), structural, aborted
  poisoned,       \* the journal refuses every record from now on
  life,           \* the world's state of every handle
  parent,         \* the hierarchy's parent link
  adopted,        \* the entities the hierarchy has a node for
  commands,       \* the structural queue
  pending,        \* pending_: spawns to realise
  lingers,        \* lingers_: despawns with their deadline
  last_prepared,  \* last_prepared_tick_
  queued_reaps,   \* queued_reaps_
  seat,           \* the base component seat of every entity
  machine,        \* the machine of every root
  noted,          \* note_despawn: handles with a recorded reap
  told,           \* for the properties: entity.despawned was triggered
  promised,       \* for the properties: the earliest deadline requested
  attached_early, \* for the properties: roots a reparent named before they were built
  lost,           \* for the properties: the lists that a failing build abandoned
  todo            \* what the running phase has still to do

worldVars == <<life, parent, adopted, commands>>
queueVars == <<pending, lingers, last_prepared, queued_reaps>>
lossVars == <<attached_early, lost>>
hostVars == <<seat, machine, noted, told, lossVars>>
clockVars == <<tick, phase, poisoned>>
spawnerVars == <<clockVars, worldVars, queueVars, hostVars, promised, todo>>

Entity == Root \cup Child
Never == MaxTick + MaxDelay + 2
Children(r) == {c \in Child : ChildOf[c] = r}

Frame(do, e) == [do |-> do, who |-> e, subtree |-> <<>>]
Top == Head(todo)
Doing(what) == todo # <<>> /\ Top.do = what

\* User code has control: outside phase 8, or in a hook or listener.
UserRuns ==
  \/ todo = <<>> /\ phase \in {"between", "open"}
  \/ Doing("hook") \/ Doing("despawned_listener")

SpawnerInit ==
  /\ tick = 0 /\ phase = "boot" /\ poisoned = FALSE
  /\ life = [e \in Entity |-> "free"]
  /\ parent = [e \in Entity |-> None]
  /\ adopted = {} /\ commands = <<>>
  /\ pending = <<>> /\ lingers = <<>> /\ last_prepared = 0 /\ queued_reaps = <<>>
  /\ seat = [e \in Entity |-> "none"]
  /\ machine = [r \in Root |-> "none"]
  /\ noted = {} /\ told = {} /\ attached_early = {} /\ lost = {}
  /\ promised = [e \in Entity |-> Never]
  /\ todo = <<>>

-----------------------------------------------------------------------------
\* World::flush_structural, as World has it: commands in order, each dropped
\* when its entity (or new parent) is no longer what it was; a despawn takes
\* the children along, and a reparent adopts whom it names.
Cascade(w, e) == {e} \cup {c \in Child : w.life[c] = "alive" /\ w.parent[c] = e}

Apply(w, command) ==
  LET e == command.entity IN
  IF command.op = "spawn" /\ w.life[e] = "pending"
    THEN [w EXCEPT !.life[e] = "alive"]
  ELSE IF command.op = "despawn" /\ w.life[e] = "alive"
    THEN [life |-> [x \in Entity |-> IF x \in Cascade(w, e) THEN "dead" ELSE w.life[x]],
          parent |-> [x \in Entity |-> IF x \in Cascade(w, e) THEN None ELSE w.parent[x]],
          adopted |-> w.adopted \ Cascade(w, e)]
  ELSE IF command.op = "reparent" /\ w.life[e] = "alive"
          /\ (command.parent = None \/ w.life[command.parent] = "alive")
    THEN [w EXCEPT !.parent[e] = command.parent, !.adopted = @ \cup ({e, command.parent} \ {None})]
  ELSE w

Flushed ==
  LET world[n \in 0 .. Len(commands)] ==
        IF n = 0 THEN [life |-> life, parent |-> parent, adopted |-> adopted]
                 ELSE Apply(world[n - 1], commands[n])
  IN  world[Len(commands)]

Spawn(e) == [op |-> "spawn", entity |-> e]
Despawn(e) == [op |-> "despawn", entity |-> e]
Reparent(e, p) == [op |-> "reparent", entity |-> e, parent |-> p]
Attachments(r) == [k \in 1 .. Cardinality(Children(r)) |->
                     Reparent(SetToSeq(Children(r))[k], r)]

-----------------------------------------------------------------------------
\* The calls user code makes.  Validation refusals change nothing.
spawn_prefab(r) ==
  /\ UserRuns /\ life[r] = "free"
  /\ Doing("despawned_listener") => DespawnListenersSpawn
  /\ life' = [life EXCEPT ![r] = "pending"]
  /\ commands' = Append(commands, Spawn(r))
  /\ pending' = Append(pending, r)
  /\ UNCHANGED <<clockVars, parent, adopted, lingers, last_prepared, queued_reaps, hostVars, promised, todo>>

\* The deadline a caller may count on: the first phase 8 that has not begun
\* at the requested tick or after.
Deadline(delay) ==
  Max({tick + delay, IF phase = "open" THEN tick ELSE tick + 1})

\* Mutant: the latest deadline wins.
despawn_postpones(e, delay) ==
  /\ UserRuns /\ life[e] \in {"pending", "alive"}
  /\ LET due == Max({tick + delay, last_prepared + 1})
         Others(entry) == entry.ref # e IN
     lingers' = Append(SelectSeq(lingers, Others), [ref |-> e, due |-> due])
  /\ promised' = [promised EXCEPT ![e] = Min({@, Deadline(delay)})]
  /\ UNCHANGED <<clockVars, worldVars, pending, last_prepared, queued_reaps, hostVars, todo>>

\* despawn: the cut-off, then the earliest deadline wins.
despawn(e, delay) ==
  /\ UserRuns /\ life[e] \in {"pending", "alive"}
  /\ LET due == Max({tick + delay, last_prepared + 1}) IN
     lingers' = IF \E k \in DOMAIN lingers : lingers[k].ref = e
                  THEN [k \in DOMAIN lingers |->
                          IF lingers[k].ref = e /\ due < lingers[k].due
                            THEN [ref |-> e, due |-> due] ELSE lingers[k]]
                  ELSE Append(lingers, [ref |-> e, due |-> due])
  /\ promised' = [promised EXCEPT ![e] = Min({@, Deadline(delay)})]
  /\ UNCHANGED <<clockVars, worldVars, pending, last_prepared, queued_reaps, hostVars, todo>>

\* Hierarchy::queue_attach: any two handles that are current, also of spawns that
\* are still pending or not yet built.  Without a parent it is queue_detach.
queue_attach(e, p) ==
  /\ UserRuns /\ Len(commands) < MaxCommands
  /\ \A x \in {e, p} \ {None} : life[x] \in {"pending", "alive"}
  /\ commands' = Append(commands, Reparent(e, p))
  /\ attached_early' = attached_early \cup {r \in {e, p} \cap Root : seat[r] = "none"}
  /\ UNCHANGED <<clockVars, life, parent, adopted, queueVars, seat, machine, noted, told, lost, promised, todo>>

user_returns ==
  /\ Doing("hook") \/ Doing("despawned_listener")
  /\ todo' = Tail(todo)
  /\ UNCHANGED <<clockVars, worldVars, queueVars, hostVars, promised>>

\* Any record may be the first one the journal refuses.
journal_refuses ==
  /\ ~poisoned /\ phase # "aborted"
  /\ poisoned' = TRUE
  /\ UNCHANGED <<tick, phase, worldVars, queueVars, hostVars, promised, todo>>

-----------------------------------------------------------------------------
\* The tick.  An error of the journal ends it where it stands, and every later
\* one at its first marker.
abort ==
  /\ phase' = "aborted" /\ todo' = <<>>
  /\ UNCHANGED <<poisoned, life, parent, commands, queueVars, hostVars, promised>>

\* spawn_scene, then the deferred initial entries.
spawn_scene(scene) ==
  /\ phase = "boot" /\ todo = <<>>
  /\ LET kids == UNION {Children(r) : r \in scene} IN
     /\ life' = [e \in Entity |-> IF e \in scene \cup kids THEN "alive" ELSE "free"]
     /\ parent' = [e \in Entity |-> IF e \in kids THEN ChildOf[e] ELSE None]
     /\ adopted' = scene \cup kids
     /\ seat' = [e \in Entity |-> IF e \in scene \cup kids THEN "seated" ELSE "none"]
     /\ machine' = [r \in Root |-> IF r \in scene \cap Machined THEN "seated" ELSE "none"]
  /\ \E order \in SetToSeqs(scene \cap Machined) :
       todo' = [k \in DOMAIN order |-> Frame("enter", order[k])] \o <<Frame("scene_stands", None)>>
  /\ UNCHANGED <<clockVars, commands, queueVars, noted, told, lossVars, promised>>

scene_stands ==
  /\ Doing("scene_stands")
  /\ phase' = "between" /\ todo' = <<>>
  /\ UNCHANGED <<tick, poisoned, worldVars, queueVars, hostVars, promised>>

begin_tick ==
  /\ phase = "between" /\ tick < MaxTick
  /\ tick' = tick + 1
  /\ IF poisoned
       THEN abort /\ UNCHANGED adopted
       ELSE /\ phase' = "open"
            /\ UNCHANGED <<poisoned, worldVars, queueVars, hostVars, promised, todo>>

\* Phase 8 begins with prepare: the stamp, then the due entries in the order
\* of their requests.
structural_apply ==
  /\ phase = "open"
  /\ IF poisoned
       THEN abort /\ UNCHANGED <<tick, adopted>>
       ELSE LET isDue == {k \in DOMAIN lingers : lingers[k].due <= tick}
                due == Kept(lingers, isDue) IN
            /\ phase' = "structural"
            /\ last_prepared' = tick
            /\ lingers' = Kept(lingers, DOMAIN lingers \ isDue)
            /\ todo' = [k \in DOMAIN due |-> Frame("due", due[k].ref)]
                         \o <<Frame("flush", None), Frame("realize", None)>>
            /\ UNCHANGED <<tick, poisoned, worldVars, pending, queued_reaps, hostVars, promised>>

end_tick ==
  /\ phase = "structural" /\ todo = <<>>
  /\ phase' = IF poisoned THEN "aborted" ELSE "between"
  /\ UNCHANGED <<tick, poisoned, worldVars, queueVars, hostVars, promised, todo>>

-----------------------------------------------------------------------------
\* prepare, one due entry: a stale one drops, one still pending is queued
\* behind its spawn, a live one leaves through its exit hooks, deepest first.
Below(e) == SetToSeq({c \in Child : life[c] = "alive" /\ parent[c] = e})
Each(do, list) == [k \in DOMAIN list |-> Frame(do, list[k])]

\* Mutant: only the entity itself is captured.
Captured_alone(e) == <<e>>

\* collect_subtree, walked in reverse by its callers.
Captured(e) == <<e>> \o Below(e)

\* Mutant: the walk is not reversed.
exit_chain_root_first(list) == Each("exit_machine", list) \o Each("exit_seat", list)

exit_chain(list) ==
  Each("exit_machine", Reverse(list)) \o Each("exit_seat", Reverse(list))

drop_stale ==
  /\ Doing("due") /\ life[Top.who] = "dead"
  /\ todo' = Tail(todo)
  /\ UNCHANGED <<clockVars, worldVars, queueVars, hostVars, promised>>

refuse_despawn ==
  /\ Doing("due") /\ life[Top.who] # "dead" /\ poisoned
  /\ abort /\ UNCHANGED <<tick, adopted>>

queue_removal(ref, subtree) ==
  /\ commands' = Append(commands, Despawn(ref))
  /\ queued_reaps' = Append(queued_reaps, [ref |-> ref, subtree |-> subtree])
  /\ UNCHANGED <<clockVars, life, parent, adopted, pending, lingers, last_prepared, hostVars, promised>>

despawn_pending ==
  /\ Doing("due") /\ life[Top.who] = "pending" /\ ~poisoned
  /\ queue_removal(Top.who, <<Top.who>>)
  /\ todo' = Tail(todo)

despawn_alive ==
  /\ Doing("due") /\ life[Top.who] = "alive" /\ ~poisoned
  /\ LET subtree == Captured(Top.who) IN
     todo' = exit_chain(subtree)
               \o <<[do |-> "remove", who |-> Top.who, subtree |-> subtree]>> \o Tail(todo)
  /\ UNCHANGED <<clockVars, worldVars, queueVars, hostVars, promised>>

\* Statechart::exit_host_machines: nothing on a machine that already exited.
exit_machine ==
  /\ Doing("exit_machine")
  /\ IF Top.who \in Machined /\ machine[Top.who] = "live"
       THEN /\ machine' = [machine EXCEPT ![Top.who] = "exited"]
            /\ todo' = <<Frame("hook", Top.who)>> \o Tail(todo)
       ELSE todo' = Tail(todo) /\ UNCHANGED machine
  /\ UNCHANGED <<clockVars, worldVars, queueVars, seat, noted, told, lossVars, promised>>

\* DespawnHooks::despawn_exit: once per seat, and not without its record.
despawn_exit ==
  /\ Doing("exit_seat")
  /\ IF seat[Top.who] = "seated" /\ ~poisoned
       THEN /\ seat' = [seat EXCEPT ![Top.who] = "exited"]
            /\ todo' = <<Frame("hook", Top.who)>> \o Tail(todo)
       ELSE todo' = Tail(todo) /\ UNCHANGED seat
  /\ UNCHANGED <<clockVars, worldVars, queueVars, machine, noted, told, lossVars, promised>>

remove ==
  /\ Doing("remove")
  /\ queue_removal(Top.who, Top.subtree)
  /\ todo' = Tail(todo)

flush_structural ==
  /\ Doing("flush")
  /\ life' = Flushed.life /\ parent' = Flushed.parent /\ adopted' = Flushed.adopted /\ commands' = <<>>
  /\ todo' = Tail(todo)
  /\ UNCHANGED <<clockVars, queueVars, hostVars, promised>>

-----------------------------------------------------------------------------
\* realize: bury what prepare queued, then build what is pending.
realize ==
  /\ Doing("realize")
  /\ todo' = [k \in DOMAIN queued_reaps |->
                [do |-> "bury", who |-> queued_reaps[k].ref, subtree |-> queued_reaps[k].subtree]]
             \o <<Frame("drain", None)>>
  /\ UNCHANGED <<clockVars, worldVars, queueVars, hostVars, promised>>

\* note_despawn and reap_entity over the captured subtree, then the event.
bury ==
  /\ Doing("bury")
  /\ IF life[Top.who] = "alive"
       THEN todo' = Tail(todo) /\ UNCHANGED <<seat, noted, told>>
       ELSE /\ noted' = noted \cup ToSet(Top.subtree)
            /\ seat' = [e \in Entity |-> IF e \in ToSet(Top.subtree) /\ seat[e] # "none"
                                           THEN "released" ELSE seat[e]]
            /\ IF poisoned
                 THEN todo' = Tail(todo) /\ UNCHANGED told
                 ELSE /\ told' = told \cup {Top.who}
                      /\ todo' = <<Frame("despawned_listener", Top.who)>> \o Tail(todo)
  /\ UNCHANGED <<clockVars, worldVars, queueVars, machine, lossVars, promised>>

\* The swap: what is requested from here on waits for the next tick.
drain ==
  /\ Doing("drain")
  /\ queued_reaps' = <<>>
  /\ pending' = <<>>
  /\ todo' = Each("build", pending) \o <<Frame("settle", None)>>
  /\ UNCHANGED <<clockVars, worldVars, lingers, last_prepared, hostVars, promised>>

drop_unborn ==
  /\ Doing("build") /\ life[Top.who] # "alive"
  /\ todo' = Tail(todo)
  /\ UNCHANGED <<clockVars, worldVars, queueVars, hostVars, promised>>

\* An error the journal did not cause ends the tick as well; the next one runs,
\* and what was left of the list is gone.
give_up ==
  /\ phase' = "between" /\ todo' = <<>>
  /\ lost' = lost \cup {todo[k].who : k \in {j \in DOMAIN todo : todo[j].do = "build"}}
  /\ UNCHANGED <<tick, poisoned, life, parent, commands, queueVars, seat, machine, noted, told,
                 attached_early, promised>>

\* Hierarchy::adopt refuses what a reparent has adopted.
refuse_adopted ==
  /\ Doing("build") /\ life[Top.who] = "alive" /\ Top.who \in adopted
  /\ give_up /\ UNCHANGED adopted

\* The record of the prefab is refused.
refuse_build ==
  /\ Doing("build") /\ life[Top.who] = "alive" /\ Top.who \notin adopted /\ poisoned
  /\ adopted' = adopted \cup {Top.who}
  /\ abort /\ UNCHANGED tick

\* The host refuses a component of the prefab.
refuse_prefab ==
  /\ Doing("build") /\ life[Top.who] = "alive" /\ Top.who \in Unbuildable \ adopted /\ ~poisoned
  /\ adopted' = adopted \cup {Top.who}
  /\ give_up

\* adopt and materialize_prefab: the base seat, the machine, whose instantiation
\* flushes the queue, and the state children, spawned directly and attached by
\* the flush that settles.
build ==
  /\ Doing("build") /\ life[Top.who] = "alive" /\ Top.who \notin adopted /\ ~poisoned
  /\ LET r == Top.who
         world == IF r \in Machined THEN Flushed
                  ELSE [life |-> life, parent |-> parent, adopted |-> adopted]
         rest == Tail(todo)
         kids == Children(r) IN
     /\ life' = [e \in Entity |-> IF e \in kids THEN "alive" ELSE world.life[e]]
     /\ parent' = world.parent
     /\ adopted' = world.adopted \cup {r}
     /\ commands' = (IF r \in Machined THEN <<>> ELSE commands) \o Attachments(r)
     /\ seat' = [e \in Entity |-> IF e \in kids \cup {r} THEN "seated" ELSE seat[e]]
     /\ machine' = IF r \in Machined THEN [machine EXCEPT ![r] = "seated"] ELSE machine
     /\ todo' = <<Frame("enter", r), Frame("announce", r)>>
                  \o [rest EXCEPT ![Len(rest)].subtree = @ \o SetToSeq(kids)]
  /\ UNCHANGED <<clockVars, queueVars, noted, told, lossVars, promised>>

\* start_initial_entry.
enter ==
  /\ Doing("enter")
  /\ IF Top.who \in Machined
       THEN /\ machine' = [machine EXCEPT ![Top.who] = "live"]
            /\ todo' = <<Frame("hook", Top.who)>> \o Tail(todo)
       ELSE todo' = Tail(todo) /\ UNCHANGED machine
  /\ UNCHANGED <<clockVars, worldVars, queueVars, seat, noted, told, lossVars, promised>>

\* The entity.spawned event: listeners run unless its record is refused.
announce ==
  /\ Doing("announce")
  /\ todo' = IF poisoned THEN Tail(todo) ELSE <<Frame("hook", Top.who)>> \o Tail(todo)
  /\ UNCHANGED <<clockVars, worldVars, queueVars, hostVars, promised>>

\* Mutant: the list is walked in place and cleared at the end.
settle_clears ==
  /\ Doing("settle")
  /\ pending' = <<>>
  /\ IF Top.subtree # <<>>
       THEN /\ life' = Flushed.life /\ parent' = Flushed.parent /\ adopted' = Flushed.adopted
            /\ commands' = <<>>
       ELSE UNCHANGED worldVars
  /\ todo' = Tail(todo)
  /\ UNCHANGED <<clockVars, lingers, last_prepared, queued_reaps, hostVars, promised>>

settle ==
  /\ Doing("settle")
  /\ IF Top.subtree # <<>>
       THEN /\ life' = Flushed.life /\ parent' = Flushed.parent /\ adopted' = Flushed.adopted
            /\ commands' = <<>>
       ELSE UNCHANGED worldVars
  /\ todo' = Tail(todo)
  /\ UNCHANGED <<clockVars, queueVars, hostVars, promised>>

-----------------------------------------------------------------------------
Calls ==
  \/ \E r \in Root : spawn_prefab(r)
  \/ \E e \in Entity, delay \in 0 .. MaxDelay : despawn(e, delay)
  \/ \E c \in Child, p \in Root : queue_attach(c, p)
  \/ \E e \in Entity : queue_attach(e, None)

Prepare ==
  \/ drop_stale \/ refuse_despawn \/ despawn_pending \/ despawn_alive
  \/ exit_machine \/ despawn_exit \/ remove \/ flush_structural

Realize ==
  \/ realize \/ bury \/ drain \/ drop_unborn
  \/ refuse_adopted \/ refuse_build \/ refuse_prefab \/ build
  \/ enter \/ announce \/ settle

SpawnerNext ==
  \/ Calls \/ user_returns \/ journal_refuses
  \/ \E scene \in SUBSET Root : spawn_scene(scene)
  \/ scene_stands \/ begin_tick \/ structural_apply \/ end_tick
  \/ Prepare \/ Realize

SpawnerSpec == SpawnerInit /\ [][SpawnerNext]_spawnerVars

-----------------------------------------------------------------------------
\* Type invariant: a queue names handles that were issued, and nothing but the
\* structural phase leaves removals or reaps behind.
SpawnerTypeOK ==
  /\ tick \in 0 .. MaxTick /\ last_prepared \in 0 .. tick
  /\ phase \in {"boot", "between", "open", "structural", "aborted"}
  /\ life \in [Entity -> {"free", "pending", "alive", "dead"}]
  /\ parent \in [Entity -> Root \cup {None}] /\ adopted \subseteq Entity
  /\ seat \in [Entity -> {"none", "seated", "exited", "released"}]
  /\ machine \in [Root -> {"none", "seated", "live", "exited"}]
  /\ \A k \in DOMAIN pending : life[pending[k]] # "free"
  /\ \A k \in DOMAIN lingers : life[lingers[k].ref] # "free"
  /\ phase \in {"between", "open"} =>
       queued_reaps = <<>> /\ \A k \in DOMAIN commands : commands[k].op # "despawn"

\* A despawned entity dies in the phase 8 of its earliest requested deadline:
\* not later, so no live entity outlasts one ("a later request never
\* postpones an earlier one"), and not earlier ("a corpse may linger a fraction
\* of a tick longer, never shorter"), also for requests made by the hooks of
\* that phase 8 itself (despawn and prepare, prefab_spawn.cpp).
DeadlinesKept ==
  /\ SpawnerTypeOK
  /\ phase = "between" =>
       \A e \in Entity : life[e] \in {"pending", "alive"} => promised[e] > tick
  /\ \A k \in DOMAIN queued_reaps : promised[queued_reaps[k].ref] <= tick

\* "The live subtree, captured pre-flush: exactly the set the flush's despawn
\* cascade removes" (prepare): those whose exit hooks ran are those that die,
\* except an entity which a reparent queued in this tick moves in or out of a
\* dying subtree.
Moving == {commands[k].entity : k \in {j \in DOMAIN commands : commands[j].op = "reparent"}} \cap Child
Doomed == UNION {ToSet(queued_reaps[k].subtree) : k \in DOMAIN queued_reaps}
Dying == {e \in Entity : life[e] \in {"pending", "alive"} /\ life'[e] = "dead"}

CapturedExactly == [][flush_structural => Dying \ Moving = Doomed \ Moving]_spawnerVars

\* The stage of an entity's life that the state shows.
StageOf(e) ==
  CASE life[e] = "free" -> "none"
    [] life[e] = "pending" -> "reserved"
    [] life[e] = "dead" /\ e \in told -> "told"
    [] life[e] = "dead" /\ e \in noted \ told -> "noted"
    [] life[e] = "dead" /\ e \notin noted \cup told -> "gone"
    [] life[e] = "alive" /\ seat[e] = "none" -> "up"
    [] life[e] = "alive" /\ seat[e] \in {"exited", "released"} ->
         IF e \in noted THEN "spared" ELSE "left"
    [] life[e] = "alive" /\ seat[e] = "seated" ->
         IF e \in Child \/ e \notin Machined \/ machine[e] = "live" THEN "entered"
         ELSE IF machine[e] = "exited" THEN "leaving" ELSE "built"

Lives == INSTANCE Lifetime WITH
  stage <- [e \in Entity |-> StageOf(e)], moving <- Moving, refused <- poisoned,
  condemned <- {commands[k].entity : k \in {j \in DOMAIN commands : commands[j].op = "despawn"}}

\* Whatever hooks request while others run, every entity lives through its
\* stages in order and once: "exit-chains-before-removal", the event last,
\* children out before their parent (prefab_spawn.h, header contract).
LifetimesInOrder == Lives!Spec

\* "A spawn requested from a phase-8 listener ... realizes NEXT tick"
\* (realize): between ticks, a handle that was issued and not yet built is
\* still on the list of spawns to realise, unless it was on a list that a build
\* failed on; and a list fails only on a root that a reparent named before it
\* was built, or on one whose components the host refuses.
SpawnsLand ==
  /\ phase \in {"between", "open"} =>
       \A r \in Root :
         life[r] \in {"pending", "alive"} /\ seat[r] = "none" => r \in ToSet(pending) \cup lost
  /\ lost # {} => lost \cap (attached_early \cup Unbuildable) # {}
=============================================================================
