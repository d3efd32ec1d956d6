# Verification of midday-engine

TLA+ models of the simulation core of midday-engine, TLC runs that check them on
small instances, and TLAPS proofs about them for every value of their constants.
Paths are relative to the repository root (`core/...` is `src/core/...` here).

The engine is single-threaded by design: one tick, nine phases, every callback on
one call stack. What is hard in it is therefore not parallelism but **re-entry**:
a bus listener that unsubscribes the channel it is on, a despawn observer that
despawns, a state hook that triggers the next transition while a chain is half way,
a view whose callback toggles the rows it is walking. The models keep exactly that:
wherever the code calls user code, the model may do anything the public interface
allows, to any depth the code allows.

## 1. Inventory

| Component | State | Operations | What makes it correct |
|---|---|---|---|
| Entity table (`core/ecs/entity.h`) | slots with generation and life, LIFO free list, alive count | allocate alive or pending, make_alive, release | the free list is exactly the free slots; a retired handle never names an entity again |
| Pools (`core/ecs/pool.h`, `sparse_set.h`) | sparse index, packed entities, rows, activity bits | insert, remove (swap-and-pop), set_active, get | sparse and dense stay inverse; a pool is a map, whichever row is moved |
| Views (`core/ecs/view.h`) | position in the driver's bit words, structural lock | one iteration with a callback per row | every row active throughout is visited once, in dense order; none that was inactive throughout |
| World (`core/ecs/world.cpp`) | table, pools, command queue, iteration depth, observer | spawn, despawn, emplace, set_active, queue_*, flush_structural | rows only of live entities, reservations neither leak nor die, nested despawns do not collide, a flush completes |
| Event bus (`core/bus`) | channels of subscriptions, dispatch depth, deferred changes | subscribe, unsubscribe (plain, entity-bound, component thunks), trigger | each dispatch reaches the registered and live in order; structure changes as if done at once, applied at depth zero |
| Hierarchy (`core/hierarchy`) | sibling links, dormancy depth and captured activity, transform dirty marks, cached order | adopt, queued reparent, despawn cascade, deactivate, activate, set_local, propagate | a forest, whatever the moves; activity is what the scopes say; transforms and order are fresh when read |
| Statechart (`core/statechart`) | per machine: active chains, history, region stamps, watchers | instantiate, initial entry, transition on an event, watchers, exit of a despawned host | one scope per inactive state, whole configurations, one chain per region and tick, hook order, cascades end |
| Sequence sheets (`core/statechart/sequences.cpp`) | playhead, cursor, open spans, pass, epoch, saved position | advance, start, close spans, settle | items in order, each at most once per pass; the open spans are those that cover the playhead; a sheet left alone ends |
| Tick loop (`core/tick`) | tick, accumulator, hooks, input queue, two frame packets | tick, advance, inject_input | inputs delivered once, in order, in their tick; no frame is shown whose phases are not in the journal |
| Journal (`core/journal`) | next id, last tick, frames, index, sticky error | record, flush, close; open, seek, read | a flush survives a crash, a bundle with an index is whole, a seek neither loses nor repeats a record |
| Prefab spawner (`core/loader/prefab_spawn.cpp`) | pending spawns, lingers, reaps, cut-off tick | spawn_prefab, despawn after, prepare, realize | exits before removal before the event; never early, once, on the earliest deadline |
| Physics server (`core/physics`) | body bindings, PhysicsBody rows, collected contacts | create, destroy, step, reap, dispatch contacts | rows and bindings name each other; a contact names the entities whose bodies touched |
| Input (`core/input`) | action strengths | press, release, inject_at | an injection lands on its tick |
| RHI (`core/rhi`) | generational handles, record-submit state | create, destroy, record, submit | no stale handle resolves; commands only in their state |
| Script hosts (`ts/runtime`) | seats, batch columns, script cache | attach, enter, exit, reap; refresh, commit | onExit once per seat, a stale view commits nothing |
| Loader, expr, reflect, base, math, CLI, toolchain | none that outlives a call | parse, check, emit | functional; out of scope |

How they interact. The tick loop stamps the bus and runs the phases; phase 8 runs
the spawner's `prepare`, the world's flush, the spawner's `realize` and the
hierarchy's `propagate`. The world calls the hierarchy through its reparent handler
and its despawn observer. The statechart is a bus listener and changes activity
through the hierarchy. Everything journals before it acts, and a refused record is
the one failure every part has to survive.

Where it is hard: re-entry (bus, world, statechart), structure changed while it is
walked (bus, views, flush, watchers), values remembered across a callback (contact
pairs, sheet batches, watcher lists, batch views), deferral (structural queue,
deferred subscriptions, lingers, inputs), boundaries (free list, swap of the last
row, word edges of a view, depth cap, tick stamps), partial failure (journal).
`PROJECT.json` lists each hazard at its line with the properties that watch it.

## 2. Modules

| Module | Models | Notes |
|---|---|---|
| `EntityTable` | `EntityTable` | the C++ vector of slots is a function on `0 .. MaxSlots - 1`; generations stop at a bound |
| `Handles` | what a handle promises | abstract; `EntityTable` refines it (`HandlesKept`) |
| `SparseSet`, `Pool` | `SparseSet`, `Pool<T>` | one operator per method, `Pool` gives one pool its transitions |
| `PoolMap` | a map from entities to (value, active) | abstract; `Pool` refines it (`RowsKept`) |
| `Views` | `View::each` over several pools | extends the pools with a stack of running iterations |
| `World` | `World` | extends `EntityTable`; flush and nested despawns as a cursor and a stack; the reparent handler adopts in the flush and may move the bits of any row of an entity in the tree |
| `EventBus` | `Bus` | the stack of dispatches is a variable; a listener is a position on it |
| `Registrations` | who is registered, in call order | abstract; `EventBus` refines it |
| `Hierarchy` | `Hierarchy` | links, dormancy, transforms and order of one tree |
| `Forest` | ordered offspring of each node | abstract; `Hierarchy` refines it |
| `Statechart` | one machine of `Statechart` | the C++ recursion unfolds into `todo`, see below |
| `Lifecycle` | the A.2.1 order of state hooks | abstract; `Statechart` refines it (`HooksInOrder`) |
| `Sequence` | one compiled sheet of `Statechart` | from authoring to interruption; any sheet of `Sheets` |
| `Spawner` | `PrefabSpawner`, with the tick, the queue and the hierarchy it drives | both halves of phase 8 with the user code between their steps, and the errors that end it; two bounds: trees one deep, a host refuses a prefab before anything of it is seated |
| `Lifetime` | the stages of one entity's life | abstract; `Spawner` refines it (`LifetimesInOrder`) |
| `Journal` | `Writer`, the buffers below it, `Reader` | a block of the stream is known by the records it completes |
| `TickLoop` | `TickLoop`, `ActionInjector::inject` | what phases do is left to the modules that extend it |
| `Physics` | `PhysicsServer` in its phase | composes `TickLoop` and `Pool`; implements both (proved) |
| `MC*` | values of constants, symmetry, views | TLC only |
| `*Proofs` | theorems | TLAPS |

Shape of the models. One action per public call, with every change the call makes;
a call that runs user code is cut at each such point, and what is left of it is
kept in a stack variable (`despawning`, the bus's frames, `todo`). Between two such
points nothing else can run, so these are all the interleavings there are.

`Statechart.todo` holds frames for `exit_state`, `enter_state`, event delivery, the
initial entry and watcher evaluation. A *slot* frame is a place where scripts,
component hooks or sequence items run: there the model triggers any event, nested,
any number of times, up to the depth cap, and then returns. `poison` is the moment
the journal begins to refuse; from then on no event is delivered and no transition
starts, but a chain already under way completes, as the code insists. The auxiliary
variable `seated` remembers initial states whose enter chain has not run.

`Sequence` and `Spawner` use the same stack: a frame of `Sequence.todo` is a batch of
due items or the cascade one of them fired, with the epoch it started in; a frame of
`Spawner.todo` is a step of `prepare` or `realize`, or a slot where hooks and listeners
request spawns and despawns. In `Physics` the state itself says where the dispatch of
contacts stands (`contacts`, `telling`), and `UserRuns` when user code has control:
between ticks, in the hooks of the phases in `UserPhases`, and in the listeners of
inputs and contacts.

`Journal` separates the three places a record can be: handed to the compressor
(`content`), given out by it (`blocks`), on the disk (`on_disk`). The compressor gives
out any prefix at any time, stdio writes any prefix at any time, any write may fail,
and a crash cuts the stream to what is on the disk.

Data that no property tells apart is abstract: rows are values, events and states
are model values, conditions and filters are nondeterministic booleans, transforms
are sequences of local values along the path.

## 3. Runs

| Run | Bounds | What it checks |
|---|---|---|
| `views` | 3 rows, 2 pools, words of 2 bits | `NoRowMissed`, `InactiveNeverVisited` while callbacks toggle any bit |
| `world` | 2 slots used twice, the pool of the tree and another, 2 queued commands | `RowsOnlyForAlive`, `SpawnOwed`, `InFlightAlive`, `FreeListExact`, `FlushCompletes`, refinement of `Handles` |
| `event_bus` | 2 channels, plain, entity-bound and thunk subscribers, depth 2, 2 deferred changes | `StructureSettled`, `HeardInOrder`, what each call does to the registrations and refinement of `Registrations` (`RegistrationsKept`), `QueuedChangesApplied` |
| `hierarchy_dormancy` | every forest of 3 entities, one component | `TreeWellFormed`, `DormancyCover`, `CascadeContract`, refinement of `Forest`, `ActivityFollowsCover` |
| `hierarchy_transforms` | every forest of 3 entities, 2 local values | `TransformsFresh`, `OrderFresh` |
| `statechart` | 2 regions, 6 states, depth 2, 3 ticks | `ArmedInActiveState`, `OneScopePerInactiveState`, `ConfigurationWhole`, `OneChainPerTick`, `HooksInOrder` (refinement of `Lifecycle`), `CascadeSettles` |
| `statechart_reentrant_entry` | same, `ReentrantEntry = TRUE` | finding 1 |
| `spawner` | a troll with a machine and a club, a bolt with neither, the host may refuse the bolt, 3 ticks, delays up to 1, 2 queued commands | `DeadlinesKept`, `SpawnsLand`, `CapturedExactly`, `LifetimesInOrder` (refinement of `Lifetime`) |
| `spawner_lost_spawn` | same, the host refuses nothing, `DespawnListenersSpawn = TRUE` | finding 2 |
| `sequences` | every sheet of 1 to 3 ticks with a trigger and a span anywhere, each ending, with and without history | `SpansFollowPlayhead`, `FiredInOrder`, `SheetFinishes` |
| `journal` | 4 submissions over 4 ticks, a stride of 2, one of 2 tiers off | `FlushedSurvives`, `BundleWhole`, `NextIsExact` |
| `physics` | 2 entities, 2 bodies used twice, 2 ticks, 2 inputs | `BodiesMatchRows`, `ContactsNameOwners`, `InputsOnTime`, `FramesJournaled`, `RowsKept` (refinement of `PoolMap`) |

The invariants `StructureSettled`, `TreeWellFormed`, `ConfigurationWhole` and
`DeadlinesKept` have the type invariant of their module as a conjunct.

Bounds, and why they suffice. *Two slots*: one despawn nests in another, an entity is
adopted below another one, and both slots are on the free list at once, in either order; a
list with a middle is left to the proof (`FreeListCorrect`). *Generations*: two uses of a
slot give a handle that is stale while its slot lives again; the wrap of the 32-bit
generation, which `entity.h` accepts, is outside. *Rows*: three rows
separate the removed, the moved and an untouched row; words of two bits put a row in
a second word. *Depth 2*: one cascade inside another, and a refusal at the cap; the
code's 32 adds only repetition. *Two deferred changes*: an order to get wrong.
*Three entities in a tree*: parent, child, grandchild or siblings; every cycle a move
could close. *Ticks 0 to 2*: a chain, history from it, and a resume in a later tick; a spawn, a
despawn that lingers one tick, and what its hooks request. *Sheets of three ticks*: an
item at the start, inside and at the end, two of them in one batch. *A stride of 2 over
4 ticks*: two frames, a tick inside each, and a seek into, between and before them. *Two
bodies used twice*: a contact outlives a body, and the index comes back under a new
sequence number; *two ticks with two inputs*: an input for the tick after the one that
is running, and one for that tick, in one queue.
Every bound is a constant of the module and a guard of the action it stops.

`physics` lets user code run in the update phase (`UserPhases = {5}`) and in listeners;
the hooks of the other phases and the host between ticks are the same actions at other
values of `phase`, and the proofs hold for all of them. `ListenersRebind = FALSE`:
listeners of contacts do not create or destroy bodies (section 4).

`hierarchy_*` use a VIEW: dormancy and transforms share the links and neither is
read by a guard or an assignment of the other, so dropping the other half from the
fingerprint merges states with the same futures in the half that is kept. Symmetry
is used over entities in safety runs only.

CHECK_DEADLOCK is FALSE where the system may stop: every slot used up to its last
generation, a queue with nothing to do, a machine whose host is dead or whose
journal refuses everything, a bundle read to its end, the last tick.

Fairness. The engine's own code between two callbacks runs to the next one: weak
fairness of `Running` (statechart, world) and of the delivery steps (bus). A callback
that is called returns, though it may trigger others first: strong fairness of
`listener_return` at each depth and of `hook_return`. Nothing else is fair; user code
need not trigger, subscribe or despawn anything. `CascadeSettles` is then a statement
about the code: hooks may trigger again and again, and only the region mark and the
depth cap end it. `Sequence` has weak fairness of the engine's steps: ticks go on and a
batch runs to its end; `SheetFinishes` speaks of a sheet that is neither interrupted nor
dormant from some moment on.

Each property has a mutant, a plausible bug in a definition of the model that TLC
must find with that property; they stand in the modules, before the definition they
change, marked `Mutant`.

## 4. Findings

1. `statechart_reentrant_entry`: the initial entry does not mark its region. A
   component onEnter of an initial composite may trigger a transition between its
   substates, which runs inside the composite; the outer chain then enters
   `initial_child` once more as an initial entry, which marks it active without lifting
   its activation scope. "An inactive state ALWAYS owns one scope"
   (`core/statechart/transitions.cpp:286`) no longer holds of the configuration, and
   the next exit of that state is fatal. The `statechart` run assumes it away
   (`ReentrantEntry = FALSE`: hooks of an initial entry fire no event their own region
   reacts to).
2. `spawner_lost_spawn`: `realize` takes its list of spawns only after it has triggered
   `entity.despawned`, so a spawn that a listener of this event requests is on the list
   while its handle is pending; it is dropped there, the next flush brings the handle to
   life, and nothing is ever built on it. The comment in `realize` says it "lands in the
   fresh pending_ and realizes NEXT tick" (`core/loader/prefab_spawn.cpp:351`). The
   `spawner` run assumes it away (`DespawnListenersSpawn = FALSE`).

Other places where code and comments part, without a run of their own:

- *Attaching what is not built.* "queue_spawn + queue_reparent in one tick is the
  canonical spawn-and-attach flow" (`core/hierarchy/hierarchy.h:24`), and `queue_attach`
  takes every current handle. For a handle of `spawn_prefab` it is fatal: the flush of
  phase 8 adopts the reserved root (`topology.cpp:269-278`), `adopt` in `realize` refuses
  what is adopted (`prefab_spawn.cpp:361`), and `realize` returns from the middle of the
  list it swapped out. The tick ends in error; the journal still writes, so the next tick
  runs, and no spawn of that list that is left is ever built: its handle stays alive and
  empty. `prefab_spawn.h:24-27` says that no handle is given out "for a request destined
  to fail deep in the tick" and that `realize` "only ever does WORK that was already
  validated to succeed". The model has this path (`refuse_adopted`, and `refuse_prefab`
  for a host that refuses a component, both through `give_up`), so `SpawnsLand` says what
  is left of the promise: a spawn not built is on the list, or was on one that is lost,
  and some root of the lost lists was attached before it was built or refused by the host.
  Without `lost` in its first conjunct TLC finds it violated within one tick: spawn,
  attach, phase 8.
- *Contacts.* "Per pair (a, b) ... first the trigger on a's entity channel {self: a,
  other: b}, then on b's" (`core/physics/physics_server.h:30`). `trigger_pair` keeps two
  references into `bindings` over the first event. A listener that destroys one of the
  bodies makes the second event name the null entity; one that creates a body in the
  freed index makes it name a third entity; and one whose body takes a new index resizes
  the vector, after which both references dangle. With `ListenersRebind = TRUE` TLC
  finds `ContactsNameOwners` violated in the first two ways; the third is undefined
  behaviour that the model does not enter.
- *Initial entry.* `run_initial_entry` skips a region a cascade has transitioned, because
  "the region already moved on"; if the cascade moved only a substate of the initial
  composite, the composite stays active and its enter chain never runs.
- *Sheets.* A history resume seeks behind every item up to the saved tick and says they
  "fired before the interruption" (`core/statechart/sequences.cpp:295`): those of the
  batch that was interrupted did not. `advance_sheet` says the playhead is at the duration
  "exactly" at the end (`:204`): a sheet resumed at its end is advanced one past it, and
  only the `>=` of the test ends it. A hook between the start of an initial entry and its
  `sheet_start` may leave spans open that the sheet does not know.
- *Captured subtrees.* `prepare` reaps the subtree it captures before the flush; a
  reparent queued in the same tick moves an entity in or out of it (`CapturedExactly`
  makes that exception).
- *Durability.* `flush` promises crash durability, and what it covered does survive
  (`FlushedSurvives`), but `Reader::open` refuses a bundle without `index.json`, which only
  `close` writes: after a crash the records can be decoded, not read through the reader.
- *Batch commit.* "A vanished row refuses the whole commit" (`ts/runtime/batch_views.h`),
  but requests before it are scattered already, and rows are found again by index, not by
  generation.
- *Catch-up.* `advance` takes a step's time before it ticks; a tick that is refused or
  nested consumes it without a count ("never silently lost", `core/tick/tick_loop.h:45`).

## 5. Proofs

Eight proof modules; the theorems hold for every number of slots, generations, entities,
values, components, commands, subscribers, channels, states, regions, sheets, records, ticks,
inputs and bodies that satisfies the named assumptions of their modules, and for every
depth of re-entry below the depth constants.

*Shared lemmas* (`SublistProofs`). `LeastOf` finds the least element of a nonempty set of
naturals; with it a proof by induction is a proof by least counterexample. `Nth` counts the members of a
set, `Kept` and `Without` are the elements a list keeps, with their order: what is kept of
what was kept, of a list with one element more, and of a list split in two. Bus, views,
watchers and contacts all rest on these.

*Entity table* (`WorldProofs`). `TableInv` is the type invariant, `FreeListExact`,
`AliveCountExact` and `GenerationHeadroom` (a slot that is in use has a generation below
the bound: without it a release could leave the type). Allocation pops the last entry, so
the lemmas `PoppedStack` and `PushedStack` carry "each once" over a stack; the alive count
is a cardinality and is carried by `CountAfterAdd` and `CountAfterRemove`. `HandlesCorrect`
maps each step to a step of `Handles`.

*World* (`WorldProofs`). `WorldInv` is the type invariant, `TableInv`, `RowsOnlyForAlive`,
`SpawnOwed` (each pending slot has exactly one spawn command in the queue, not yet reached
by the flush, and each such command has its pending slot) and `InFlightAlive` (the stack of
despawns holds distinct live entities). Rows come from `emplace` and from the adoptions of a
flush, of entities the flush has found alive again (`StrangersAlive`). Each part needs the
others: that a flushed spawn finds
its slot pending needs `SpawnOwed`; that releasing the innermost despawn keeps the rest
alive needs them distinct.

*Pool* (`PoolProofs`). `SetInv` (the sparse and the packed array are inverse; one activity
bit for each position of the capacity) is inductive as it stands; the work is
`RemoveCorrect`, the swap of the last row into the hole, with the removed row last as its
own case. `PoolIsMap` follows: the map read off the pool changes as `PoolMap` says.

*Views* (`PoolProofs`). A running view knows what it has read of the driver's words so far.
The invariant says of each one, at each depth, that the positions behind its cursor are
dealt with, that the bits it still holds of the current word are bits the word had when it
was read, and that the bodies it visited are in packed order; rows do not move while any
view holds the structural lock. `ViewsMissNothing` and `ViewsSkipInactive` follow, for
every word size.

*Event bus* (`EventBusProofs`). `BusInvariant`: outside a dispatch nothing is dead, dirty or
queued; inside one, a frame reads a channel that only grows behind the frame's end.
`EventsHeardInOrder` is about the listeners a dispatch has behind it. `SubscriptionsKept` says
what each call does to the registrations, and that the bus so implements `Registrations`: who
is registered is what the channel would hold once the queued changes are applied, less the
subscribers of stale entities. A subscribe or unsubscribe does exactly what it says, queued or
not; a despawn expires the subscribers of its entity (`OwnedBy`) and no other; every step of a
dispatch, its end included, changes nobody's registration (`CallMeans`). Each operation on a
channel is the same operation on its *view* (the subscribers that still stand there), the queue
is drained over the views (`DrainViews`), and appending to the queue is the operation done at
the end of that (`DrainAppend`).

*Hierarchy* (`HierarchyProofs`). `HierarchyIInv` is the inductive invariant. Its core is
`Tree(node, adopted, f)`: the five links of the nodes mirror each other in every list, and
no set of nodes is closed under one link (parent, next or previous sibling). The second
part is how well-foundedness is said without counting: a cycle, or a sibling list that
never reaches its end, would be such a set. A move unlinks a node and links it elsewhere,
and between the two the node hangs in no list; `f` is that node, and `NULL` between
handlers (`UnlinkTree`, `MoveTree`, `AdoptTree`). That a move closes no cycle is the guard
`subtree_contains`: the ancestors of the new parent are a set closed under `parent` that
the moved node is not in. `CoverRight` says of the counts that they grow by the own flag
along every parent link; a move adds the difference of the two places to a whole subtree,
and activation does the same with one. `Uncaptured` ties the captures to the counts, so the
first cover captures and the last one restores (`ActivityIsKept`, an action property, is
read off each step). `Blank` says that a node outside the tree has no links, no cover and
no marks: adoption relies on it, and `finish_despawn` establishes it. `InFlight` describes a
cascade: each call despawns a child of the call around it, all of them alive.

`TreeStaysWellFormed` needs more than the invariant: that the walk of `rebuild_order` and
`propagate` meets each entity once. `children` and `depth_first` are recursive functions
over the number of steps; a lemma each shows that the function exists, and then an invariant
of the walk (`SiblingsRight`; `WalkRight`: what is out and what is on the stack are
disjoint, and together they are the nodes whose parent is out) is carried from step to step.
The number of entities is enough steps, as each step that does not stop takes out a new one.

`TransformsStayFresh` adds `TransformIInv`: the parent of every dirty or marked entity is
marked, so `mark_transform_dirty` may stop at the first marked ancestor and leaves no gap
above it; the matrix of each clean entity is its parent's composed with its local.
`propagate` is proved by the same kind of walk (`VisitsRight`): what is visited in an open
parent is recomputed where it or its parent changed, and what is not opened has nothing
dirty below.

`OrderStaysFresh` says what the cached indices mean. `Preceding` (an ancestor, or `Ahead`:
in the older of two subtrees under one parent) is a strict order on the nodes of a tree, by
`PathOrder` and `SiblingsApart` (the ancestors of a node are a chain, and it is below at
most one child of any parent). The walk carries `OrderRight`: the nodes that are out stand
in tree order and precede all on the stack, and the stack is ordered by `Ahead`. As
`Preceding` is strict, standing earlier in the walk is then the same as preceding. The
handlers that keep the indices change no link (`IndicesKept`), a reparent that is refused
as a cycle included (`ReparentOrder`); all others drop or rebuild them.

`ForestRefined` is the refinement of `Forest`. Nothing in it is about link surgery: the
links of a tree say who is in the list of a parent and who stands in front of whom (`Row`),
and there is exactly one such list, because two of them agree place by place (`RowUnique`).
So it is enough that the surgery leaves the links that the list without the moved node has
(`RowUnlinked`, over `RemoveFirst`), and then those of that list with the node at its end
(`RowLinked`). That the two sides refuse the same moves is `UnderIs`: `subtree_contains`
walks up from the new parent, `Under` of `Forest` closes downwards over the lists. Steps that move no link
leave every list alone (`OffspringSame`).

*Statechart* (`StatechartProofs`). The state of a chart in the middle of a chain is only
right relative to the work still on the call stack, so `ChartInv` speaks about the stack:
`StackInOrder` (the frames of one region stand as the recursion of `exit_state` and
`enter_state` leaves them), `FramesRight` (what each frame will find: a `sleep` an active
state whose substates have left or are about to, a `wake` an inactive one under an active
parent, a `detach` the link it will cut), `PlacesRight` (initial entries wait at the bottom
of the stack, a region that is to exit has no chain of its own on it), `LinksRight` and
`Lacking` (where links and activity disagree, or a configuration is not whole, a frame that
repairs it is pending). One nested delivery cannot disturb the chain it interrupts because
that region is marked (`StampRight`); the initial entry marks nothing, and there
`UnmarkedRight` and `EntryUndisturbed` take its place. `StackRight`, `OneScope`, `OneChain`
and `Whole` therefore assume `~ReentrantEntry`, and finding 1 shows that they fail without
it.
`WatchersArmedInActiveStates` needs no such assumption. `TreeInduction` (from the
well-foundedness of `Parent` in `ChartAssumption`) gives the equation of the recursive
function `Up`; `WinnerIn` shows that the choice of a transition is well defined. The depth
is a cardinality over the stack, carried through every push by `DepthMoves`.

`HooksRight` is the refinement of `Lifecycle`. The phase of a state is read off the stack,
so each step must be shown to move at most one state and that state as `Lifecycle` allows.
What `ChartInv` does not say is where the script of an entering state stands: `HookInv`
adds that it is the last hook of its state (`HooksInRow`: in front of it in its region are
only frames that enter below it, behind it only the scripts of its ancestors), so a script
enters after the substate and no exit chain ever cuts across an entry; and that a seated
state is announced by its own entry or by its parent's (`SeatsRight`, `SeatsEnter`,
`SeatsWhole`, and `EntryAhead` for regions whose initial entry has not begun), so the
script of a state never enters over a substate that was built active and not entered. That
a composite has an active substate when its script enters is `Lacking`, together with the
assumption that a state with substates declares its initial one (instantiate refuses
others).

*Spawner* (`SpawnerProofs`). What phase 8 has still to do is on the stack, and the invariant
is about the stack: `StackRight` (the frames stand in the order of the stages of `prepare`
and `realize`, a hook in front of the step it interrupted, the flush still ahead of every
removal), `PhaseRight` (what each phase of the tick can find there), `PromisesRight` (a
despawn that was promised is held by a linger whose deadline is not later, or, once its
tick has come, by its frame or a queued removal with the flush ahead) and `BirthsRight` (a
pending handle has its spawn in the queue, in front of any despawn of it; a prefab that is
to be built was never built). `FlushFacts` is the induction over the queue: the flush
leaves nothing pending, kills what a removal behind its spawn names, and kills nothing when
no removal is queued, which is why the flush inside a `build` is harmless.
`EveryDeadlineKept` follows. `EverySpawnLands` adds `LandInv`: what is alive and not built
has a frame, is on the list or was on one that is lost, a build frame is never of a pending
handle, and between the flush and the swap no hook runs and nothing is pending. The last
part holds only when listeners of `entity.despawned` spawn nothing, the hypothesis of the
theorem; finding 2 shows it fails otherwise. `LossInv` is why a list is lost: a root with a
node, or about to get one from a reparent in the queue (`Attaches`; the flush gives nodes to
nobody else, `FlushAdopts`), has a seat unless a caller named it before it was built or it
was itself on a lost list; the root whose build fails has no seat.

`LivesRight` adds `LifeInv`, in every state of a loop that was not aborted (an error stops
phase 8 between two steps of a life): children are attached to living parents
(`ParentsAlive`), seat and notes say how far a life has come (`StagesRight`), a machine that
has not entered has its entry on the stack, once (`BuildsRight`), a seat that is to exit
waits behind its machine and the seats of its children, and a removal behind all seats of
its subtree, which is still the one the tree shows (`ExitsRight`); and a queued reap is of
a subtree that has left, whose root is alive with its removal in the queue before the flush,
and dead after it (`ReapsRight`). `FlushTree` is the second induction over the queue: an
entity no command moves stays where it is or dies, and dies only by a removal of it or its
parent. With `ReapsRight` this is `EverySubtreeCaptured`: nobody dies who was not captured,
and nobody captured stays attached to the dead and alive. `LifetimesKept` is the refinement of `Lifetime`: each
step moves each `StageOf` along an edge (`StagesInOrder`, one lemma per kind of step). The
two exceptions that `Lifetime` admits are used only where they are needed: `FlushEnds`
shows that a life ended by a flush has left unless its record was refused or a reparent of the
same tick moved it, and a burial spares only after the flush, when no removal is queued.

*Journal* (`TimelineProofs`). `JournalInv` says of every block how many records it completes
and that this number rises, of every index entry that a frame starts where it points and
that its record is the next one, and that the last entry is behind the last index tick. It
needs the bound on `next_index_tick` to keep entries increasing, and the frame flag to know
that a stream without an open frame ends in one. A failed write leaves the writer poisoned,
and a poisoned writer never writes an index: `BundlesWhole`. `FlushedStays` rests on a flush
that empties both buffers and on blocks that never change. The reader needs more of the writer:
`TicksRise` says that the records before an entry are of earlier ticks, that all of them are
of ticks before `next_index_tick`, and that an index points only at frames on the disk. With
it `ReaderRight` is inductive: the decoder is at the start of a frame or inside the stream,
what it has decoded is what the blocks it took complete, and nothing between the last answer
and the line it is at was to be given. `SeekLands` is the step that matters: the entry
`seek_to_tick` picks is the last one whose tick is at or before the target, so all it jumps over is of
earlier ticks. Since every entry is a frame start, a complete bundle never fails a reader
(`NextIsExact`).

*Sequence* (`TimelineProofs`; the module shares nothing between the two). `compile_sequence`
sorts by placing each item behind as many as come before it; `PlacesSort` shows that the
places of a finite set under a strict total order are `1 .. n`, each taken once, and
`CompiledTimeline` what the engine relies on: ticks rise, and each span has one opening and
one closing, in this order. Over that timeline `SequenceInv` says that nothing behind the
cursor lies after the playhead (`CursorRight`); that as long as an item is due, a batch of
the current epoch stands on the stack, and the end of the sheet below everything
(`StackRight`), so at rest, and when the end is handled, nothing is due; that what fired or
was cut off is exactly what is behind the cursor (`FiredRight`); and that the open spans are
those with their opening, but not their closing, behind it (`OpenAt`). When nothing is due
`OpenAt` is what covers the playhead (`OpenCovers`): that is `SpansAreRight`, and why a
resume, which reopens by position, and the items, which open by firing, agree. Firing the
item at the cursor moves `OpenAt` by one (`OpenNext`), and a wrap finds the cursor behind
the last item, with every span closed (`OpenEnds`). An interruption between two items
needs `SavedRight`: the state left, and the saved position is where it was.

*Tick loop and physics* (`PoolProofs`). `TickInv` lays the injected inputs out as
delivered, due in this phase and queued, in this order, with the tick each is for, and says
of every marker which one may follow it (`Heartbeat`: a tick whose structural phase failed
ends without its ninth), that the last one is that of the running phase (`LastMarker`) and
that every packet has the ninth marker of its tick (`PacketsMarked`). The eight before it
are found by going back one marker at a time (`MarkerBefore`, `TickWhole`).
`InputsDelivered` and `FramesAreJournaled` follow. `LoopRefined` and `PoolRefined` show that the composition with
physics implements the loop and the pool of its rows, so what is proved of them holds of it
(`LoopHolds`, `PoolHolds`). `BodiesAndRows` is inductive with the types: a body id that is
bound is the id at its own index, and only live entities have rows. No assumption on
listeners is needed for these, nor for `FirstEventNamesOwners`. `ContactsRight` has the
hypothesis `~ListenersRebind`, which section 4 shows it needs; both contact theorems show
first that the order in which contacts are told is that of a sorted set, each once.

What the prover does not reach. A *recursive function* over a well-founded order can be
reasoned about through its least counterexample (`Up`, the drain of the bus), a `RECURSIVE`
operator cannot, so the models use functions and folds only, and filtered lists are
`Kept` and `Without`. Liveness under fairness and ENABLED are outside the prover:
`FlushCompletes`, `QueuedChangesApplied`, `CascadeSettles` and `SheetFinishes` are
model-checked only.

## 6. Not modelled

Per component in `PROJECT.json`. In modelled components: generation wrap-around; sorted
owning groups of views; the owner flag and counters of the hierarchy; payload validation
and statistics of the bus; update hooks, voided records, region history (written but never
read), machine variables and several machines on one host in the statechart; `advance` and
its catch-up budget, frame interpolation and hook registration in the tick loop; poses and
the solver in physics (which bodies touch is any set of pairs, which free index a body gets
is any); header, identity and codec of the journal (a half written index counts as missing, since no
proper prefix of it parses); prefab trees deeper than one level, a host that refuses a prefab
after seating a part of it; validation and placement of prefabs;
the bindings of actions to raw inputs. Despawns and dormancy in `Physics` are those of one
pool: the cascade over children is `Hierarchy`'s, the queue `World`'s.

The parsers, the expression language, math, rendering backends, CLI and toolchain are
functional or I/O and have no state a model checker would explore. They are most of the
lines of the repository: what the map covers is most of the simulation core and little of
the rest.

## 7. Plan

Done: ECS, bus, hierarchy, statechart, sheets, spawner, journal, tick loop and physics
phase; proofs of table, world, pool, views, bus, hierarchy, statechart, sheets, spawner,
journal, loop and physics. Next, in this order:

1. `BatchView` (gather, script, commit) over `Pool`, and `advance` over `TickLoop`.
2. `Handle` and the record-submit states of the RHI; the uid registry of the loader.
