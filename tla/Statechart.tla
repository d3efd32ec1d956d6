----------------------------- MODULE Statechart -----------------------------
(***************************************************************************)
(* One machine of statechart::Statechart (core/statechart): transitions    *)
(* run inline on events, and every hook of an exit or enter chain may      *)
(* trigger the next event, nested, before the chain goes on.               *)
(*                                                                         *)
(* `todo` is the call stack as the work still to do, innermost first: the  *)
(* recursion of exit_state and enter_state unfolds into it, and a nested   *)
(* delivery is put in front of it.  A slot is a place where user code      *)
(* runs: it triggers any number of events, then returns.  Between two      *)
(* slots nothing but the chart itself runs.                                *)
(***************************************************************************)
EXTENDS Integers, Sequences, SequencesExt, FiniteSets, Sublist

CONSTANTS
  State, Event, NULL,
  Regions,       \* the regions, in declaration order
  RegionOf,      \* RtState::region
  Parent,        \* RtState::parent, NULL at the top level
  InitialChild,  \* RtState::initial_child, NULL for a leaf
  Initial,       \* RtRegion::initial
  History,       \* the states declared with history
  Transitions,   \* the transition table: any-state rules, then document order
  Watchers,      \* the watchers, in tree order: their owning state and event
  kMaxCascadeDepth,
  MaxTick,       \* bound: the last tick
  ReentrantEntry \* whether hooks of an initial entry transition their own region

Region == Range(Regions)

\* instantiate flattens the document region by region: the states of a region
\* are trees, a parent in the region of its substates; a state with substates
\* declares its initial one.
ASSUME ChartAssumption ==
  /\ IsFiniteSet(State) /\ NULL \notin State \cup Region
  /\ Regions \in Seq(Region) /\ Regions # <<>> /\ IsInjective(Regions)
  /\ RegionOf \in [State -> Region] /\ Parent \in [State -> State \cup {NULL}]
  /\ \A s \in State : Parent[s] # NULL => RegionOf[Parent[s]] = RegionOf[s]
  /\ \A S \in SUBSET State : S # {} => \E s \in S : Parent[s] \notin S
  /\ InitialChild \in [State -> State \cup {NULL}]
  /\ \A s \in State : InitialChild[s] # NULL => Parent[InitialChild[s]] = s
  /\ \A s \in State : Parent[s] # NULL => InitialChild[Parent[s]] # NULL
  /\ Initial \in [Region -> State]
  /\ \A r \in Region : RegionOf[Initial[r]] = r /\ Parent[Initial[r]] = NULL
  /\ History \subseteq State

ASSUME TableAssumption ==
  /\ Transitions \in Seq([event : Event, source : State \cup {NULL}, target : State,
                         priority : Int, filtered : BOOLEAN])
  /\ Watchers \in Seq([state : State, event : Event])
  /\ kMaxCascadeDepth \in Nat \ {0} /\ MaxTick \in Nat /\ ReentrantEntry \in BOOLEAN

VARIABLES
  life,           \* none, deferred, live, dying (exited, flush pending), dead, aborted
  tick,           \* bus tick
  poisoned,       \* the journal refuses every record from here on
  active,         \* the states with RtState::active
  deactivated,    \* the states whose entity owns an activation scope
  region_active,  \* RtRegion::active
  active_child,   \* RtState::active_child
  history_child,  \* RtState::history_child
  stamp,          \* RtRegion::transition_stamp
  armed_value,    \* RtWatcher::armed_value: the value last observed
  watched,        \* the tick whose watcher phase has run
  todo,           \* the call stack
  seated          \* auxiliary: initial states whose enter chain has not run

configVars == <<active, deactivated, region_active, active_child, history_child, seated>>
watcherVars == <<armed_value, watched>>
chartVars == <<life, tick, poisoned, configVars, stamp, watcherVars, todo>>

kNeverTicked == -1

\* Ancestors-or-self of a state, and the ancestor-or-self of t directly below a.
Up[s \in State] == {s} \cup (IF Parent[s] = NULL THEN {} ELSE Up[Parent[s]])
Toward(a, t) == CHOOSE s \in Up[t] : Parent[s] = a

\* The initial substate of a, or of region r; the states such links reach.
InitialBelow(r, a) == IF a = NULL THEN Initial[r] ELSE InitialChild[a]
InitialChain == {s \in State : \A u \in Up[s] : u = InitialBelow(RegionOf[u], Parent[u])}

\* The active substate of a, or of region r; a region's active chain, the states
\* the links from region.active reach.
Below(r, a) == IF a = NULL THEN region_active[r] ELSE active_child[a]
Chain(r) ==
  {s \in State : RegionOf[s] = r /\ \A u \in Up[s] : u = Below(r, Parent[u])}

Deepest(S) == IF S = {} THEN NULL ELSE CHOOSE s \in S : S \subseteq Up[s]

-----------------------------------------------------------------------------
\* The frames of the call stack.
deliver(e, i) == [op |-> "deliver", event |-> e, at |-> i]
initial_entry(i) == [op |-> "initial_entry", at |-> i]
exit_region(r) == [op |-> "exit_region", region |-> r]
slot(name, s) == [op |-> "slot", name |-> name, state |-> s]
exit_child(s) == [op |-> "exit_child", state |-> s]
watch(w) == [op |-> "watch", watcher |-> w]
sleep(s) == [op |-> "sleep", state |-> s]
detach(s) == [op |-> "detach", state |-> s]
wake(s, t, first) == [op |-> "wake", state |-> s, target |-> t, first |-> first]
enter_child(s, t, first) == [op |-> "enter_child", state |-> s, target |-> t, first |-> first]

\* Mutant: the state sleeps before its active substate leaves.
exit_state_parent_first(s) ==
  <<slot("script_exit", s), slot("component_exit", s), sleep(s), exit_child(s)>>

\* exit_state: script and open spans, active substate, components, subtree.
exit_state(s) == <<slot("script_exit", s), exit_child(s), slot("component_exit", s), sleep(s)>>

\* enter_state once the subtree is up: components, substate, playhead and script.
enter_state(s, t, first) ==
  <<slot("component_enter", s), enter_child(s, t, first), slot("script_enter", s)>>

Idle == todo = <<>>
Next_frame(op) == ~Idle /\ Head(todo).op = op
Depth == Cardinality({i \in DOMAIN todo : todo[i].op = "deliver"})

\* fatal_if: the process ends.
abort == life' = "aborted" /\ todo' = <<>>

-----------------------------------------------------------------------------
\* instantiate: the initial chains are built active, every other state is
\* deactivated; a refused record despawns the subtree again.
instantiate(deferred) ==
  /\ Idle /\ life = "none" /\ ~poisoned
  /\ life' = IF deferred THEN "deferred" ELSE "live"
  /\ active' = InitialChain /\ deactivated' = State \ InitialChain /\ seated' = InitialChain
  /\ region_active' = Initial
  /\ active_child' = [s \in State |-> IF s \in InitialChain THEN InitialChild[s] ELSE NULL]
  /\ todo' = IF deferred THEN <<>> ELSE <<initial_entry(1)>>
  /\ UNCHANGED <<tick, poisoned, history_child, stamp, watcherVars>>

start_initial_entry ==
  /\ Idle /\ life = "deferred"
  /\ life' = "live" /\ todo' = <<initial_entry(1)>>
  /\ UNCHANGED <<tick, poisoned, configVars, stamp, watcherVars>>

\* Mutant: the region that has transitioned already is entered all the same.
run_initial_entry_unchecked ==
  /\ Next_frame("initial_entry")
  /\ LET i == Head(todo).at
         rest == IF i < Len(Regions) THEN <<initial_entry(i + 1)>> ELSE <<>>
     IN  todo' = <<wake(Initial[Regions[i]], NULL, TRUE)>> \o rest \o Tail(todo)
  /\ UNCHANGED <<life, tick, poisoned, configVars, stamp, watcherVars>>

\* run_initial_entry, one region: skipped when a cascade transitioned it first.
run_initial_entry ==
  /\ Next_frame("initial_entry")
  /\ LET i == Head(todo).at
         r == Regions[i]
         chain == IF stamp[r] = kNeverTicked THEN <<wake(Initial[r], NULL, TRUE)>> ELSE <<>>
         rest == IF i < Len(Regions) THEN <<initial_entry(i + 1)>> ELSE <<>>
     IN  todo' = chain \o rest \o Tail(todo)
  /\ UNCHANGED <<life, tick, poisoned, configVars, stamp, watcherVars>>

-----------------------------------------------------------------------------
\* The regions some chain on the stack is working in; the chain of one that
\* was never marked is its initial entry.
ChainOps == {"slot", "exit_child", "sleep", "detach", "wake", "enter_child"}
InFlight == {RegionOf[todo[i].state] : i \in {j \in DOMAIN todo : todo[j].op \in ChainOps}}
Entering == {r \in InFlight : stamp[r] = kNeverTicked}

\* Bus::trigger on the host's channel, from a slot or from outside: refused
\* past the depth cap and by a poisoned journal; a deferred machine is deaf.
trigger(e) ==
  /\ life \in {"live", "dying"} /\ ~poisoned
  /\ ~Idle => Head(todo).op = "slot"
  /\ Depth < kMaxCascadeDepth
  /\ ~ReentrantEntry => \A i \in DOMAIN Transitions :
       Transitions[i].event = e => RegionOf[Transitions[i].target] \notin Entering
  /\ todo' = <<deliver(e, 1)>> \o todo
  /\ UNCHANGED <<life, tick, poisoned, configVars, stamp, watcherVars>>

\* The user code of a slot returns.
hook_return ==
  /\ Next_frame("slot")
  /\ todo' = Tail(todo)
  /\ UNCHANGED <<life, tick, poisoned, configVars, stamp, watcherVars>>

-----------------------------------------------------------------------------
\* Mutant: a target inside the active chain is entered without leaving first.
execute_transition_keeps_target(r, target, rest) ==
  LET anchor == Deepest((Chain(r) \cap Up[target]) \ {target})
      exit_root == IF target \in Chain(r) THEN NULL ELSE Below(r, anchor)
      exits == IF exit_root = NULL THEN <<>> ELSE Append(exit_state(exit_root), detach(exit_root))
  IN  /\ stamp' = [stamp EXCEPT ![r] = tick]
      /\ todo' = exits \o <<wake(Toward(anchor, target), target, FALSE)>> \o rest

\* execute_transition: the region is marked first; then the active-chain child
\* of the deepest common ancestor exits and the target's side enters.  A target
\* inside the active chain exits and enters again.
execute_transition(r, target, rest) ==
  LET anchor == Deepest((Chain(r) \cap Up[target]) \ {target})
      exit_root == Below(r, anchor)
      exits == IF exit_root = NULL THEN <<>> ELSE Append(exit_state(exit_root), detach(exit_root))
  IN  /\ stamp' = [stamp EXCEPT ![r] = tick]
      /\ todo' = exits \o <<wake(Toward(anchor, target), target, FALSE)>> \o rest

\* The pairs of region r that hear event e, and those of them in force.
Matching(r, e) ==
  {i \in DOMAIN Transitions : Transitions[i].event = e /\ RegionOf[Transitions[i].target] = r}
Candidates(r, e) == {i \in Matching(r, e) : Transitions[i].source \in Chain(r) \cup {NULL}}

\* Highest priority, then declaration order.
Winner(C) ==
  CHOOSE i \in C : \A j \in C :
    \/ Transitions[i].priority > Transitions[j].priority
    \/ Transitions[i].priority = Transitions[j].priority /\ i <= j

\* The stamp is the mark: it is cleared by time.
marked(r) == stamp[r] = tick

\* on_machine_event takes the regions in declaration order.
NextRegion == Next_frame("deliver") /\ Head(todo).at <= Len(Regions)
rest_of_delivery == <<deliver(Head(todo).event, Head(todo).at + 1)>> \o Tail(todo)

end_delivery ==
  /\ Next_frame("deliver") /\ Head(todo).at > Len(Regions)
  /\ todo' = Tail(todo)
  /\ UNCHANGED <<life, tick, poisoned, configVars, stamp, watcherVars>>

\* evaluate_region: a filter passes or not; no candidate, or a transition record
\* the journal refuses, leaves the region as it is.
evaluate_region ==
  /\ NextRegion
  /\ LET r == Regions[Head(todo).at]
         all == Candidates(r, Head(todo).event)
     IN  /\ ~marked(r)
         /\ \E C \in SUBSET all :
              /\ \A i \in all \ C : Transitions[i].filtered
              /\ IF C = {} \/ poisoned THEN todo' = rest_of_delivery /\ UNCHANGED stamp
                 ELSE execute_transition(r, Transitions[Winner(C)].target, rest_of_delivery)
  /\ UNCHANGED <<life, tick, poisoned, configVars, watcherVars>>

\* Mutant: the event waits for the region behind the work under way.
void_marked_region_postponed ==
  /\ NextRegion
  /\ marked(Regions[Head(todo).at])
  /\ todo' = Append(Tail(todo), Head(todo))
  /\ UNCHANGED <<life, tick, poisoned, configVars, stamp, watcherVars>>

\* void_marked_region: the matching pairs are journaled, nothing else.
void_marked_region ==
  /\ NextRegion
  /\ marked(Regions[Head(todo).at])
  /\ todo' = rest_of_delivery
  /\ UNCHANGED <<life, tick, poisoned, configVars, stamp, watcherVars>>

-----------------------------------------------------------------------------
\* The steps of exit_state and enter_state that are not slots.
exit_active_child ==
  /\ Next_frame("exit_child")
  /\ LET s == Head(todo).state
         c == active_child[s]
     IN  /\ history_child' = IF c # NULL /\ s \in History THEN [history_child EXCEPT ![s] = c]
                             ELSE history_child
         /\ todo' = (IF c = NULL THEN <<>> ELSE Append(exit_state(c), detach(c))) \o Tail(todo)
  /\ UNCHANGED <<life, tick, poisoned, active, deactivated, region_active, active_child, seated, stamp, watcherVars>>

\* The watchers re-arm; exit 4: the subtree deactivates, fatal when it already
\* owns a scope.
deactivate_state ==
  /\ Next_frame("sleep")
  /\ LET s == Head(todo).state
     IN  /\ armed_value' = [w \in DOMAIN Watchers |-> armed_value[w] /\ Watchers[w].state # s]
         /\ IF s \in deactivated THEN abort /\ UNCHANGED <<active, deactivated, seated>>
            ELSE /\ active' = active \ {s} /\ deactivated' = deactivated \cup {s}
                 /\ seated' = seated \ {s}
                 /\ todo' = Tail(todo) /\ UNCHANGED life
  /\ UNCHANGED <<tick, poisoned, region_active, active_child, history_child, stamp, watched>>

\* The caller of exit_state cuts the link to the state that left.
unlink_state ==
  /\ Next_frame("detach")
  /\ LET s == Head(todo).state
     IN  IF Parent[s] = NULL
         THEN region_active' = [region_active EXCEPT ![RegionOf[s]] = NULL] /\ UNCHANGED active_child
         ELSE active_child' = [active_child EXCEPT ![Parent[s]] = NULL] /\ UNCHANGED region_active
  /\ todo' = Tail(todo)
  /\ UNCHANGED <<life, tick, poisoned, active, deactivated, history_child, seated, stamp, watcherVars>>

\* Enter 1: the subtree activates; at the initial entry it was built active.
activate_state ==
  /\ Next_frame("wake")
  /\ LET f == Head(todo)
         s == f.state
     IN  IF ~f.first /\ s \notin deactivated
         THEN abort /\ UNCHANGED <<active, deactivated, region_active, active_child, seated>>
         ELSE /\ active' = active \cup {s}
              /\ deactivated' = IF f.first THEN deactivated ELSE deactivated \ {s}
              /\ seated' = seated \ {s}
              /\ IF Parent[s] = NULL
                 THEN region_active' = [region_active EXCEPT ![RegionOf[s]] = s] /\ UNCHANGED active_child
                 ELSE active_child' = [active_child EXCEPT ![Parent[s]] = s] /\ UNCHANGED region_active
              /\ todo' = enter_state(s, f.target, f.first) \o Tail(todo)
              /\ UNCHANGED life
  /\ UNCHANGED <<tick, poisoned, history_child, stamp, watcherVars>>

\* Mutant: below the target nothing enters.
enter_substate_at_target ==
  /\ Next_frame("enter_child")
  /\ LET f == Head(todo)
         forced == f.target # NULL /\ f.target # f.state /\ f.state \in Up[f.target]
         next == IF forced THEN Toward(f.state, f.target)
                 ELSE IF f.target = NULL THEN InitialChild[f.state] ELSE NULL
     IN  todo' = (IF next = NULL THEN <<>> ELSE <<wake(next, f.target, f.first)>>) \o Tail(todo)
  /\ UNCHANGED <<life, tick, poisoned, configVars, stamp, watcherVars>>

\* Enter 3: the forced path toward the target, else history, else initial.
enter_substate ==
  /\ Next_frame("enter_child")
  /\ LET f == Head(todo)
         s == f.state
         forced == f.target # NULL /\ f.target # s /\ s \in Up[f.target]
         next == IF forced THEN Toward(s, f.target)
                 ELSE IF s \in History /\ history_child[s] # NULL THEN history_child[s]
                 ELSE InitialChild[s]
     IN  todo' = (IF next = NULL THEN <<>> ELSE <<wake(next, f.target, f.first)>>) \o Tail(todo)
  /\ UNCHANGED <<life, tick, poisoned, configVars, stamp, watcherVars>>

-----------------------------------------------------------------------------
Due == {w \in DOMAIN Watchers : Watchers[w].state \in active}

\* run_watchers, once a tick, after the phase's record: the watchers of active
\* states are queued.
run_watchers ==
  /\ Idle /\ life = "live" /\ ~poisoned /\ watched < tick
  /\ watched' = tick
  /\ todo' = [i \in 1 .. Cardinality(Due) |-> watch(Nth(Due, i))]
  /\ UNCHANGED <<life, tick, poisoned, configVars, stamp, armed_value>>

\* Mutant: the state is not looked at again.
evaluate_watcher_unchecked ==
  /\ Next_frame("watch")
  /\ LET w == Head(todo).watcher
     IN  \E value \in BOOLEAN :
           /\ armed_value' = [armed_value EXCEPT ![w] = value]
           /\ todo' = (IF value /\ ~armed_value[w] /\ ~poisoned
                       THEN <<deliver(Watchers[w].event, 1)>> ELSE <<>>) \o Tail(todo)
  /\ UNCHANGED <<life, tick, poisoned, configVars, stamp, watched>>

\* One queued watcher: its state may be gone by now, its condition may fault;
\* else the value (set_var may have changed it at any time) is noted, then a
\* rising edge fires, refused by a poisoned journal.
evaluate_watcher ==
  /\ Next_frame("watch")
  /\ LET w == Head(todo).watcher
         skipped == armed_value' = armed_value /\ todo' = Tail(todo)
         observe(value) ==
           /\ armed_value' = [armed_value EXCEPT ![w] = value]
           /\ todo' = (IF value /\ ~armed_value[w] /\ ~poisoned
                       THEN <<deliver(Watchers[w].event, 1)>> ELSE <<>>) \o Tail(todo)
     IN  \/ skipped
         \/ Watchers[w].state \in active /\ \E value \in BOOLEAN : observe(value)
  /\ UNCHANGED <<life, tick, poisoned, configVars, stamp, watched>>

-----------------------------------------------------------------------------
\* exit_host_machines, in the prepare half of a despawn: every region is marked
\* before any hook runs, then the regions exit, last declared first.
exit_host_machines ==
  /\ Idle /\ life \in {"live", "dying"} /\ ~poisoned
  /\ life' = "dying"
  /\ stamp' = [r \in Region |-> tick]
  /\ todo' = [i \in DOMAIN Regions |-> exit_region(Regions[Len(Regions) - i + 1])]
  /\ UNCHANGED <<tick, poisoned, configVars, watcherVars>>

exit_one_region ==
  /\ Next_frame("exit_region")
  /\ LET top == region_active[Head(todo).region]
     IN  todo' = (IF top = NULL THEN <<>> ELSE Append(exit_state(top), detach(top))) \o Tail(todo)
  /\ UNCHANGED <<life, tick, poisoned, configVars, stamp, watcherVars>>

\* The flush of the same tick despawns the host; machine_live retires the machine.
flush_despawn ==
  /\ Idle /\ life = "dying"
  /\ life' = "dead"
  /\ UNCHANGED <<tick, poisoned, configVars, stamp, todo, watcherVars>>

\* The next tick begins: the counter moves before the journal is asked.
next_tick ==
  /\ Idle /\ life = "live" /\ tick < MaxTick
  /\ tick' = tick + 1
  /\ UNCHANGED <<life, poisoned, configVars, stamp, todo, watcherVars>>

poison ==
  /\ life \in {"live", "dying"} /\ ~poisoned
  /\ poisoned' = TRUE
  /\ UNCHANGED <<life, tick, configVars, stamp, todo, watcherVars>>

-----------------------------------------------------------------------------
ChartInit ==
  /\ life = "none" /\ tick = 0 /\ poisoned = FALSE
  /\ active = {} /\ deactivated = {} /\ seated = {}
  /\ region_active = [r \in Region |-> NULL]
  /\ active_child = [s \in State |-> NULL]
  /\ history_child = [s \in State |-> NULL]
  /\ stamp = [r \in Region |-> kNeverTicked]
  /\ armed_value = [w \in DOMAIN Watchers |-> FALSE]
  /\ watched = 0
  /\ todo = <<>>

\* The chart's own steps: what is on the stack, up to the next slot.
Running ==
  \/ run_initial_entry \/ evaluate_region \/ void_marked_region \/ end_delivery
  \/ exit_active_child \/ deactivate_state \/ unlink_state
  \/ activate_state \/ enter_substate \/ exit_one_region \/ evaluate_watcher

ChartNext ==
  \/ \E deferred \in BOOLEAN : instantiate(deferred)
  \/ start_initial_entry
  \/ \E e \in Event : trigger(e)
  \/ hook_return \/ Running
  \/ run_watchers
  \/ exit_host_machines \/ flush_despawn \/ next_tick \/ poison

ChartSpec == ChartInit /\ [][ChartNext]_chartVars

\* The engine runs what is on the stack, and user code that is called returns.
FairChartSpec == ChartSpec /\ WF_chartVars(Running) /\ SF_chartVars(hook_return)

-----------------------------------------------------------------------------
\* Type invariant.
ChartTypeOK ==
  /\ life \in {"none", "deferred", "live", "dying", "dead", "aborted"}
  /\ tick \in 0 .. MaxTick /\ poisoned \in BOOLEAN
  /\ active \subseteq State /\ deactivated \subseteq State /\ seated \subseteq active
  /\ region_active \in [Region -> State \cup {NULL}]
  /\ active_child \in [State -> State \cup {NULL}]
  /\ history_child \in [State -> State \cup {NULL}]
  /\ stamp \in [Region -> kNeverTicked .. MaxTick]
  /\ Depth <= kMaxCascadeDepth
  /\ armed_value \in [DOMAIN Watchers -> BOOLEAN]

\* Edge semantics: a watcher that has seen its condition hold belongs to an
\* active state ("state exit also re-arms"), also when the exit comes from the
\* very event it fires, and when its state was left before its turn.
ArmedInActiveState ==
  \A w \in DOMAIN Watchers : armed_value[w] => Watchers[w].state \in active

\* "An inactive state ALWAYS owns one scope" (transitions.cpp): whatever runs in
\* the middle of a chain, a state is active exactly when its entity owns no
\* activation scope, and no chain ever meets one in the wrong condition, which
\* would end the process.
OneScopePerInactiveState ==
  /\ life # "aborted"
  /\ life # "none" => deactivated = State \ active

\* A region no chain works in is in one whole configuration: the states it has
\* active are those of its chain, which reaches a leaf; after the exit chains of
\* a despawn it has none.
ConfigurationWhole ==
  /\ ChartTypeOK
  /\ life \in {"deferred", "live"} => \A r \in Region \ InFlight :
       /\ Chain(r) = {s \in active : RegionOf[s] = r}
       /\ Deepest(Chain(r)) # NULL /\ InitialChild[Deepest(Chain(r))] = NULL
  /\ life = "dead" => active = {} /\ region_active = [r \in Region |-> NULL]

\* "One transition per region per tick": a region that was marked in this tick
\* and whose chain has returned is not worked in again before the next tick,
\* by no cascade and no pending initial entry, unless its host dies.
OneChainPerTick ==
  [][\A r \in Region :
       life = "live" /\ marked(r) /\ tick' = tick /\ r \notin InFlight => r \notin InFlight']_chartVars

\* Every state follows its life cycle in the A.2.1 order of its ancestors and
\* substates: components before substates before scripts on the way in, the
\* mirror on the way out, and never a chain across a chain.
Phase(s) ==
  IF s \notin active THEN "out"
  ELSE IF Contains(todo, sleep(s)) THEN "leaving"
  ELSE IF Contains(todo, slot("script_enter", s)) THEN "waking"
  ELSE IF s \in seated THEN "seated" ELSE "in"
Cycle == INSTANCE Lifecycle WITH phase <- [s \in State |-> Phase(s)], born <- life # "none"
HooksInOrder == Cycle!Spec

\* Every cascade comes to its end: "never an infinite loop" (cascade_test.cpp),
\* as long as each hook that is called returns.
CascadeSettles == ~Idle ~> Idle

=============================================================================
