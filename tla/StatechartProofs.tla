--------------------------- MODULE StatechartProofs ---------------------------
(***************************************************************************)
(* Whatever the hooks trigger and wherever they do it, every state owns a  *)
(* scope exactly while it is inactive, and no chain ever meets one in the  *)
(* wrong condition, as long as no hook of an initial entry transitions the *)
(* region that is being entered.                                           *)
(*                                                                         *)
(* The argument is about the call stack.  A region has one chain at a time *)
(* on it, for the chain marked the region; the frames of that chain stand  *)
(* in the order of the recursion, each of them right about the states it   *)
(* is going to touch, given what the frames before it will have done.      *)
(***************************************************************************)
EXTENDS Statechart, SublistProofs

Slots == {"script_exit", "component_exit", "component_enter", "script_enter"}
ExitOps == {"exit_child", "sleep", "detach"}
EnterOps == {"wake", "enter_child"}

Frame ==
  [op : {"deliver"}, event : Event, at : Nat]
    \cup [op : {"initial_entry"}, at : DOMAIN Regions]
    \cup [op : {"exit_region"}, region : Region]
    \cup [op : {"watch"}, watcher : DOMAIN Watchers]
    \cup [op : {"slot"}, name : Slots, state : State]
    \cup [op : ExitOps, state : State]
    \cup [op : EnterOps, state : State, target : State \cup {NULL}, first : BOOLEAN]

TypesRight ==
  /\ life \in {"none", "deferred", "live", "dying", "dead", "aborted"}
  /\ tick \in 0 .. MaxTick /\ poisoned \in BOOLEAN
  /\ active \subseteq State /\ deactivated \subseteq State /\ seated \subseteq active
  /\ region_active \in [Region -> State \cup {NULL}]
  /\ active_child \in [State -> State \cup {NULL}]
  /\ history_child \in [State -> State \cup {NULL}]
  /\ stamp \in [Region -> kNeverTicked .. MaxTick]
  /\ armed_value \in [DOMAIN Watchers -> BOOLEAN]
  /\ todo \in Seq(Frame)

-----------------------------------------------------------------------------
\* The frames of one region's chain, f before g: the active substate leaves
\* before anything sleeps, from the inside out; then the target's side enters,
\* under no state that leaves.  Behind an entry there are only hooks.
InOrder(f, g) ==
  f.op \in ChainOps /\ g.op \in ChainOps /\ RegionOf[f.state] = RegionOf[g.state] =>
    /\ f.op \in EnterOps => g.op = "slot"
    /\ g.op \in {"exit_child", "enter_child"} => f.op = "slot"
    /\ f.op \in ExitOps /\ g.op \in {"sleep", "detach"} =>
         /\ g.state \in Up[f.state]
         /\ g.state = f.state => f.op = "exit_child" \/ (f.op = "sleep" /\ g.op = "detach")
    /\ f.op \in ExitOps /\ g.op = "wake" =>
         Parent[g.state] = NULL \/ f.state \notin Up[Parent[g.state]]

StackInOrder == \A i, j \in DOMAIN todo : i < j => InOrder(todo[i], todo[j])

Holds(f, op, s) == f.op = op /\ f.state = s
Before(i, op, s) == \E k \in DOMAIN todo : k < i /\ Holds(todo[k], op, s)
After(i, op, s) == \E k \in DOMAIN todo : i < k /\ Holds(todo[k], op, s)
Link(s) == Below(RegionOf[s], Parent[s])
Beside(c, s) == Parent[c] = Parent[s] /\ RegionOf[c] = RegionOf[s]

\* What each frame relies on when its turn comes.
ExitRight(i) == todo[i].op = "exit_child" => After(i, "sleep", todo[i].state)

SleepRight(i) ==
  todo[i].op = "sleep" =>
    LET s == todo[i].state IN
    /\ s \in active
    /\ \A c \in active : Parent[c] = s => Before(i, "sleep", c) \/ Before(i, "exit_child", s)
    /\ After(i, "detach", s)
    /\ \/ Parent[s] = NULL /\ life = "dying"
       \/ \E k \in DOMAIN todo : i < k /\ todo[k].op = "wake" /\ Beside(todo[k].state, s)
       \/ Parent[s] # NULL /\ After(i, "sleep", Parent[s])

DetachRight(i) ==
  todo[i].op = "detach" =>
    LET s == todo[i].state IN Link(s) = s /\ (s \in active => Before(i, "sleep", s))

WakeRight(i) ==
  todo[i].op = "wake" /\ ~todo[i].first =>
    LET s == todo[i].state IN
    /\ Parent[s] = NULL \/ Parent[s] \in active
    /\ \A c \in active : Beside(c, s) => Before(i, "sleep", c)

EnterRight(i) ==
  todo[i].op = "enter_child" /\ ~todo[i].first =>
    todo[i].state \in active /\ \A c \in active : Parent[c] # todo[i].state

FirstRight(i) ==
  todo[i].op \in EnterOps /\ todo[i].first => todo[i].target = NULL /\ todo[i].state \in active

StampRight(i) ==
  todo[i].op \in ChainOps =>
    LET mark == stamp[RegionOf[todo[i].state]] IN
    /\ mark \in {tick, kNeverTicked}
    /\ todo[i].op \in ExitOps => mark = tick
    /\ todo[i].op \in EnterOps => (mark = kNeverTicked <=> todo[i].first)

Right(i) ==
  ExitRight(i) /\ SleepRight(i) /\ DetachRight(i) /\ WakeRight(i) /\ EnterRight(i) /\ FirstRight(i)

FramesRight == \A i \in DOMAIN todo : Right(i) /\ StampRight(i)

\* The other frames: an initial entry is at the bottom of the stack, watchers
\* are alone on it, and the exit of a region waits for no chain of its own.
PlacesRight ==
  \A i \in DOMAIN todo :
    /\ todo[i].op = "initial_entry" => i = Len(todo)
    /\ todo[i].op = "watch" => \A j \in DOMAIN todo : i < j => todo[j].op = "watch"
    /\ todo[i].op = "exit_region" =>
         /\ life = "dying"
         /\ \A j \in DOMAIN todo :
              /\ todo[j].op = "exit_region" /\ todo[j].region = todo[i].region => j = i
              /\ todo[j].op \in ChainOps => RegionOf[todo[j].state] # todo[i].region

\* While a region is entered for the first time no event on the stack can
\* transition it.
EntryUndisturbed ==
  ~ReentrantEntry =>
    \A k \in DOMAIN todo : todo[k].op = "deliver" =>
      \A n \in DOMAIN Transitions :
        Transitions[n].event = todo[k].event => RegionOf[Transitions[n].target] \notin Entering

\* The active states of a region are linked from the region down; a link that
\* names an inactive state is about to be cut.
LinksRight ==
  /\ \A r \in Region : region_active[r] # NULL =>
       RegionOf[region_active[r]] = r /\ Parent[region_active[r]] = NULL
  /\ \A s \in State : active_child[s] # NULL => Parent[active_child[s]] = s
  /\ \A s \in State : history_child[s] # NULL => Parent[history_child[s]] = s
  /\ \A s \in active : Link(s) = s /\ (Parent[s] = NULL \/ Parent[s] \in active)
  /\ \A s \in State : Link(s) = s => s \in active \/ After(0, "detach", s)

\* A region that was never marked is in its initial configuration.
UnmarkedRight ==
  life # "none" =>
    \A r \in Region : stamp[r] = kNeverTicked =>
      /\ Initial[r] \in active
      /\ \A s \in active : RegionOf[s] = r /\ InitialChild[s] # NULL => InitialChild[s] \in active
      /\ \A s \in State : RegionOf[s] = r => history_child[s] = NULL

\* What an active configuration lacks is on the stack.
Lacking ==
  /\ \A s \in active :
       \/ InitialChild[s] = NULL
       \/ \E c \in active : Parent[c] = s
       \/ After(0, "sleep", s) \/ After(0, "enter_child", s)
       \/ \E k \in DOMAIN todo : todo[k].op = "wake" /\ Parent[todo[k].state] = s
  /\ life \in {"deferred", "live"} => \A r \in Region :
       \/ \E s \in active : RegionOf[s] = r /\ Parent[s] = NULL
       \/ \E k \in DOMAIN todo : /\ todo[k].op = "wake"
                                 /\ RegionOf[todo[k].state] = r /\ Parent[todo[k].state] = NULL

\* The machine's own life.
LifeRight ==
  /\ life # "aborted"
  /\ life # "none" => deactivated = State \ active
  /\ life \in {"none", "deferred", "dead"} => todo = <<>>
  /\ life \in {"none", "dead"} => active = {} /\ \A s \in State : Link(s) # s
  /\ life = "none" => \A s \in State : history_child[s] = NULL
  /\ life = "dying" =>
       /\ \A r \in Region : stamp[r] = tick
       /\ \A i \in DOMAIN todo : todo[i].op \notin EnterOps
       /\ \A s \in active : Parent[s] = NULL =>
            \/ After(0, "sleep", s)
            \/ \E i \in DOMAIN todo : todo[i].op = "exit_region" /\ todo[i].region = RegionOf[s]

ChartInv ==
  /\ TypesRight /\ StackInOrder /\ FramesRight /\ PlacesRight /\ EntryUndisturbed
  /\ LinksRight /\ UnmarkedRight /\ Lacking /\ LifeRight

-----------------------------------------------------------------------------
\* The states are trees: what holds of a state as soon as it holds of its
\* parent holds of every state.
LEMMA TreeInduction ==
  ASSUME NEW S \in SUBSET State,
         \A s \in State : Parent[s] = NULL \/ Parent[s] \in S => s \in S
  PROVE  S = State
<1>1. ASSUME State \ S # {} PROVE FALSE
  <2>1. State \ S \in SUBSET State
    OBVIOUS
  <2>2. PICK s \in State \ S : Parent[s] \notin State \ S
    BY <1>1, <2>1, ChartAssumption
  <2>3. Parent[s] \in State \cup {NULL}
    BY ChartAssumption
  <2>. QED BY <2>2, <2>3
<1>. QED BY <1>1

LEMMA ParentType ==
  ASSUME NEW s \in State
  PROVE  /\ Parent[s] \in State \cup {NULL} /\ NULL \notin State
         /\ Parent[s] # NULL => Parent[s] \in State /\ RegionOf[Parent[s]] = RegionOf[s]
         /\ RegionOf[s] \in Region
  BY ChartAssumption

\* Up is the least set that holds the state and the parents of its members.
LEMMA UpDef ==
  ASSUME NEW s \in State
  PROVE  Up[s] = {s} \cup (IF Parent[s] = NULL THEN {} ELSE Up[Parent[s]])
<1> DEFINE closed(S) == \A u \in S : Parent[u] # NULL => Parent[u] \in S
           least(u) == {x \in State : \A S \in SUBSET State : u \in S /\ closed(S) => x \in S}
           f == [u \in State |-> least(u)]
<1>1. ASSUME NEW u \in State
      PROVE  least(u) = {u} \cup (IF Parent[u] = NULL THEN {} ELSE least(Parent[u]))
  <2>1. CASE Parent[u] = NULL
    <3>1. {u} \in SUBSET State /\ closed({u})
      BY <2>1
    <3>2. \A x \in least(u) : x \in {u}
      BY <3>1
    <3>3. u \in least(u)
      OBVIOUS
    <3>. QED BY <2>1, <3>2, <3>3
  <2>2. CASE Parent[u] # NULL
    <3> DEFINE T == {u} \cup least(Parent[u])
    <3>1. Parent[u] \in State
      BY <2>2, ParentType
    <3>2. T \in SUBSET State
      OBVIOUS
    <3>3. closed(T)
      <4>1. SUFFICES ASSUME NEW x \in T, Parent[x] # NULL PROVE Parent[x] \in T
        OBVIOUS
      <4>2. CASE x = u
        BY <3>1, <4>2
      <4>3. CASE x \in least(Parent[u])
        <5>1. x \in State /\ Parent[x] \in State
          BY <4>1, <4>3, ParentType
        <5>2. ASSUME NEW S \in SUBSET State, Parent[u] \in S, closed(S) PROVE Parent[x] \in S
          BY <4>1, <4>3, <5>2
        <5>. QED BY <5>1, <5>2
      <4>. QED BY <4>2, <4>3
    <3>4. least(u) \subseteq T
      BY <3>2, <3>3
    <3>5. ASSUME NEW x \in T PROVE x \in least(u)
      <4>1. CASE x = u
        BY <4>1
      <4>2. CASE x \in least(Parent[u])
        <5>1. ASSUME NEW S \in SUBSET State, u \in S, closed(S) PROVE x \in S
          <6>1. Parent[u] \in S
            BY <2>2, <5>1
          <6>. QED BY <4>2, <5>1, <6>1
        <5>. QED BY <4>2, <5>1
      <4>. QED BY <4>1, <4>2
    <3>. QED BY <2>2, <3>4, <3>5
  <2>. QED BY <2>1, <2>2
<1>. HIDE DEF least
<1>2. f = [u \in State |-> {u} \cup (IF Parent[u] = NULL THEN {} ELSE f[Parent[u]])]
  <2>1. ASSUME NEW u \in State
        PROVE  f[u] = {u} \cup (IF Parent[u] = NULL THEN {} ELSE f[Parent[u]])
    BY <1>1, ParentType
  <2>. QED BY <2>1
<1>. HIDE DEF f
<1>3. Up = [u \in State |-> {u} \cup (IF Parent[u] = NULL THEN {} ELSE Up[Parent[u]])]
  BY <1>2 DEF Up
<1>. QED BY <1>3

LEMMA UpClosed ==
  \A s \in State : /\ Up[s] \in SUBSET State /\ s \in Up[s]
                   /\ \A u \in Up[s] : RegionOf[u] = RegionOf[s] /\ Up[u] \subseteq Up[s]
<1> DEFINE S == {s \in State : /\ Up[s] \in SUBSET State /\ s \in Up[s]
                               /\ \A u \in Up[s] : RegionOf[u] = RegionOf[s] /\ Up[u] \subseteq Up[s]}
<1>1. ASSUME NEW s \in State, Parent[s] = NULL \/ Parent[s] \in S PROVE s \in S
  <2>1. CASE Parent[s] = NULL
    BY <2>1, UpDef
  <2>2. CASE Parent[s] # NULL
    <3>1. /\ Up[s] = {s} \cup Up[Parent[s]] /\ RegionOf[Parent[s]] = RegionOf[s]
          /\ Parent[s] \in S
      BY <1>1, <2>2, UpDef, ParentType
    <3>. QED BY <3>1
  <2>. QED BY <2>1, <2>2
<1>2. S = State
  <2>. HIDE DEF S
  <2>1. S \in SUBSET State
    BY DEF S
  <2>. QED BY <1>1, <2>1, TreeInduction
<1>. QED BY <1>2

LEMMA ParentUp ==
  ASSUME NEW s \in State, NEW u \in Up[s]
  PROVE  /\ u \in State /\ (Parent[u] # NULL => Parent[u] \in Up[s] /\ Parent[u] \in State)
         /\ u = s \/ (Parent[s] # NULL /\ u \in Up[Parent[s]])
<1>1. u \in State /\ Up[u] \subseteq Up[s]
  BY UpClosed
<1>2. Parent[u] # NULL => Parent[u] \in Up[u]
  BY <1>1, UpDef, UpClosed, ParentType
<1>. QED BY <1>1, <1>2, UpDef, UpClosed, ParentType

\* A state is not above its own parent, and two states are not above each other.
LEMMA UpAcyclic ==
  /\ \A s \in State : Parent[s] # NULL => s \notin Up[Parent[s]]
  /\ \A s \in State, u \in State : s \in Up[u] /\ u \in Up[s] => s = u
<1>1. ASSUME NEW s \in State, Parent[s] # NULL, s \in Up[Parent[s]] PROVE FALSE
  <2> DEFINE Cycle0 == {u \in Up[Parent[s]] : s \in Up[u]}
  <2>1. Parent[s] \in State /\ Cycle0 \in SUBSET State /\ Cycle0 # {}
    BY <1>1, ParentType, UpClosed
  <2>2. PICK u \in Cycle0 : Parent[u] \notin Cycle0
    BY <2>1, ChartAssumption
  <2>3. u \in State /\ s \in Up[u] /\ u \in Up[Parent[s]]
    BY <2>1, <2>2
  <2>4. CASE u = s
    <3>1. Parent[s] \in Up[Parent[s]]
      BY <2>1, UpClosed
    <3>. QED BY <1>1, <2>2, <2>4, <3>1
  <2>5. CASE u # s
    <3>1. Parent[u] # NULL /\ s \in Up[Parent[u]]
      BY <2>3, <2>5, ParentUp
    <3>2. Parent[u] \in Up[Parent[s]]
      BY <2>1, <2>3, <3>1, ParentUp
    <3>. QED BY <2>2, <3>1, <3>2
  <2>. QED BY <2>4, <2>5
<1>2. ASSUME NEW s \in State, NEW u \in State, s \in Up[u], u \in Up[s], s # u PROVE FALSE
  <2>1. Parent[s] # NULL /\ u \in Up[Parent[s]] /\ Parent[s] \in State
    BY <1>2, ParentUp, ParentType
  <2>2. Up[u] \subseteq Up[Parent[s]]
    BY <2>1, UpClosed
  <2>. QED BY <1>1, <1>2, <2>1, <2>2
<1>. QED BY <1>1, <1>2

\* Between a state and one above it there is a child of the latter, and the
\* top of its tree is above it.
LEMMA TowardRight ==
  ASSUME NEW t \in State, NEW a \in State \cup {NULL},
         a = NULL \/ (a # t /\ a \in Up[t])
  PROVE  /\ Toward(a, t) \in Up[t] /\ Toward(a, t) \in State /\ Parent[Toward(a, t)] = a
         /\ RegionOf[Toward(a, t)] = RegionOf[t]
<1> DEFINE S == {s \in State : \A b \in (Up[s] \ {s}) \cup {NULL} : \E x \in Up[s] : Parent[x] = b}
<1>1. ASSUME NEW s \in State, Parent[s] = NULL \/ Parent[s] \in S PROVE s \in S
  <2>1. CASE Parent[s] = NULL
    BY <2>1, UpDef
  <2>2. CASE Parent[s] # NULL
    <3>1. Up[s] = {s} \cup Up[Parent[s]] /\ Parent[s] \in S
      BY <1>1, <2>2, UpDef
    <3>2. ASSUME NEW b \in (Up[s] \ {s}) \cup {NULL} PROVE \E x \in Up[s] : Parent[x] = b
      <4>1. CASE b = Parent[s]
        BY <3>1, <4>1
      <4>2. CASE b # Parent[s]
        BY <3>1, <4>2
      <4>. QED BY <4>1, <4>2
    <3>. QED BY <3>2
  <2>. QED BY <2>1, <2>2
<1>2. S = State
  <2>. HIDE DEF S
  <2>1. S \in SUBSET State
    BY DEF S
  <2>. QED BY <1>1, <2>1, TreeInduction
<1>3. \E x \in Up[t] : Parent[x] = a
  BY <1>2
<1>4. Toward(a, t) \in Up[t] /\ Parent[Toward(a, t)] = a
  BY <1>3 DEF Toward
<1>. QED BY <1>4, UpClosed

\* A set of states closed under parents without two states side by side is one
\* path, and its deepest state is the end of it.
LEMMA DeepestRight ==
  ASSUME NEW S \in SUBSET State, S # {},
         \A s \in S : Parent[s] = NULL \/ Parent[s] \in S,
         \A s \in S, u \in S : RegionOf[s] = RegionOf[u] /\ (Beside(s, u) => s = u)
  PROVE  /\ Deepest(S) \in S /\ S \subseteq Up[Deepest(S)]
         /\ \A c \in S : Parent[c] # Deepest(S)
<1> DEFINE size(s) == Cardinality(Up[s])
           room == {Cardinality(State) - size(s) : s \in S}
<1>1. ASSUME NEW s \in State PROVE IsFiniteSet(Up[s]) /\ size(s) \in Nat /\ size(s) <= Cardinality(State)
  <2>1. Up[s] \in SUBSET State /\ IsFiniteSet(State)
    BY UpClosed, ChartAssumption
  <2>. QED BY <2>1, FS_Subset, FS_CardinalityType
<1>2. Cardinality(State) \in Nat
  BY ChartAssumption, FS_CardinalityType
<1>3. PICK s \in S : \A u \in S : size(u) <= size(s)
  <2>. HIDE DEF size
  <2>1. room \in SUBSET Nat /\ room # {}
    BY <1>1, <1>2
  <2>2. PICK m \in room : \A n \in room : m <= n
    BY <2>1, LeastOf
  <2>3. PICK s \in S : m = Cardinality(State) - size(s)
    BY <2>2
  <2>4. ASSUME NEW u \in S PROVE size(u) <= size(s)
    <3>1. m <= Cardinality(State) - size(u)
      BY <2>2
    <3>. QED BY <1>1, <1>2, <2>3, <3>1
  <2>. QED BY <2>4
<1>4. ASSUME NEW c \in S, Parent[c] = s PROVE FALSE
  <2>1. c \in State /\ s \in State /\ s # NULL
    BY ParentType
  <2>2. Up[c] = Up[s] \cup {c} /\ c \notin Up[s]
    BY <1>4, <2>1, UpDef, UpAcyclic
  <2>3. size(c) = size(s) + 1
    BY <1>1, <2>1, <2>2, FS_AddElement
  <2>. QED BY <1>1, <1>3, <2>1, <2>3
<1>5. Up[s] \subseteq S
  <2> DEFINE T == {u \in State : u \in S => Up[u] \subseteq S}
  <2>1. ASSUME NEW u \in State, Parent[u] = NULL \/ Parent[u] \in T PROVE u \in T
    BY <2>1, UpDef
  <2>2. T = State
    <3>. HIDE DEF T
    <3>1. T \in SUBSET State
      BY DEF T
    <3>. QED BY <2>1, <3>1, TreeInduction
  <2>. QED BY <2>2
<1>6. S \subseteq Up[s]
  <2> DEFINE T == {u \in State : u \in S => u \in Up[s]}
  <2>1. ASSUME NEW u \in State, Parent[u] = NULL \/ Parent[u] \in T PROVE u \in T
    <3>1. SUFFICES ASSUME u \in S PROVE u \in Up[s]
      OBVIOUS
    <3>2. s \in State /\ Parent[u] \in State \cup {NULL}
      BY ParentType
    <3>3. Parent[u] = NULL \/ (Parent[u] # s /\ Parent[u] \in Up[s])
      BY <1>4, <2>1, <3>1
    <3>4. Toward(Parent[u], s) \in Up[s] /\ Parent[Toward(Parent[u], s)] = Parent[u]
      BY <3>2, <3>3, TowardRight
    <3>5. Toward(Parent[u], s) \in S
      BY <1>5, <3>4
    <3>6. Beside(u, Toward(Parent[u], s))
      BY <3>1, <3>4, <3>5 DEF Beside
    <3>. QED BY <3>1, <3>4, <3>5, <3>6
  <2>2. T = State
    <3>. HIDE DEF T
    <3>1. T \in SUBSET State
      BY DEF T
    <3>. QED BY <2>1, <3>1, TreeInduction
  <2>. QED BY <2>2
<1>7. Deepest(S) \in S /\ S \subseteq Up[Deepest(S)]
  BY <1>6 DEF Deepest
<1>8. ASSUME NEW c \in S, Parent[c] = Deepest(S) PROVE FALSE
  <2>1. c \in State /\ Parent[c] # NULL /\ c \in Up[Parent[c]]
    BY <1>7, <1>8, ParentType
  <2>. QED BY <2>1, UpAcyclic
<1>. QED BY <1>7, <1>8

-----------------------------------------------------------------------------
\* What the frames carry.
LEMMA FrameFacts ==
  ASSUME NEW f \in Frame
  PROVE  /\ f.op \in ChainOps => f.state \in State
         /\ f.op \in EnterOps => f.target \in State \cup {NULL} /\ f.first \in BOOLEAN
         /\ f.op = "deliver" => f.event \in Event /\ f.at \in Nat
         /\ f.op = "initial_entry" => f.at \in DOMAIN Regions
         /\ f.op = "exit_region" => f.region \in Region
         /\ f.op = "watch" => f.watcher \in DOMAIN Watchers
         /\ f.op \in ChainOps \cup {"deliver", "initial_entry", "exit_region", "watch"}
  BY DEF Frame, ChainOps, EnterOps, ExitOps

LEMMA FrameTypes ==
  ASSUME NEW s \in State
  PROVE  /\ \A t \in State \cup {NULL}, b \in BOOLEAN :
              wake(s, t, b) \in Frame /\ enter_child(s, t, b) \in Frame
         /\ \A name \in Slots : slot(name, s) \in Frame
         /\ exit_child(s) \in Frame /\ sleep(s) \in Frame /\ detach(s) \in Frame
  BY DEF Frame, EnterOps, ExitOps, wake, enter_child, slot, exit_child, sleep, detach

\* The stack after a step: new frames in front of those that stay.
LEMMA Pushed ==
  ASSUME NEW new \in Seq(Frame), NEW rest \in Seq(Frame)
  PROVE  /\ new \o rest \in Seq(Frame) /\ Len(new \o rest) = Len(new) + Len(rest)
         /\ Len(new) \in Nat /\ Len(rest) \in Nat
         /\ DOMAIN (new \o rest) = 1 .. Len(new) + Len(rest)
         /\ \A k \in 1 .. Len(new) : (new \o rest)[k] = new[k]
         /\ \A k \in 1 .. Len(rest) : (new \o rest)[Len(new) + k] = rest[k]
         /\ \A k \in Len(new) + 1 .. Len(new) + Len(rest) : (new \o rest)[k] = rest[k - Len(new)]
  OBVIOUS

LEMMA Popped ==
  ASSUME TypesRight, ~Idle
  PROVE  /\ Head(todo) = todo[1] /\ todo[1] \in Frame /\ Len(todo) \in Nat \ {0}
         /\ DOMAIN todo = 1 .. Len(todo) /\ 1 \in DOMAIN todo
         /\ Tail(todo) \in Seq(Frame) /\ Len(Tail(todo)) = Len(todo) - 1
         /\ \A k \in 1 .. Len(todo) - 1 : Tail(todo)[k] = todo[k + 1]
<1>1. todo \in Seq(Frame) /\ todo # <<>>
  BY DEF TypesRight, Idle
<1>. QED BY <1>1

-----------------------------------------------------------------------------
\* A step takes the first d frames off the stack and puts new ones on it.
Moves(new, d) ==
  /\ new \in Seq(Frame) /\ d \in {0, 1} /\ d <= Len(todo)
  /\ todo' \in Seq(Frame) /\ DOMAIN todo' = 1 .. Len(new) + Len(todo) - d
  /\ Len(todo') = Len(new) + Len(todo) - d
  /\ Len(new) \in Nat /\ DOMAIN new = 1 .. Len(new)
  /\ Len(todo) \in Nat /\ DOMAIN todo = 1 .. Len(todo)
  /\ \A k \in DOMAIN new : k \in DOMAIN todo' /\ todo'[k] = new[k]
  /\ \A k \in DOMAIN todo : k > d =>
       k + Len(new) - d \in DOMAIN todo' /\ todo'[k + Len(new) - d] = todo[k]
  /\ \A k \in DOMAIN todo' : k > Len(new) =>
       k - Len(new) + d \in DOMAIN todo /\ todo'[k] = todo[k - Len(new) + d]

LEMMA MovesHead ==
  ASSUME TypesRight, ~Idle, NEW new \in Seq(Frame), todo' = new \o Tail(todo)
  PROVE  Moves(new, 1)
<1>1. /\ Len(todo) \in Nat \ {0} /\ DOMAIN todo = 1 .. Len(todo)
      /\ Tail(todo) \in Seq(Frame) /\ Len(Tail(todo)) = Len(todo) - 1
      /\ \A k \in 1 .. Len(todo) - 1 : Tail(todo)[k] = todo[k + 1]
  BY Popped
<1>2. PICK rest \in Seq(Frame) : rest = Tail(todo)
  BY <1>1
<1>3. /\ todo' \in Seq(Frame) /\ Len(todo') = Len(new) + Len(rest)
      /\ Len(new) \in Nat /\ Len(rest) \in Nat
      /\ DOMAIN todo' = 1 .. Len(new) + Len(rest)
      /\ \A k \in 1 .. Len(new) : todo'[k] = new[k]
      /\ \A k \in 1 .. Len(rest) : todo'[Len(new) + k] = rest[k]
      /\ \A k \in Len(new) + 1 .. Len(new) + Len(rest) : todo'[k] = rest[k - Len(new)]
  BY <1>2, Pushed
<1>4. Len(rest) = Len(todo) - 1 /\ \A k \in 1 .. Len(todo) - 1 : rest[k] = todo[k + 1]
  BY <1>1, <1>2
<1>5. DOMAIN new = 1 .. Len(new)
  OBVIOUS
<1> HIDE DEF Idle
<1>6. \A k \in DOMAIN todo : k > 1 =>
        k + Len(new) - 1 \in DOMAIN todo' /\ todo'[k + Len(new) - 1] = todo[k]
  <2>1. SUFFICES ASSUME NEW k \in DOMAIN todo, k > 1
                 PROVE  k + Len(new) - 1 \in DOMAIN todo' /\ todo'[k + Len(new) - 1] = todo[k]
    OBVIOUS
  <2>2. k - 1 \in 1 .. Len(rest) /\ Len(new) + (k - 1) = k + Len(new) - 1
    BY <1>1, <1>3, <1>4, <2>1
  <2>3. todo'[Len(new) + (k - 1)] = rest[k - 1]
    BY <1>3, <2>2
  <2>4. rest[k - 1] = todo[k]
    <3>1. k - 1 \in 1 .. Len(todo) - 1 /\ (k - 1) + 1 = k
      BY <1>1, <2>1
    <3>2. rest[k - 1] = todo[(k - 1) + 1]
      BY <1>4, <3>1
    <3>. QED BY <3>1, <3>2
  <2>5. k + Len(new) - 1 \in DOMAIN todo'
    BY <1>1, <1>3, <1>4, <2>1
  <2>. QED BY <2>2, <2>3, <2>4, <2>5
<1>7. \A k \in DOMAIN todo' : k > Len(new) =>
        k - Len(new) + 1 \in DOMAIN todo /\ todo'[k] = todo[k - Len(new) + 1]
  <2>1. SUFFICES ASSUME NEW k \in DOMAIN todo', k > Len(new)
                 PROVE  k - Len(new) + 1 \in DOMAIN todo /\ todo'[k] = todo[k - Len(new) + 1]
    OBVIOUS
  <2>2. k \in Len(new) + 1 .. Len(new) + Len(rest) /\ k - Len(new) \in 1 .. Len(todo) - 1
    BY <1>1, <1>3, <1>4, <2>1
  <2>. QED BY <1>1, <1>3, <1>4, <2>2
<1>8. \A k \in DOMAIN new : k \in DOMAIN todo' /\ todo'[k] = new[k]
  BY <1>1, <1>3, <1>4, <1>5
<1>9. /\ todo' \in Seq(Frame) /\ DOMAIN todo' = 1 .. Len(new) + Len(todo) - 1
      /\ Len(todo') = Len(new) + Len(todo) - 1
      /\ Len(todo) \in Nat /\ 1 <= Len(todo) /\ 1 \in {0, 1}
  <2>1. Len(new) + (Len(todo) - 1) = Len(new) + Len(todo) - 1
    BY <1>1, <1>3
  <2>2. Len(todo) \in Nat /\ 1 <= Len(todo) /\ 1 \in {0, 1}
    BY <1>1
  <2>. QED BY <1>3, <1>4, <2>1, <2>2
<1>10. Len(new) \in Nat /\ DOMAIN todo = 1 .. Len(todo)
  BY <1>1, <1>3
<1>. QED BY <1>5, <1>6, <1>7, <1>8, <1>9, <1>10, Zenon DEF Moves

LEMMA MovesFront ==
  ASSUME TypesRight, NEW new \in Seq(Frame), todo' = new \o todo
  PROVE  Moves(new, 0)
<1>1. /\ todo \in Seq(Frame) /\ Len(todo) \in Nat /\ DOMAIN todo = 1 .. Len(todo)
      /\ DOMAIN new = 1 .. Len(new)
  BY DEF TypesRight
<1>2. /\ todo' \in Seq(Frame) /\ Len(todo') = Len(new) + Len(todo)
      /\ Len(new) \in Nat
      /\ DOMAIN todo' = 1 .. Len(new) + Len(todo)
      /\ \A k \in 1 .. Len(new) : todo'[k] = new[k]
      /\ \A k \in 1 .. Len(todo) : todo'[Len(new) + k] = todo[k]
      /\ \A k \in Len(new) + 1 .. Len(new) + Len(todo) : todo'[k] = todo[k - Len(new)]
  BY <1>1, Pushed
<1>3. \A k \in DOMAIN todo : k > 0 =>
        k + Len(new) - 0 \in DOMAIN todo' /\ todo'[k + Len(new) - 0] = todo[k]
  <2>1. ASSUME NEW k \in DOMAIN todo PROVE Len(new) + k = k + Len(new) - 0 /\ k + Len(new) - 0 \in DOMAIN todo'
    BY <1>1, <1>2
  <2>. QED BY <1>1, <1>2, <2>1
<1>4. \A k \in DOMAIN todo' : k > Len(new) =>
        k - Len(new) + 0 \in DOMAIN todo /\ todo'[k] = todo[k - Len(new) + 0]
  <2>1. ASSUME NEW k \in DOMAIN todo', k > Len(new)
        PROVE  k - Len(new) = k - Len(new) + 0 /\ k - Len(new) + 0 \in DOMAIN todo
    BY <1>1, <1>2, <2>1
  <2>. QED BY <1>1, <1>2, <2>1
<1>5. \A k \in DOMAIN new : k \in DOMAIN todo' /\ todo'[k] = new[k]
  BY <1>1, <1>2
<1>. QED BY <1>1, <1>2, <1>3, <1>4, <1>5 DEF Moves

\* Where a frame of the new stack comes from.
LEMMA Origin ==
  ASSUME NEW new, NEW d, Moves(new, d)
  PROVE  /\ \A k \in DOMAIN todo' : k \in DOMAIN new \/ \E j \in DOMAIN todo : j > d /\ k = j + Len(new) - d
         /\ \A j \in DOMAIN todo : j > d =>
              j + Len(new) - d > Len(new) /\ j + Len(new) - d \in DOMAIN todo'
         /\ \A i, j \in DOMAIN todo : i < j <=> i + Len(new) - d < j + Len(new) - d
         /\ \A j \in DOMAIN todo, k \in DOMAIN new : j > d => k < j + Len(new) - d
         /\ \A j \in DOMAIN todo, k \in DOMAIN new : j > d => ~(j + Len(new) - d < k)
         /\ Len(todo) = d => Len(new) = Len(todo')
         /\ Len(todo) + Len(new) - d = Len(todo')
<1>1. /\ d \in {0, 1} /\ Len(new) \in Nat /\ DOMAIN new = 1 .. Len(new)
      /\ Len(todo) \in Nat /\ DOMAIN todo = 1 .. Len(todo)
      /\ DOMAIN todo' = 1 .. Len(new) + Len(todo) - d
  BY DEF Moves
<1>2. ASSUME NEW k \in DOMAIN todo', k \notin DOMAIN new
      PROVE  \E j \in DOMAIN todo : j > d /\ k = j + Len(new) - d
  <2>1. /\ k - Len(new) + d \in DOMAIN todo /\ k - Len(new) + d > d
        /\ k = (k - Len(new) + d) + Len(new) - d
    BY <1>1, <1>2
  <2>. QED BY <2>1
<1>3. \A j \in DOMAIN todo : j > d =>
        j + Len(new) - d > Len(new) /\ j + Len(new) - d \in DOMAIN todo'
  BY <1>1
<1>4. \A i, j \in DOMAIN todo : i < j <=> i + Len(new) - d < j + Len(new) - d
  BY <1>1
<1>5. ASSUME NEW j \in DOMAIN todo, NEW k \in DOMAIN new, j > d
      PROVE  k < j + Len(new) - d /\ ~(j + Len(new) - d < k)
  <2>1. j \in 1 .. Len(todo) /\ k \in 1 .. Len(new)
    BY <1>1
  <2>. QED BY <1>1, <1>5, <2>1
<1>6. (Len(todo) = d => Len(new) = Len(todo')) /\ Len(todo) + Len(new) - d = Len(todo')
  <2>1. Len(todo') = Len(new) + Len(todo) - d
    BY DEF Moves
  <2>2. Len(new) \in Int /\ Len(todo) \in Int /\ d \in Int
    BY <1>1
  <2>. QED BY <2>1, <2>2
<1>. QED BY <1>2, <1>3, <1>4, <1>5, <1>6

\* How many deliveries are nested.
LEMMA DepthType ==
  ASSUME TypesRight
  PROVE  Depth \in Nat /\ IsFiniteSet({i \in DOMAIN todo : todo[i].op = "deliver"})
<1>1. todo \in Seq(Frame)
  BY DEF TypesRight
<1>2. IsFiniteSet(DOMAIN todo)
  <2>1. DOMAIN todo = 1 .. Len(todo) /\ Len(todo) \in Nat
    BY <1>1
  <2>. QED BY <2>1, FS_Interval
<1>3. IsFiniteSet({i \in DOMAIN todo : todo[i].op = "deliver"})
  BY <1>2, FS_Subset
<1>. QED BY <1>3, FS_CardinalityType DEF Depth

NoDeeper == Depth' \in Nat /\ Depth' <= Depth

LEMMA DepthMoves ==
  ASSUME TypesRight, NEW new, NEW d, Moves(new, d), NEW p,
         \A k \in DOMAIN new : new[k].op = "deliver" => k = p
  PROVE  /\ Depth \in Nat /\ Depth' \in Nat /\ Depth' <= Depth + 1
         /\ d = 1 /\ todo[1].op = "deliver" => NoDeeper
         /\ (\A k \in DOMAIN new : new[k].op # "deliver") => NoDeeper
<1>1. PICK D, E : D = {i \in DOMAIN todo : todo[i].op = "deliver"}
                  /\ E = {i \in DOMAIN todo' : todo'[i].op = "deliver"}
  OBVIOUS
<1>2. Depth = Cardinality(D) /\ Depth' = Cardinality(E)
  BY <1>1 DEF Depth
<1>3. IsFiniteSet(D) /\ Cardinality(D) \in Nat
  BY <1>1, <1>2, DepthType
<1>4. PICK m : m = Len(new) /\ m \in Nat /\ d \in {0, 1}
  BY DEF Moves
<1>5. PICK D1, E1 : D1 = {i \in D : i > d} /\ E1 = {i \in E : i > m}
  OBVIOUS
<1>6. DOMAIN todo \in SUBSET Int /\ DOMAIN todo' \in SUBSET Int
  BY DEF Moves
<1> DEFINE f == [i \in E1 |-> i - m + d]
<1>7. f \in Injection(E1, D1)
  <2>1. ASSUME NEW i \in E1 PROVE i - m + d \in D1
    <3>1. i \in DOMAIN todo' /\ i > m /\ todo'[i].op = "deliver" /\ i \in Int
      BY <1>1, <1>5, <1>6
    <3>2. i - m + d \in DOMAIN todo /\ todo'[i] = todo[i - m + d]
      BY <1>4, <3>1 DEF Moves
    <3>3. i - m + d > d
      BY <1>4, <3>1
    <3>. QED BY <1>1, <1>5, <3>1, <3>2, <3>3
  <2>2. ASSUME NEW i \in E1, NEW j \in E1, i - m + d = j - m + d PROVE i = j
    <3>1. i \in Int /\ j \in Int
      BY <1>1, <1>5, <1>6
    <3>. QED BY <1>4, <2>2, <3>1
  <2>. QED BY <2>1, <2>2 DEF Injection, IsInjective
<1>. HIDE DEF f
<1>8. /\ IsFiniteSet(D1) /\ Cardinality(D1) \in Nat /\ Cardinality(D1) <= Cardinality(D)
      /\ IsFiniteSet(E1) /\ Cardinality(E1) \in Nat /\ Cardinality(E1) <= Cardinality(D1)
  <2>1. IsFiniteSet(D1) /\ Cardinality(D1) <= Cardinality(D)
    BY <1>3, <1>5, FS_Subset
  <2>2. IsFiniteSet(E1) /\ Cardinality(E1) <= Cardinality(D1)
    BY <1>7, <2>1, FS_Injection
  <2>. QED BY <2>1, <2>2, FS_CardinalityType
<1>9. ASSUME NEW i \in E, i \notin E1 PROVE i \in DOMAIN new /\ new[i].op = "deliver"
  <2>1. i \in DOMAIN todo' /\ i \in Int /\ ~(i > m) /\ todo'[i].op = "deliver"
    BY <1>1, <1>5, <1>6, <1>9
  <2>2. i \in DOMAIN new
    BY <1>4, <2>1 DEF Moves
  <2>. QED BY <2>1, <2>2 DEF Moves
<1>10. /\ IsFiniteSet(E1 \cup {p}) /\ Cardinality(E1 \cup {p}) \in Nat
       /\ Cardinality(E1 \cup {p}) <= Cardinality(E1) + 1
  <2>1. IsFiniteSet(E1 \cup {p}) /\ Cardinality(E1 \cup {p}) \in {Cardinality(E1), Cardinality(E1) + 1}
    BY <1>8, FS_AddElement
  <2>. QED BY <1>8, <2>1
<1>11. E \subseteq E1 \cup {p}
  BY <1>9
<1>12. Cardinality(E) \in Nat /\ Cardinality(E) <= Cardinality(E1) + 1
  <2>1. IsFiniteSet(E) /\ Cardinality(E) <= Cardinality(E1 \cup {p})
    BY <1>10, <1>11, FS_Subset
  <2>2. Cardinality(E) \in Nat
    BY <2>1, FS_CardinalityType
  <2>. QED BY <1>8, <1>10, <2>1, <2>2
<1>13. ASSUME d = 1, todo[1].op = "deliver" PROVE NoDeeper
  <2>1. 1 \in D
    BY <1>1, <1>13 DEF Moves
  <2>2. D1 = D \ {1}
    <3>1. \A i \in D : i > 1 <=> i # 1
      <4>1. D \in SUBSET (1 .. Len(todo))
        BY <1>1 DEF Moves
      <4>. QED BY <4>1
    <3>. QED BY <1>5, <1>13, <3>1
  <2>3. Cardinality(D1) = Cardinality(D) - 1
    BY <1>3, <2>1, <2>2, FS_RemoveElement
  <2>. QED BY <1>2, <1>3, <1>8, <1>12, <2>3 DEF NoDeeper
<1>14. ASSUME \A k \in DOMAIN new : new[k].op # "deliver" PROVE NoDeeper
  <2>1. E = E1
    BY <1>5, <1>9, <1>14
  <2>. QED BY <1>2, <1>3, <1>8, <2>1 DEF NoDeeper
<1>15. Depth' <= Depth + 1
  BY <1>2, <1>3, <1>8, <1>12
<1>. QED BY <1>2, <1>3, <1>12, <1>13, <1>14, <1>15

\* No delivery is left.
LEMMA DepthZero ==
  ASSUME TypesRight, \A i \in DOMAIN todo' : todo'[i].op # "deliver"
  PROVE  NoDeeper
<1>1. {i \in DOMAIN todo' : todo'[i].op = "deliver"} = {}
  OBVIOUS
<1>2. Depth' = 0
  BY <1>1, FS_EmptySet DEF Depth
<1>. QED BY <1>2, DepthType DEF NoDeeper

LEMMA OrderKept ==
  ASSUME StackInOrder, NEW new, NEW d, Moves(new, d),
         \A i, j \in DOMAIN new : i < j => InOrder(new[i], new[j]),
         \A i \in DOMAIN new, j \in DOMAIN todo : j > d => InOrder(new[i], todo[j])
  PROVE  StackInOrder'
<1>1. SUFFICES ASSUME NEW i \in DOMAIN todo', NEW j \in DOMAIN todo', i < j
               PROVE  InOrder(todo'[i], todo'[j])
  BY DEF StackInOrder, InOrder
<1> HIDE DEF InOrder
<1>2. /\ d \in {0, 1} /\ Len(new) \in Nat /\ DOMAIN new = 1 .. Len(new)
      /\ Len(todo) \in Nat /\ DOMAIN todo = 1 .. Len(todo)
      /\ DOMAIN todo' = 1 .. Len(new) + Len(todo) - d
      /\ \A k \in DOMAIN new : todo'[k] = new[k]
      /\ \A k \in DOMAIN todo : k > d => todo'[k + Len(new) - d] = todo[k]
  BY DEF Moves
<1>3. CASE j \in DOMAIN new
  <2>1. i \in DOMAIN new
    BY <1>1, <1>2, <1>3
  <2>. QED BY <1>1, <1>2, <1>3, <2>1
<1>4. CASE j \notin DOMAIN new
  <2>1. PICK q \in DOMAIN todo : q > d /\ j = q + Len(new) - d
    BY <1>4, Origin
  <2>2. CASE i \in DOMAIN new
    BY <1>2, <2>1, <2>2
  <2>3. CASE i \notin DOMAIN new
    <3>1. PICK p \in DOMAIN todo : p > d /\ i = p + Len(new) - d
      BY <2>3, Origin
    <3>2. p < q
      BY <1>1, <1>2, <2>1, <3>1
    <3>. QED BY <1>2, <2>1, <3>1, <3>2 DEF StackInOrder
  <2>. QED BY <2>2, <2>3
<1>. QED BY <1>3, <1>4

\* What is pending behind or before a frame that stays.
LEMMA Shifted ==
  ASSUME NEW new, NEW d, Moves(new, d), NEW op, NEW s
  PROVE  /\ \A j \in DOMAIN todo : j > d /\ Before(j, op, s) =>
              Before(j + Len(new) - d, op, s)' \/ (d = 1 /\ Holds(todo[1], op, s))
         /\ \A j \in DOMAIN todo : j > d /\ After(j, op, s) => After(j + Len(new) - d, op, s)'
         /\ After(0, op, s) => After(0, op, s)' \/ (d = 1 /\ Holds(todo[1], op, s))
         /\ \A k \in DOMAIN new : Holds(new[k], op, s) =>
              /\ After(0, op, s)' /\ \A j \in DOMAIN todo : j > d => Before(j + Len(new) - d, op, s)'
<1>1. /\ d \in {0, 1} /\ Len(new) \in Nat /\ DOMAIN new = 1 .. Len(new)
      /\ Len(todo) \in Nat /\ DOMAIN todo = 1 .. Len(todo)
      /\ DOMAIN todo' = 1 .. Len(new) + Len(todo) - d
      /\ \A k \in DOMAIN new : k \in DOMAIN todo' /\ todo'[k] = new[k]
      /\ \A k \in DOMAIN todo : k > d =>
           k + Len(new) - d \in DOMAIN todo' /\ todo'[k + Len(new) - d] = todo[k]
  BY DEF Moves
<1>2. ASSUME NEW k \in DOMAIN todo, Holds(todo[k], op, s)
      PROVE  \/ k > d /\ k + Len(new) - d \in DOMAIN todo' /\ Holds(todo'[k + Len(new) - d], op, s)
             \/ d = 1 /\ Holds(todo[1], op, s)
  BY <1>1, <1>2
<1>3. ASSUME NEW k \in DOMAIN new, Holds(new[k], op, s)
      PROVE  k \in DOMAIN todo' /\ Holds(todo'[k], op, s)
  BY <1>1, <1>3
<1> HIDE DEF Holds
<1>4. ASSUME NEW j \in DOMAIN todo, j > d, Before(j, op, s)
      PROVE  Before(j + Len(new) - d, op, s)' \/ (d = 1 /\ Holds(todo[1], op, s))
  <2>1. PICK k \in DOMAIN todo : k < j /\ Holds(todo[k], op, s)
    BY <1>4 DEF Before
  <2>2. k + Len(new) - d < j + Len(new) - d
    BY <1>1, <2>1
  <2>. QED BY <1>2, <2>1, <2>2 DEF Before
<1>5. ASSUME NEW j \in DOMAIN todo, j > d, After(j, op, s)
      PROVE  After(j + Len(new) - d, op, s)'
  <2>1. PICK k \in DOMAIN todo : j < k /\ Holds(todo[k], op, s)
    BY <1>5 DEF After
  <2>2. j + Len(new) - d < k + Len(new) - d /\ k > d
    BY <1>1, <1>5, <2>1
  <2>3. k + Len(new) - d \in DOMAIN todo' /\ Holds(todo'[k + Len(new) - d], op, s)
    BY <1>1, <2>1, <2>2
  <2>. QED BY <2>2, <2>3 DEF After
<1>6. ASSUME After(0, op, s)
      PROVE  After(0, op, s)' \/ (d = 1 /\ Holds(todo[1], op, s))
  <2>1. PICK k \in DOMAIN todo : Holds(todo[k], op, s)
    BY <1>6 DEF After
  <2>2. \A q \in DOMAIN todo' : 0 < q
    BY <1>1
  <2>. QED BY <1>2, <2>1, <2>2 DEF After
<1>7. ASSUME NEW k \in DOMAIN new, Holds(new[k], op, s)
      PROVE  /\ After(0, op, s)'
             /\ \A j \in DOMAIN todo : j > d => Before(j + Len(new) - d, op, s)'
  <2>1. k \in DOMAIN todo' /\ Holds(todo'[k], op, s) /\ 0 < k
    BY <1>1, <1>3, <1>7
  <2>2. ASSUME NEW j \in DOMAIN todo, j > d PROVE k < j + Len(new) - d
    BY <1>1, <2>2
  <2>. QED BY <2>1, <2>2 DEF Before, After
<1>. QED BY <1>4, <1>5, <1>6, <1>7

\* A frame that stays is right as long as the configuration stands: what it
\* relies on is not done yet, or the substate that leaves takes its place.
LEMMA RightStays ==
  ASSUME NEW new, NEW d, Moves(new, d),
         UNCHANGED <<life, active>>,
         d = 1 => /\ todo[1].op # "sleep"
                  /\ todo[1].op = "exit_child" =>
                       \A c \in active : Parent[c] = todo[1].state =>
                         \E k \in DOMAIN new : Holds(new[k], "sleep", c),
         NEW j \in DOMAIN todo, j > d, Right(j),
         \A u : Holds(todo[j], "detach", u) => Link(u)' = Link(u)
  PROVE  Right(j + Len(new) - d)'
<1>1. /\ j + Len(new) - d \in DOMAIN todo' /\ todo'[j + Len(new) - d] = todo[j]
  BY DEF Moves
<1>2. \A op, s : /\ Before(j, op, s) => Before(j + Len(new) - d, op, s)' \/ (d = 1 /\ Holds(todo[1], op, s))
                 /\ After(j, op, s) => After(j + Len(new) - d, op, s)'
                 /\ (\E k \in DOMAIN new : Holds(new[k], op, s)) => Before(j + Len(new) - d, op, s)'
  BY Shifted
<1>3. \A s : Before(j, "sleep", s) => Before(j + Len(new) - d, "sleep", s)'
  BY <1>2 DEF Holds
<1>4. ExitRight(j + Len(new) - d)'
  BY <1>1, <1>2 DEF Right, ExitRight
<1>5. SleepRight(j + Len(new) - d)'
  <2>1. SUFFICES ASSUME todo[j].op = "sleep" PROVE SleepRight(j + Len(new) - d)'
    BY <1>1 DEF SleepRight
  <2>2. PICK s : s = todo[j].state
    OBVIOUS
  <2>3. /\ s \in active
        /\ \A c \in active : Parent[c] = s => Before(j, "sleep", c) \/ Before(j, "exit_child", s)
        /\ After(j, "detach", s)
        /\ \/ Parent[s] = NULL /\ life = "dying"
           \/ \E k \in DOMAIN todo : j < k /\ todo[k].op = "wake" /\ Beside(todo[k].state, s)
           \/ Parent[s] # NULL /\ After(j, "sleep", Parent[s])
    BY <2>1, <2>2 DEF Right, SleepRight
  <2>4. ASSUME NEW c \in active, Parent[c] = s
        PROVE  Before(j + Len(new) - d, "sleep", c)' \/ Before(j + Len(new) - d, "exit_child", s)'
    <3>1. CASE Before(j, "sleep", c)
      BY <1>3, <3>1
    <3>2. CASE Before(j, "exit_child", s)
      <4>1. CASE d = 1 /\ Holds(todo[1], "exit_child", s)
        <5>1. \E k \in DOMAIN new : Holds(new[k], "sleep", c)
          BY <2>4, <4>1 DEF Holds
        <5>. QED BY <1>2, <5>1
      <4>. QED BY <1>2, <3>2, <4>1
    <3>. QED BY <2>3, <2>4, <3>1, <3>2
  <2>5. ASSUME NEW k \in DOMAIN todo, j < k, todo[k].op = "wake", Beside(todo[k].state, s)
        PROVE  \E q \in DOMAIN todo' : /\ j + Len(new) - d < q /\ todo'[q].op = "wake"
                                       /\ Beside(todo'[q].state, s)
    <3>1. k > d /\ j + Len(new) - d < k + Len(new) - d
      BY <2>5 DEF Moves
    <3>2. k + Len(new) - d \in DOMAIN todo' /\ todo'[k + Len(new) - d] = todo[k]
      BY <3>1 DEF Moves
    <3>. QED BY <2>5, <3>1, <3>2
  <2>6. /\ s \in active'
        /\ \A c \in active' : Parent[c] = s =>
             Before(j + Len(new) - d, "sleep", c)' \/ Before(j + Len(new) - d, "exit_child", s)'
        /\ After(j + Len(new) - d, "detach", s)'
        /\ \/ Parent[s] = NULL /\ life' = "dying"
           \/ \E q \in DOMAIN todo' : /\ j + Len(new) - d < q /\ todo'[q].op = "wake"
                                      /\ Beside(todo'[q].state, s)
           \/ Parent[s] # NULL /\ After(j + Len(new) - d, "sleep", Parent[s])'
    BY <1>2, <2>3, <2>4, <2>5
  <2>7. s = todo'[j + Len(new) - d].state
    BY <1>1, <2>2
  <2>. QED BY <2>6, <2>7 DEF SleepRight, Beside
<1>6. DetachRight(j + Len(new) - d)'
  BY <1>1, <1>3 DEF Right, DetachRight, Holds
<1>7. WakeRight(j + Len(new) - d)'
  BY <1>1, <1>3 DEF Right, WakeRight, Beside
<1>8. EnterRight(j + Len(new) - d)' /\ FirstRight(j + Len(new) - d)'
  BY <1>1 DEF Right, EnterRight, FirstRight
<1>. QED BY <1>4, <1>5, <1>6, <1>7, <1>8 DEF Right

LEMMA RightKept ==
  ASSUME NEW new, NEW d, Moves(new, d),
         UNCHANGED <<life, active, region_active, active_child>>,
         d = 1 => /\ todo[1].op # "sleep"
                  /\ todo[1].op = "exit_child" =>
                       \A c \in active : Parent[c] = todo[1].state =>
                         \E k \in DOMAIN new : Holds(new[k], "sleep", c),
         NEW j \in DOMAIN todo, j > d, Right(j)
  PROVE  Right(j + Len(new) - d)'
<1>1. \A s : Link(s)' = Link(s)
  BY DEF Link, Below
<1>. QED BY <1>1, RightStays

LEMMA FlightKept ==
  ASSUME NEW new, NEW d, Moves(new, d), NEW Q,
         \A k \in DOMAIN new : new[k].op \in ChainOps => RegionOf[new[k].state] \in InFlight \cup Q
  PROVE  InFlight' \subseteq InFlight \cup Q
<1>1. ASSUME NEW i \in DOMAIN todo', todo'[i].op \in ChainOps
      PROVE  RegionOf[todo'[i].state] \in InFlight \cup Q
  <2>1. CASE i \in DOMAIN new
    BY <1>1, <2>1 DEF Moves
  <2>2. CASE i \notin DOMAIN new
    <3>1. PICK j \in DOMAIN todo : j > d /\ i = j + Len(new) - d
      BY <2>2, Origin
    <3>2. todo'[i] = todo[j]
      BY <3>1 DEF Moves
    <3>. QED BY <1>1, <3>2 DEF InFlight
  <2>. QED BY <2>1, <2>2
<1>. QED BY <1>1 DEF InFlight

LEMMA FramesKept ==
  ASSUME TypesRight, FramesRight, NEW new, NEW d, Moves(new, d), tick' = tick,
         \A q \in InFlight : stamp'[q] = stamp[q],
         \A j \in DOMAIN todo : j > d => Right(j + Len(new) - d)',
         \A k \in DOMAIN new : Right(k)' /\ StampRight(k)'
  PROVE  FramesRight'
<1>1. SUFFICES ASSUME NEW i \in DOMAIN todo', i \notin DOMAIN new PROVE Right(i)' /\ StampRight(i)'
  BY DEF FramesRight
<1>2. PICK j \in DOMAIN todo : j > d /\ i = j + Len(new) - d
  BY <1>1, Origin
<1>3. todo'[i] = todo[j] /\ StampRight(j) /\ Right(i)'
  BY <1>2 DEF Moves, FramesRight
<1>4. todo[j].op \in ChainOps => RegionOf[todo[j].state] \in InFlight
  BY DEF InFlight
<1>5. StampRight(i)'
  BY <1>3, <1>4 DEF StampRight
<1>. QED BY <1>3, <1>5

LEMMA PlacesKept ==
  ASSUME PlacesRight, NEW new, NEW d, Moves(new, d), life' = life,
         \A k \in DOMAIN new :
           /\ new[k].op \notin {"watch", "exit_region"}
           /\ new[k].op = "initial_entry" => k = Len(new) /\ Len(todo) = d
           /\ new[k].op \in ChainOps =>
                \A j \in DOMAIN todo : j > d /\ todo[j].op = "exit_region" =>
                  todo[j].region # RegionOf[new[k].state]
  PROVE  PlacesRight'
<1> DEFINE from(j) == j + Len(new) - d
<1>1. /\ \A k \in DOMAIN new : todo'[k] = new[k]
      /\ \A j \in DOMAIN todo : j > d => todo'[from(j)] = todo[j]
  BY DEF Moves
<1>2. /\ \A k \in DOMAIN new : todo'[k] = new[k]
      /\ \A j \in DOMAIN todo : j > d => todo'[from(j)] = todo[j]
      /\ \A k \in DOMAIN todo' : k \in DOMAIN new \/ \E j \in DOMAIN todo : j > d /\ k = from(j)
      /\ from(Len(todo)) = Len(todo')
      /\ \A i, j \in DOMAIN todo : from(i) < from(j) => i < j
      /\ \A j \in DOMAIN todo, k \in DOMAIN new : j > d => ~(from(j) < k)
      /\ Len(todo) = d => Len(new) = Len(todo')
  BY <1>1, Origin
<1>. HIDE DEF from
<1>3. ASSUME NEW k \in DOMAIN new
      PROVE  /\ todo'[k].op # "watch" /\ todo'[k].op # "exit_region"
             /\ todo'[k].op = "initial_entry" => k = Len(todo')
             /\ todo'[k].op \in ChainOps =>
                  \A j \in DOMAIN todo : j > d /\ todo[j].op = "exit_region" =>
                    todo[j].region # RegionOf[todo'[k].state]
  <2>1. todo'[k] = new[k] /\ (Len(todo) = d => Len(new) = Len(todo'))
    BY <1>2
  <2>. QED BY <2>1
<1>4. ASSUME NEW i \in DOMAIN todo', todo'[i].op = "initial_entry" PROVE i = Len(todo')
  <2>1. CASE i \in DOMAIN new
    BY <1>3, <1>4, <2>1
  <2>2. CASE i \notin DOMAIN new
    <3>1. PICK p \in DOMAIN todo : p > d /\ i = from(p) /\ todo'[i] = todo[p]
      BY <1>2, <2>2
    <3>2. p = Len(todo)
      BY <1>4, <3>1 DEF PlacesRight
    <3>. QED BY <1>2, <3>1, <3>2
  <2>. QED BY <2>1, <2>2
<1>5. ASSUME NEW i \in DOMAIN todo', todo'[i].op = "watch", NEW j \in DOMAIN todo', i < j
      PROVE  todo'[j].op = "watch"
  <2>1. PICK p \in DOMAIN todo : p > d /\ i = from(p) /\ todo'[i] = todo[p]
    BY <1>2, <1>3, <1>5
  <2>2. PICK q \in DOMAIN todo : q > d /\ j = from(q) /\ todo'[j] = todo[q]
    BY <1>2, <1>5, <2>1
  <2>3. p < q
    BY <1>2, <1>5, <2>1, <2>2
  <2>. QED BY <1>5, <2>1, <2>2, <2>3 DEF PlacesRight
<1>6. ASSUME NEW i \in DOMAIN todo', todo'[i].op = "exit_region"
      PROVE  /\ life' = "dying"
             /\ \A j \in DOMAIN todo' :
                  /\ todo'[j].op = "exit_region" /\ todo'[j].region = todo'[i].region => j = i
                  /\ todo'[j].op \in ChainOps => RegionOf[todo'[j].state] # todo'[i].region
  <2>1. PICK p \in DOMAIN todo : p > d /\ i = from(p) /\ todo'[i] = todo[p]
    BY <1>2, <1>3, <1>6
  <2>2. /\ life = "dying"
        /\ \A j \in DOMAIN todo :
             /\ todo[j].op = "exit_region" /\ todo[j].region = todo[p].region => j = p
             /\ todo[j].op \in ChainOps => RegionOf[todo[j].state] # todo[p].region
    BY <1>6, <2>1 DEF PlacesRight
  <2>3. ASSUME NEW j \in DOMAIN todo'
        PROVE  /\ todo'[j].op = "exit_region" /\ todo'[j].region = todo'[i].region => j = i
               /\ todo'[j].op \in ChainOps => RegionOf[todo'[j].state] # todo'[i].region
    <3>1. CASE j \in DOMAIN new
      BY <1>3, <1>6, <2>1, <3>1
    <3>2. CASE j \notin DOMAIN new
      <4>1. PICK q \in DOMAIN todo : q > d /\ j = from(q) /\ todo'[j] = todo[q]
        BY <1>2, <3>2
      <4>. QED BY <2>1, <2>2, <4>1
    <3>. QED BY <3>1, <3>2
  <2>. QED BY <2>2, <2>3
<1>. QED BY <1>4, <1>5, <1>6 DEF PlacesRight

LEMMA EntryKept ==
  ASSUME EntryUndisturbed, NEW new, NEW d, Moves(new, d), Entering' \subseteq Entering,
         \A k \in DOMAIN new : new[k].op = "deliver" =>
           \/ \E j \in DOMAIN todo : todo[j].op = "deliver" /\ todo[j].event = new[k].event
           \/ ~ReentrantEntry => \A n \in DOMAIN Transitions :
                Transitions[n].event = new[k].event => RegionOf[Transitions[n].target] \notin Entering
  PROVE  EntryUndisturbed'
<1>. HIDE DEF Entering
<1>1. SUFFICES ASSUME ~ReentrantEntry, NEW k \in DOMAIN todo', todo'[k].op = "deliver",
                      NEW n \in DOMAIN Transitions, Transitions[n].event = todo'[k].event
               PROVE  RegionOf[Transitions[n].target] \notin Entering
  BY DEF EntryUndisturbed
<1>2. \A j \in DOMAIN todo : todo[j].op = "deliver" /\ todo[j].event = Transitions[n].event =>
        RegionOf[Transitions[n].target] \notin Entering
  BY <1>1 DEF EntryUndisturbed
<1>3. CASE k \in DOMAIN new
  <2>1. todo'[k] = new[k]
    BY <1>3 DEF Moves
  <2>. QED BY <1>1, <1>2, <1>3, <2>1
<1>4. CASE k \notin DOMAIN new
  <2>1. PICK j \in DOMAIN todo : j > d /\ k = j + Len(new) - d
    BY <1>4, Origin
  <2>2. todo'[k] = todo[j]
    BY <2>1 DEF Moves
  <2>. QED BY <1>1, <1>2, <2>2
<1>. QED BY <1>3, <1>4

LEMMA LinksKept ==
  ASSUME LinksRight, NEW new, NEW d, Moves(new, d), d = 1 => todo[1].op # "detach",
         UNCHANGED <<active, region_active, active_child>>,
         \A s \in State : history_child'[s] \in {NULL, history_child[s]} \/ Parent[history_child'[s]] = s
  PROVE  LinksRight'
<1>1. \A s : Link(s)' = Link(s)
  BY DEF Link, Below
<1>2. \A s : After(0, "detach", s) => After(0, "detach", s)'
  BY Shifted DEF Holds
<1>3. \A s \in State : history_child'[s] # NULL => Parent[history_child'[s]] = s
  BY DEF LinksRight
<1>. QED BY <1>1, <1>2, <1>3 DEF LinksRight

LEMMA LackingKept ==
  ASSUME Lacking, NEW new, NEW d, Moves(new, d), UNCHANGED <<life, active>>,
         d = 1 => /\ todo[1].op \notin {"sleep", "wake"}
                  /\ todo[1].op = "enter_child" =>
                       \/ InitialChild[todo[1].state] = NULL
                       \/ \E c \in active : Parent[c] = todo[1].state
                       \/ \E k \in DOMAIN new : new[k].op = "wake" /\ Parent[new[k].state] = todo[1].state
  PROVE  Lacking'
<1>1. ASSUME NEW k \in DOMAIN todo, todo[k].op = "wake"
      PROVE  \E q \in DOMAIN todo' : todo'[q] = todo[k]
  <2>1. k > d
    BY <1>1 DEF Moves
  <2>. QED BY <2>1 DEF Moves
<1>2. \A k \in DOMAIN new : k \in DOMAIN todo' /\ todo'[k] = new[k]
  BY DEF Moves
<1>3. ASSUME NEW s \in active
      PROVE  \/ InitialChild[s] = NULL
             \/ \E c \in active : Parent[c] = s
             \/ After(0, "sleep", s)' \/ After(0, "enter_child", s)'
             \/ \E k \in DOMAIN todo' : todo'[k].op = "wake" /\ Parent[todo'[k].state] = s
  <2>1. \/ InitialChild[s] = NULL
        \/ \E c \in active : Parent[c] = s
        \/ After(0, "sleep", s) \/ After(0, "enter_child", s)
        \/ \E k \in DOMAIN todo : todo[k].op = "wake" /\ Parent[todo[k].state] = s
    BY DEF Lacking
  <2>2. CASE After(0, "sleep", s)
    BY <2>2, Shifted DEF Holds
  <2>3. CASE After(0, "enter_child", s)
    <3>1. After(0, "enter_child", s)' \/ (d = 1 /\ Holds(todo[1], "enter_child", s))
      BY <2>3, Shifted
    <3>2. CASE d = 1 /\ todo[1].op = "enter_child" /\ todo[1].state = s
      BY <1>2, <3>2
    <3>. QED BY <3>1, <3>2 DEF Holds
  <2>4. CASE \E k \in DOMAIN todo : todo[k].op = "wake" /\ Parent[todo[k].state] = s
    BY <1>1, <2>4
  <2>. QED BY <2>1, <2>2, <2>3, <2>4
<1>4. ASSUME life \in {"deferred", "live"}, NEW r \in Region
      PROVE  \/ \E s \in active : RegionOf[s] = r /\ Parent[s] = NULL
             \/ \E k \in DOMAIN todo' : /\ todo'[k].op = "wake"
                                        /\ RegionOf[todo'[k].state] = r /\ Parent[todo'[k].state] = NULL
  BY <1>1, <1>4 DEF Lacking
<1>. QED BY <1>3, <1>4 DEF Lacking

LEMMA LifeKept ==
  ASSUME TypesRight, LifeRight, NEW new, NEW d, Moves(new, d), life \in {"live", "dying"},
         UNCHANGED <<life, tick, active, deactivated>>,
         life = "dying" => /\ stamp' = stamp
                           /\ \A k \in DOMAIN new : new[k].op \notin EnterOps,
         d = 1 => /\ todo[1].op # "sleep"
                  /\ todo[1].op = "exit_region" =>
                       \A s \in active : RegionOf[s] = todo[1].region /\ Parent[s] = NULL =>
                         \E k \in DOMAIN new : Holds(new[k], "sleep", s)
  PROVE  LifeRight'
<1>1. SUFFICES ASSUME life = "dying"
               PROVE  /\ \A i \in DOMAIN todo' : todo'[i].op \notin EnterOps
                      /\ \A s \in active : Parent[s] = NULL =>
                           \/ After(0, "sleep", s)'
                           \/ \E i \in DOMAIN todo' : todo'[i].op = "exit_region" /\ todo'[i].region = RegionOf[s]
  BY DEF LifeRight
<1>2. ASSUME NEW i \in DOMAIN todo' PROVE todo'[i].op \notin EnterOps
  <2>1. CASE i \in DOMAIN new
    BY <1>1, <2>1 DEF Moves
  <2>2. CASE i \notin DOMAIN new
    <3>1. PICK j \in DOMAIN todo : j > d /\ i = j + Len(new) - d
      BY <2>2, Origin
    <3>2. todo'[i] = todo[j]
      BY <3>1 DEF Moves
    <3>. QED BY <1>1, <3>2 DEF LifeRight
  <2>. QED BY <2>1, <2>2
<1>3. ASSUME NEW s \in active, Parent[s] = NULL
      PROVE  \/ After(0, "sleep", s)'
             \/ \E i \in DOMAIN todo' : todo'[i].op = "exit_region" /\ todo'[i].region = RegionOf[s]
  <2>1. CASE After(0, "sleep", s)
    BY <2>1, Shifted DEF Holds
  <2>2. ASSUME NEW i \in DOMAIN todo, todo[i].op = "exit_region", todo[i].region = RegionOf[s]
        PROVE  \/ After(0, "sleep", s)'
               \/ \E k \in DOMAIN todo' : todo'[k].op = "exit_region" /\ todo'[k].region = RegionOf[s]
    <3>1. CASE i > d
      BY <2>2, <3>1 DEF Moves
    <3>2. CASE ~(i > d)
      <4>1. d = 1 /\ i = 1
        BY <3>2 DEF Moves
      <4>2. \E k \in DOMAIN new : Holds(new[k], "sleep", s)
        BY <1>3, <2>2, <4>1
      <4>. QED BY <4>2, Shifted
    <3>. QED BY <3>1, <3>2
  <2>. QED BY <1>1, <1>3, <2>1, <2>2 DEF LifeRight
<1>. QED BY <1>2, <1>3

-----------------------------------------------------------------------------
LEMMA Alive ==
  ASSUME ChartInv, ~Idle
  PROVE  life \in {"live", "dying"}
  BY DEF ChartInv, TypesRight, LifeRight, Idle

\* A step that puts only deliveries and initial entries on the stack.
LEMMA QuietKeeps ==
  ASSUME ChartInv, NEW new, NEW d, Moves(new, d), life \in {"live", "dying"},
         UNCHANGED <<life, tick, poisoned, configVars, stamp>>,
         armed_value' \in [DOMAIN Watchers -> BOOLEAN],
         d = 1 => todo[1].op \in {"deliver", "initial_entry", "slot", "watch"},
         \A k \in DOMAIN new :
           /\ new[k].op \in {"deliver", "initial_entry"}
           /\ new[k].op = "initial_entry" => k = Len(new) /\ Len(todo) = d
           /\ new[k].op = "deliver" =>
                \/ \E j \in DOMAIN todo : todo[j].op = "deliver" /\ todo[j].event = new[k].event
                \/ ~ReentrantEntry => \A n \in DOMAIN Transitions :
                     Transitions[n].event = new[k].event => RegionOf[Transitions[n].target] \notin Entering
  PROVE  ChartInv' /\ InFlight' \subseteq InFlight
<1>1. /\ UNCHANGED <<active, deactivated, region_active, active_child, history_child, seated>>
      /\ \A k \in DOMAIN new : new[k].op \notin ChainOps
  BY DEF configVars, ChainOps
<1>2. TypesRight'
  <2>1. todo' \in Seq(Frame)
    BY DEF Moves
  <2>. QED BY <1>1, <2>1 DEF ChartInv, TypesRight
<1>3. InFlight' \subseteq InFlight /\ Entering' \subseteq Entering
  <2>1. InFlight' \subseteq InFlight \cup {}
    BY <1>1, FlightKept
  <2>. QED BY <2>1 DEF Entering
<1>4. StackInOrder'
  <2>1. \A i \in DOMAIN new : \A f : InOrder(new[i], f) /\ InOrder(f, new[i])
    BY <1>1 DEF InOrder
  <2>. QED BY <2>1, OrderKept DEF ChartInv
<1>5. FramesRight'
  <2>1. ASSUME NEW k \in DOMAIN new PROVE Right(k)' /\ StampRight(k)'
    <3>1. todo'[k] = new[k] /\ new[k].op \notin {"exit_child", "sleep", "detach", "wake", "enter_child"}
      BY <1>1 DEF Moves, ChainOps
    <3>. QED BY <1>1, <3>1 DEF Right, StampRight, ExitRight, SleepRight, DetachRight, WakeRight,
                EnterRight, FirstRight, EnterOps
  <2>2. ASSUME NEW j \in DOMAIN todo, j > d PROVE Right(j + Len(new) - d)'
    <3>1. Right(j)
      BY DEF ChartInv, FramesRight
    <3>. QED BY <1>1, <2>2, <3>1, RightKept
  <2>3. TypesRight /\ FramesRight
    BY DEF ChartInv
  <2>. QED BY <2>1, <2>2, <2>3, FramesKept
<1>6. PlacesRight'
  BY <1>1, PlacesKept DEF ChartInv
<1>7. EntryUndisturbed'
  BY <1>3, EntryKept DEF ChartInv
<1>8. LinksRight'
  BY <1>1, LinksKept DEF ChartInv
<1>9. UnmarkedRight'
  BY <1>1 DEF ChartInv, UnmarkedRight
<1>10. Lacking'
  BY <1>1, LackingKept DEF ChartInv
<1>11. LifeRight'
  BY <1>1, LifeKept DEF ChartInv, EnterOps
<1>. QED BY <1>2, <1>3, <1>4, <1>5, <1>6, <1>7, <1>8, <1>9, <1>10, <1>11 DEF ChartInv

\* The head that a Next_frame guard names.
LEMMA HeadOf ==
  ASSUME ChartInv, NEW op, Next_frame(op)
  PROVE  /\ ~Idle /\ Head(todo) = todo[1] /\ todo[1].op = op /\ todo[1] \in Frame
         /\ 1 \in DOMAIN todo /\ Right(1) /\ StampRight(1) /\ life \in {"live", "dying"} /\ TypesRight
<1>1. ~Idle /\ Head(todo).op = op /\ TypesRight
  BY DEF Next_frame, ChartInv
<1>2. Head(todo) = todo[1] /\ todo[1] \in Frame /\ 1 \in DOMAIN todo
  BY <1>1, Popped
<1>3. Right(1) /\ StampRight(1)
  BY <1>2 DEF ChartInv, FramesRight
<1>. QED BY <1>1, <1>2, <1>3, Alive

LEMMA SeqElement ==
  ASSUME NEW T, NEW list \in Seq(T), NEW n \in DOMAIN list
  PROVE  list[n] \in T
  OBVIOUS

LEMMA One ==
  ASSUME NEW f \in Frame
  PROVE  <<f>> \in Seq(Frame) /\ Len(<<f>>) = 1 /\ DOMAIN <<f>> = {1} /\ <<f>>[1] = f
  OBVIOUS

LEMMA None0 == <<>> \in Seq(Frame) /\ Len(<<>>) = 0 /\ DOMAIN <<>> = {}
  OBVIOUS

\* A frame that is there on a condition.
Optional(x, b, f) ==
  /\ x \in Seq(Frame) /\ x = (IF b THEN <<f>> ELSE <<>>) /\ Len(x) \in {0, 1}
  /\ \A k \in 1 .. Len(x) : k = 1 /\ x[k] = f /\ b

LEMMA OneOrNone ==
  ASSUME NEW b \in BOOLEAN, NEW f, b => f \in Frame
  PROVE  Optional(IF b THEN <<f>> ELSE <<>>, b, f)
<1>1. CASE b
  <2>1. PICK x : x = <<f>> /\ x \in Seq(Frame) /\ Len(x) = 1 /\ x[1] = f
    BY <1>1, One
  <2>2. Optional(x, b, f)
    BY <1>1, <2>1 DEF Optional
  <2>3. (IF b THEN <<f>> ELSE <<>>) = x
    BY <1>1, <2>1
  <2>. QED BY <2>2, <2>3
<1>2. CASE ~b
  <2>1. PICK x : x = <<>> /\ x \in Seq(Frame) /\ Len(x) = 0
    BY None0
  <2>2. Optional(x, b, f)
    BY <1>2, <2>1 DEF Optional
  <2>3. (IF b THEN <<f>> ELSE <<>>) = x
    BY <1>2, <2>1
  <2>. QED BY <2>2, <2>3
<1>. QED BY <1>1, <1>2

LEMMA ReturnKeeps ==
  ASSUME ChartInv, hook_return
  PROVE  ChartInv' /\ InFlight' \subseteq InFlight /\ NoDeeper
<1>1. Next_frame("slot") /\ todo' = Tail(todo)
      /\ UNCHANGED <<life, tick, poisoned, configVars, stamp, armed_value>>
  BY DEF hook_return, watcherVars
<1>2. ~Idle /\ todo[1].op = "slot" /\ life \in {"live", "dying"} /\ TypesRight
  BY <1>1, HeadOf
<1>3. todo' = <<>> \o Tail(todo)
  BY <1>1, <1>2, Popped
<1>4. Moves(<<>>, 1)
  BY <1>2, <1>3, None0, MovesHead
<1>5. armed_value' \in [DOMAIN Watchers -> BOOLEAN]
  BY <1>1, <1>2 DEF TypesRight
<1>90. NoDeeper
  BY <1>2, <1>4, None0, DepthMoves
<1>. QED BY <1>90, <1>1, <1>2, <1>4, <1>5, None0, QuietKeeps

LEMMA EndDeliveryKeeps ==
  ASSUME ChartInv, end_delivery
  PROVE  ChartInv' /\ InFlight' \subseteq InFlight /\ NoDeeper
<1>1. Next_frame("deliver") /\ todo' = Tail(todo)
      /\ UNCHANGED <<life, tick, poisoned, configVars, stamp, armed_value>>
  BY DEF end_delivery, watcherVars
<1>2. ~Idle /\ todo[1].op = "deliver" /\ life \in {"live", "dying"} /\ TypesRight
  BY <1>1, HeadOf
<1>3. todo' = <<>> \o Tail(todo)
  BY <1>1, <1>2, Popped
<1>4. Moves(<<>>, 1)
  BY <1>2, <1>3, None0, MovesHead
<1>5. armed_value' \in [DOMAIN Watchers -> BOOLEAN]
  BY <1>1, <1>2 DEF TypesRight
<1>90. NoDeeper
  BY <1>2, <1>4, None0, DepthMoves
<1>. QED BY <1>90, <1>1, <1>2, <1>4, <1>5, None0, QuietKeeps

\* The delivery goes on to the next region.
LEMMA RestOfDelivery ==
  ASSUME ChartInv, NextRegion
  PROVE  /\ todo[1].op = "deliver" /\ todo[1] \in Frame /\ ~Idle /\ 1 \in DOMAIN todo
         /\ deliver(todo[1].event, todo[1].at + 1) \in Frame
         /\ rest_of_delivery = <<deliver(todo[1].event, todo[1].at + 1)>> \o Tail(todo)
         /\ Head(todo) = todo[1]
<1>1. Next_frame("deliver")
  BY DEF NextRegion
<1>2. todo[1].op = "deliver" /\ todo[1] \in Frame /\ ~Idle /\ Head(todo) = todo[1] /\ 1 \in DOMAIN todo
  BY <1>1, HeadOf
<1>3. todo[1].event \in Event /\ todo[1].at \in Nat
  BY <1>2, FrameFacts
<1>4. deliver(todo[1].event, todo[1].at + 1) \in Frame
  <2>1. todo[1].at + 1 \in Nat
    BY <1>3
  <2>. QED BY <1>3, <2>1 DEF Frame, deliver
<1>. QED BY <1>2, <1>4 DEF rest_of_delivery

LEMMA NextRegionKeeps ==
  ASSUME ChartInv, NextRegion, todo' = rest_of_delivery,
         UNCHANGED <<life, tick, poisoned, configVars, stamp, watcherVars>>
  PROVE  ChartInv' /\ InFlight' \subseteq InFlight /\ NoDeeper
<1> DEFINE f == deliver(todo[1].event, todo[1].at + 1)
<1>1. /\ todo[1].op = "deliver" /\ ~Idle /\ f \in Frame /\ todo' = <<f>> \o Tail(todo)
      /\ 1 \in DOMAIN todo /\ TypesRight
  BY RestOfDelivery DEF ChartInv
<1>2. f.op = "deliver" /\ f.event = todo[1].event
  BY DEF deliver
<1>. HIDE DEF f
<1>3. PICK new \in Seq(Frame) : new = <<f>> /\ Len(new) = 1 /\ DOMAIN new = {1} /\ new[1] = f
  BY <1>1, One
<1>4. Moves(new, 1)
  BY <1>1, <1>3, MovesHead
<1>5. armed_value' \in [DOMAIN Watchers -> BOOLEAN] /\ life \in {"live", "dying"}
  BY <1>1, Alive DEF TypesRight, watcherVars
<1>90. NoDeeper
  BY <1>1, <1>3, <1>4, DepthMoves
<1>. QED BY <1>90, <1>1, <1>2, <1>3, <1>4, <1>5, QuietKeeps

LEMMA VoidKeeps ==
  ASSUME ChartInv, void_marked_region
  PROVE  ChartInv' /\ InFlight' \subseteq InFlight /\ NoDeeper
  BY NextRegionKeeps DEF void_marked_region

LEMMA TriggerKeeps ==
  ASSUME ChartInv, NEW e \in Event, trigger(e)
  PROVE  ChartInv' /\ InFlight' \subseteq InFlight /\ Depth' <= kMaxCascadeDepth
<1> DEFINE f == deliver(e, 1)
<1>1. /\ life \in {"live", "dying"} /\ todo' = <<f>> \o todo /\ TypesRight
      /\ ~ReentrantEntry => \A n \in DOMAIN Transitions :
           Transitions[n].event = e => RegionOf[Transitions[n].target] \notin Entering
      /\ UNCHANGED <<life, tick, poisoned, configVars, stamp, armed_value>>
  BY DEF trigger, ChartInv, watcherVars
<1>2. f.op = "deliver" /\ f.event = e /\ f \in Frame
  BY DEF deliver, Frame
<1>. HIDE DEF f
<1>3. PICK new \in Seq(Frame) : new = <<f>> /\ Len(new) = 1 /\ DOMAIN new = {1} /\ new[1] = f
  BY <1>2, One
<1>4. Moves(new, 0)
  BY <1>1, <1>3, MovesFront
<1>5. armed_value' \in [DOMAIN Watchers -> BOOLEAN]
  BY <1>1 DEF TypesRight
<1>90. Depth' <= kMaxCascadeDepth
  <2>1. Depth \in Nat /\ Depth' \in Nat /\ Depth' <= Depth + 1
    BY <1>1, <1>3, <1>4, DepthMoves
  <2>2. Depth < kMaxCascadeDepth /\ kMaxCascadeDepth \in Nat
    BY TableAssumption DEF trigger
  <2>. QED BY <2>1, <2>2
<1>. QED BY <1>90, <1>1, <1>2, <1>3, <1>4, <1>5, QuietKeeps

LEMMA WatcherKeeps ==
  ASSUME ChartInv, evaluate_watcher
  PROVE  ChartInv' /\ InFlight' \subseteq InFlight /\ Depth' <= kMaxCascadeDepth
<1>1. /\ Next_frame("watch")
      /\ UNCHANGED <<life, tick, poisoned, configVars, stamp>>
      /\ \/ armed_value' = armed_value /\ todo' = Tail(todo)
         \/ \E value \in BOOLEAN :
              /\ armed_value' = [armed_value EXCEPT ![Head(todo).watcher] = value]
              /\ todo' = (IF value /\ ~armed_value[Head(todo).watcher] /\ ~poisoned
                          THEN <<deliver(Watchers[Head(todo).watcher].event, 1)>> ELSE <<>>) \o Tail(todo)
  BY DEF evaluate_watcher
<1>2. /\ ~Idle /\ todo[1].op = "watch" /\ todo[1] \in Frame /\ life \in {"live", "dying"} /\ TypesRight
      /\ 1 \in DOMAIN todo /\ Head(todo) = todo[1]
  BY <1>1, HeadOf
<1> DEFINE w == todo[1].watcher
           f == deliver(Watchers[w].event, 1)
<1>3. f.op = "deliver" /\ f.event = Watchers[w].event /\ f \in Frame
  <2>1. w \in DOMAIN Watchers
    BY <1>2, FrameFacts
  <2>2. Watchers \in Seq([state : State, event : Event])
    BY TableAssumption
  <2>3. Watchers[w] \in [state : State, event : Event]
    BY <2>1, <2>2, SeqElement
  <2>4. Watchers[w].event \in Event
    BY <2>3
  <2>. QED BY <2>4 DEF deliver, Frame
<1>4. PICK new \in Seq(Frame) :
        /\ todo' = new \o Tail(todo)
        /\ \A k \in DOMAIN new : k = 1 /\ new[k].op = "deliver" /\ new[k].event = Watchers[w].event
  <2>1. todo' = Tail(todo) \/ todo' = <<>> \o Tail(todo) \/ todo' = <<f>> \o Tail(todo)
    BY <1>1, <1>2
  <2>2. CASE todo' = <<f>> \o Tail(todo)
    <3>. HIDE DEF f
    <3>1. <<f>> \in Seq(Frame) /\ DOMAIN <<f>> = {1} /\ <<f>>[1] = f
      BY <1>3, One
    <3>2. \A k \in DOMAIN <<f>> : k = 1 /\ <<f>>[k].op = "deliver" /\ <<f>>[k].event = Watchers[w].event
      BY <1>3, <3>1
    <3>. QED BY <2>2, <3>1, <3>2
  <2>3. CASE todo' = Tail(todo) \/ todo' = <<>> \o Tail(todo)
    <3>1. todo' = <<>> \o Tail(todo)
      BY <1>2, <2>3, Popped
    <3>. QED BY <3>1, None0
  <2>. QED BY <2>1, <2>2, <2>3
<1>5. Moves(new, 1)
  BY <1>2, <1>4, MovesHead
<1>6. armed_value' \in [DOMAIN Watchers -> BOOLEAN]
  <2>1. armed_value \in [DOMAIN Watchers -> BOOLEAN]
    BY <1>2 DEF TypesRight
  <2>. QED BY <1>1, <2>1
<1>7. ASSUME NEW j \in DOMAIN todo PROVE todo[j].op = "watch"
  <2>1. DOMAIN todo = 1 .. Len(todo)
    BY <1>2, Popped
  <2>2. j = 1 \/ 1 < j
    BY <2>1
  <2>. QED BY <1>2, <2>2 DEF ChartInv, PlacesRight
<1>8. Entering = {}
  BY <1>7 DEF Entering, InFlight, ChainOps
<1>9. Depth' <= kMaxCascadeDepth
  <2>1. Depth \in Nat /\ Depth' \in Nat /\ Depth' <= Depth + 1
    <3>1. \A k \in DOMAIN new : new[k].op = "deliver" => k = 1
      BY <1>4
    <3>. QED BY <1>2, <1>5, <3>1, DepthMoves
  <2>2. {j \in DOMAIN todo : todo[j].op = "deliver"} = {}
    BY <1>7
  <2>3. Depth = 0
    BY <2>2, FS_EmptySet DEF Depth
  <2>4. kMaxCascadeDepth \in Nat \ {0}
    BY TableAssumption
  <2>. QED BY <2>1, <2>3, <2>4
<1>. QED BY <1>8, <1>9, <1>1, <1>2, <1>4, <1>5, <1>6, <1>7, QuietKeeps

\* A step that puts a part of a chain on the stack: the configuration stands,
\* what is taken off the stack is not missed, and the new frames are right.
StandsStill ==
  /\ life \in {"live", "dying"}
  /\ UNCHANGED <<life, tick, poisoned, active, deactivated, region_active, active_child, seated, armed_value>>
  /\ history_child' \in [State -> State \cup {NULL}]
  /\ \A s \in State : history_child'[s] \in {NULL, history_child[s]} \/ Parent[history_child'[s]] = s
  /\ stamp' \in [Region -> kNeverTicked .. MaxTick]
  /\ \A q \in InFlight : stamp'[q] = stamp[q]
  /\ life = "dying" => stamp' = stamp

HeadDone(new, d) ==
  d = 1 =>
    /\ todo[1].op \notin {"sleep", "detach", "wake"}
    /\ todo[1].op = "exit_child" =>
         \A c \in active : Parent[c] = todo[1].state => \E k \in DOMAIN new : Holds(new[k], "sleep", c)
    /\ todo[1].op = "enter_child" =>
         \/ InitialChild[todo[1].state] = NULL
         \/ \E c \in active : Parent[c] = todo[1].state
         \/ \E k \in DOMAIN new : new[k].op = "wake" /\ Parent[new[k].state] = todo[1].state
    /\ todo[1].op = "exit_region" =>
         \A s \in active : RegionOf[s] = todo[1].region /\ Parent[s] = NULL =>
           \E k \in DOMAIN new : Holds(new[k], "sleep", s)

NewRight(new, d) ==
  /\ \A i, j \in DOMAIN new : i < j => InOrder(new[i], new[j])
  /\ \A i \in DOMAIN new, j \in DOMAIN todo : j > d => InOrder(new[i], todo[j])
  /\ \A k \in DOMAIN new :
       /\ Right(k)' /\ StampRight(k)'
       /\ new[k].op \notin {"watch", "exit_region"}
       /\ new[k].op = "initial_entry" => k = Len(new) /\ Len(todo) = d
       /\ new[k].op \in EnterOps => life # "dying"
       /\ new[k].op \in ChainOps =>
            \A j \in DOMAIN todo : j > d /\ todo[j].op = "exit_region" =>
              todo[j].region # RegionOf[new[k].state]

LEMMA PushKeeps ==
  ASSUME ChartInv, NEW new, NEW d, Moves(new, d), StandsStill, HeadDone(new, d), NewRight(new, d),
         UnmarkedRight', EntryUndisturbed'
  PROVE  ChartInv'
<1>. USE DEF StandsStill, HeadDone, NewRight
<1>1. TypesRight'
  <2>1. todo' \in Seq(Frame)
    BY DEF Moves
  <2>. QED BY <2>1 DEF ChartInv, TypesRight
<1>2. StackInOrder'
  BY OrderKept DEF ChartInv
<1>3. FramesRight'
  <2>1. ASSUME NEW j \in DOMAIN todo, j > d PROVE Right(j + Len(new) - d)'
    <3>1. Right(j)
      BY DEF ChartInv, FramesRight
    <3>. QED BY <2>1, <3>1, RightKept
  <2>2. TypesRight /\ FramesRight
    BY DEF ChartInv
  <2>. QED BY <2>1, <2>2, FramesKept
<1>4. PlacesRight'
  BY PlacesKept DEF ChartInv
<1>5. LinksRight'
  BY LinksKept DEF ChartInv
<1>6. Lacking'
  BY LackingKept DEF ChartInv
<1>7. LifeRight'
  BY LifeKept DEF ChartInv
<1>. QED BY <1>1, <1>2, <1>3, <1>4, <1>5, <1>6, <1>7 DEF ChartInv

\* The frames with which a state leaves.
ExitFrames(new, c) ==
  /\ 1 .. 5 \subseteq DOMAIN new /\ \A k \in 1 .. 5 : new[k].state = c
  /\ new[1].op = "slot" /\ new[2].op = "exit_child" /\ new[3].op = "slot"
  /\ new[4].op = "sleep" /\ new[5].op = "detach"

LEMMA ExitChain ==
  ASSUME NEW c \in State
  PROVE  LET x == Append(exit_state(c), detach(c)) IN
         x \in Seq(Frame) /\ Len(x) = 5 /\ DOMAIN x = 1 .. 5 /\ ExitFrames(x, c)
<1>1. /\ slot("script_exit", c) \in Frame /\ slot("component_exit", c) \in Frame
      /\ exit_child(c) \in Frame /\ sleep(c) \in Frame /\ detach(c) \in Frame
  BY FrameTypes DEF Slots
<1>2. /\ slot("script_exit", c).op = "slot" /\ slot("script_exit", c).state = c
      /\ slot("component_exit", c).op = "slot" /\ slot("component_exit", c).state = c
      /\ exit_child(c).op = "exit_child" /\ exit_child(c).state = c
      /\ sleep(c).op = "sleep" /\ sleep(c).state = c /\ detach(c).op = "detach" /\ detach(c).state = c
  BY DEF slot, exit_child, sleep, detach
<1> DEFINE a == slot("script_exit", c)
           b == exit_child(c)
           e == slot("component_exit", c)
           f == sleep(c)
           g == detach(c)
           x == Append(<<a, b, e, f>>, g)
<1>3. x = Append(exit_state(c), detach(c))
  BY DEF exit_state
<1>. HIDE DEF a, b, e, f, g
<1>4. a \in Frame /\ b \in Frame /\ e \in Frame /\ f \in Frame /\ g \in Frame
  BY <1>1 DEF a, b, e, f, g
<1>5. /\ x \in Seq(Frame) /\ Len(x) = 5 /\ DOMAIN x = 1 .. 5
      /\ x[1] = a /\ x[2] = b /\ x[3] = e /\ x[4] = f /\ x[5] = g
  BY <1>4
<1>. HIDE DEF x
<1>6. \A k \in 1 .. 5 : k = 1 \/ k = 2 \/ k = 3 \/ k = 4 \/ k = 5
  OBVIOUS
<1>7. ExitFrames(x, c)
  BY <1>2, <1>5, <1>6 DEF ExitFrames, a, b, e, f, g
<1>. QED BY <1>3, <1>5, <1>7

LEMMA ExitOrdered ==
  ASSUME NEW c \in State, NEW new, ExitFrames(new, c)
  PROVE  \A i, j \in 1 .. 5 : i < j => InOrder(new[i], new[j])
<1>1. SUFFICES ASSUME NEW i \in 1 .. 5, NEW j \in 1 .. 5, i < j PROVE InOrder(new[i], new[j])
  OBVIOUS
<1>2. c \in Up[c] /\ new[i].state = c /\ new[j].state = c
  BY UpClosed DEF ExitFrames
<1>3. /\ (i = 1 /\ new[i].op = "slot") \/ (i = 2 /\ new[i].op = "exit_child")
         \/ (i = 3 /\ new[i].op = "slot") \/ (i = 4 /\ new[i].op = "sleep")
      /\ (j = 2 /\ new[j].op = "exit_child") \/ (j = 3 /\ new[j].op = "slot")
         \/ (j = 4 /\ new[j].op = "sleep") \/ (j = 5 /\ new[j].op = "detach")
  BY <1>1 DEF ExitFrames
<1>4. \/ new[i].op = "slot" \/ new[j].op = "slot"
      \/ new[i].op = "exit_child" /\ new[j].op \in {"sleep", "detach"}
      \/ new[i].op = "sleep" /\ new[j].op = "detach"
  BY <1>1, <1>3
<1>. QED BY <1>2, <1>4 DEF InOrder, EnterOps, ExitOps

LEMMA ExitPart ==
  ASSUME NEW new, NEW d, Moves(new, d), NEW c \in active, ExitFrames(new, c), Link(c)' = c,
         active' = active,
         \/ Parent[c] = NULL /\ life' = "dying"
         \/ \E k \in DOMAIN todo' : 5 < k /\ todo'[k].op = "wake" /\ Beside(todo'[k].state, c)
         \/ Parent[c] # NULL /\ \E k \in DOMAIN todo' : 5 < k /\ Holds(todo'[k], "sleep", Parent[c])
  PROVE  \A k \in 1 .. 5 : Right(k)'
<1>1. /\ \A k \in 1 .. 5 : k \in DOMAIN todo' /\ todo'[k].state = c
      /\ todo'[1].op = "slot" /\ todo'[2].op = "exit_child" /\ todo'[3].op = "slot"
      /\ todo'[4].op = "sleep" /\ todo'[5].op = "detach"
  <2>1. \A k \in DOMAIN new : k \in DOMAIN todo' /\ todo'[k] = new[k]
    BY DEF Moves
  <2>2. \A k \in 1 .. 5 : k \in DOMAIN new
    BY DEF ExitFrames
  <2>3. 1 \in 1 .. 5 /\ 2 \in 1 .. 5 /\ 3 \in 1 .. 5 /\ 4 \in 1 .. 5 /\ 5 \in 1 .. 5
    OBVIOUS
  <2>4. \A k \in 1 .. 5 : k \in DOMAIN todo' /\ todo'[k] = new[k]
    BY <2>1, <2>2
  <2>5. todo'[1] = new[1] /\ todo'[2] = new[2] /\ todo'[3] = new[3] /\ todo'[4] = new[4] /\ todo'[5] = new[5]
    BY <2>3, <2>4
  <2>. QED BY <2>4, <2>5 DEF ExitFrames
<1>2. 1 \in DOMAIN todo' /\ 2 \in DOMAIN todo' /\ 3 \in DOMAIN todo' /\ 4 \in DOMAIN todo' /\ 5 \in DOMAIN todo'
      /\ todo'[1].state = c /\ todo'[2].state = c /\ todo'[3].state = c /\ todo'[4].state = c /\ todo'[5].state = c
  BY <1>1
<1>3. Right(1)' /\ Right(3)'
  BY <1>1, <1>2 DEF Right, ExitRight, SleepRight, DetachRight, WakeRight, EnterRight, FirstRight, EnterOps
<1>4. Right(2)'
  <2>1. After(2, "sleep", c)'
    BY <1>1, <1>2 DEF After, Holds
  <2>. QED BY <1>1, <1>2, <2>1 DEF Right, ExitRight, SleepRight, DetachRight, WakeRight, EnterRight, FirstRight, EnterOps
<1>5. Right(4)'
  <2>1. Before(4, "exit_child", c)' /\ After(4, "detach", c)'
    BY <1>1, <1>2 DEF Before, After, Holds
  <2>2. \/ Parent[c] = NULL /\ life' = "dying"
        \/ \E k \in DOMAIN todo' : 4 < k /\ todo'[k].op = "wake" /\ Beside(todo'[k].state, c)
        \/ Parent[c] # NULL /\ After(4, "sleep", Parent[c])'
    <3>1. \A k \in DOMAIN todo' : 5 < k => 4 < k
      BY DEF Moves
    <3>. QED BY <3>1 DEF After
  <2>3. SleepRight(4)'
    BY <1>1, <1>2, <2>1, <2>2 DEF SleepRight, Beside
  <2>. QED BY <1>1, <2>3 DEF Right, ExitRight, DetachRight, WakeRight, EnterRight, FirstRight, EnterOps
<1>6. Right(5)'
  <2>1. Before(5, "sleep", c)'
    BY <1>1, <1>2 DEF Before, Holds
  <2>. QED BY <1>1, <1>2, <2>1 DEF Right, ExitRight, SleepRight, DetachRight, WakeRight, EnterRight, FirstRight, EnterOps
<1>. QED BY <1>3, <1>4, <1>5, <1>6

\* A link that no pending frame is about to cut leads to an active state.
LEMMA Linked ==
  ASSUME ChartInv, NEW c \in State, Link(c) = c, ~After(0, "detach", c)
  PROVE  c \in active
  BY DEF ChartInv, LinksRight

\* The frames of the substate that leaves stand right before those of its parent.
LEMMA Deeper ==
  ASSUME NEW c \in State, Parent[c] # NULL, NEW f, NEW g \in Frame, NEW h,
         f.op = "exit_child", f.state = Parent[c], InOrder(f, g), h.op \in ExitOps \cup {"slot"}, h.state = c
  PROVE  InOrder(h, g)
<1>1. /\ Parent[c] \in State /\ RegionOf[Parent[c]] = RegionOf[c] /\ c \notin Up[Parent[c]]
      /\ Up[c] = {c} \cup Up[Parent[c]]
  BY ParentType, UpAcyclic, UpDef
<1>2. SUFFICES ASSUME g.op \in ChainOps, RegionOf[c] = RegionOf[g.state], h.op \in ExitOps
               PROVE InOrder(h, g)
  BY DEF InOrder, ExitOps, EnterOps, ChainOps
<1>3. /\ g.op \notin {"exit_child", "enter_child"}
      /\ g.op \in {"sleep", "detach"} => g.state \in Up[Parent[c]]
      /\ g.op = "wake" => Parent[g.state] = NULL \/ Parent[c] \notin Up[Parent[g.state]]
  BY <1>1, <1>2 DEF InOrder, ChainOps, ExitOps, EnterOps
<1>4. ASSUME g.op = "wake", Parent[g.state] # NULL, g.state \in State PROVE c \notin Up[Parent[g.state]]
  <2>1. Parent[g.state] \in State
    BY <1>4, ParentType
  <2>2. c \in Up[Parent[g.state]] => Parent[c] \in Up[Parent[g.state]]
    BY <2>1, ParentUp
  <2>. QED BY <1>3, <1>4, <2>2
<1>5. g.state \in State
  BY <1>2, FrameFacts
<1>6. /\ g.op \in {"sleep", "detach"} => g.state \in Up[c] /\ g.state # c
      /\ g.op = "wake" => Parent[g.state] = NULL \/ c \notin Up[Parent[g.state]]
  BY <1>1, <1>3, <1>4, <1>5
<1>. QED BY <1>2, <1>3, <1>6 DEF InOrder, ExitOps, EnterOps

LEMMA ExitChildKeeps ==
  ASSUME ChartInv, exit_active_child
  PROVE  ChartInv' /\ InFlight' \subseteq InFlight /\ NoDeeper
<1>. PICK s, c : s = todo[1].state /\ c = active_child[s]
  OBVIOUS
<1>1. /\ ~Idle /\ Head(todo) = todo[1] /\ todo[1].op = "exit_child" /\ todo[1] \in Frame
      /\ 1 \in DOMAIN todo /\ Right(1) /\ StampRight(1) /\ life \in {"live", "dying"} /\ TypesRight
  BY HeadOf DEF exit_active_child
<1>2. /\ history_child' = IF c # NULL /\ s \in History THEN [history_child EXCEPT ![s] = c] ELSE history_child
      /\ todo' = (IF c = NULL THEN <<>> ELSE Append(exit_state(c), detach(c))) \o Tail(todo)
      /\ UNCHANGED <<life, tick, poisoned, active, deactivated, region_active, active_child, seated, stamp, armed_value>>
  BY <1>1 DEF exit_active_child, watcherVars
<1>3. /\ s \in State /\ c \in State \cup {NULL} /\ NULL \notin State
      /\ c # NULL => Parent[c] = s /\ Link(c) = c /\ RegionOf[c] = RegionOf[s]
      /\ stamp[RegionOf[s]] = tick /\ tick # kNeverTicked /\ RegionOf[s] \in InFlight
      /\ \A q \in active : Parent[q] = s => q = c
      /\ After(1, "sleep", s)
  <2>1. s \in State
    BY <1>1, FrameFacts DEF ChainOps
  <2>2. c \in State \cup {NULL} /\ NULL \notin State
    BY <1>1, <2>1, ParentType DEF TypesRight
  <2>3. c # NULL => Parent[c] = s /\ Link(c) = c /\ RegionOf[c] = RegionOf[s]
    <3>1. c # NULL => Parent[c] = s
      BY <2>1 DEF ChartInv, LinksRight
    <3>. QED BY <2>1, <2>2, <3>1, ParentType DEF Link, Below
  <2>4. stamp[RegionOf[s]] = tick
    BY <1>1 DEF StampRight, ChainOps, ExitOps
  <2>5. tick # kNeverTicked
    BY <1>1 DEF TypesRight, kNeverTicked
  <2>6. RegionOf[s] \in InFlight
    BY <1>1 DEF InFlight, ChainOps
  <2>7. ASSUME NEW q \in active, Parent[q] = s PROVE q = c
    <3>1. Link(q) = q
      BY DEF ChartInv, LinksRight
    <3>. QED BY <2>1, <2>2, <2>7, <3>1 DEF Link, Below
  <2>8. After(1, "sleep", s)
    BY <1>1 DEF Right, ExitRight
  <2>. QED BY <2>1, <2>2, <2>3, <2>4, <2>5, <2>6, <2>7, <2>8
<1>4. PICK new \in Seq(Frame) :
        /\ todo' = new \o Tail(todo)
        /\ c = NULL => DOMAIN new = {}
        /\ c # NULL => Len(new) = 5 /\ DOMAIN new = 1 .. 5 /\ ExitFrames(new, c)
  BY <1>2, <1>3, None0, ExitChain
<1>5. Moves(new, 1)
  BY <1>1, <1>4, MovesHead
<1>6. ASSUME NEW k \in DOMAIN new
      PROVE  /\ c # NULL /\ c \in State /\ k \in 1 .. 5 /\ new[k].state = c /\ new[k].op \in ExitOps \cup {"slot"}
             /\ new[k].op \in ChainOps
  <2>1. c # NULL /\ k \in 1 .. 5 /\ ExitFrames(new, c)
    BY <1>4
  <2>2. k = 1 \/ k = 2 \/ k = 3 \/ k = 4 \/ k = 5
    BY <2>1
  <2>3. new[k].op \in ExitOps \cup {"slot"}
    BY <2>1, <2>2 DEF ExitFrames, ExitOps
  <2>. QED BY <1>3, <2>1, <2>3 DEF ExitFrames, ExitOps, ChainOps
<1>7. InFlight' \subseteq InFlight /\ Entering' \subseteq Entering
  <2>1. \A k \in DOMAIN new : RegionOf[new[k].state] \in InFlight \cup {}
    BY <1>3, <1>6
  <2>2. InFlight' \subseteq InFlight \cup {}
    BY <1>5, <2>1, FlightKept
  <2>. QED BY <1>2, <2>2 DEF Entering
<1>8. EntryUndisturbed'
  <2>1. \A k \in DOMAIN new : new[k].op # "deliver"
    BY <1>6 DEF ExitOps
  <2>. QED BY <1>5, <1>7, <2>1, EntryKept DEF ChartInv
<1>9. /\ history_child' \in [State -> State \cup {NULL}]
      /\ \A q \in State : history_child'[q] \in {NULL, history_child[q]} \/ Parent[history_child'[q]] = q
      /\ \A q \in State : history_child'[q] = history_child[q] \/ q = s
  BY <1>1, <1>2, <1>3 DEF TypesRight
<1>10. UnmarkedRight'
  BY <1>2, <1>3, <1>9 DEF ChartInv, UnmarkedRight
<1>11. \A j \in DOMAIN todo : j > 1 => InOrder(todo[1], todo[j]) /\ todo[j] \in Frame
  BY <1>1, SeqElement DEF ChartInv, StackInOrder, TypesRight
<1>12. \A i \in DOMAIN new, j \in DOMAIN todo : j > 1 => InOrder(new[i], todo[j])
  <2>1. ASSUME NEW i \in DOMAIN new, NEW j \in DOMAIN todo, j > 1 PROVE InOrder(new[i], todo[j])
    <3>1. todo[1].state = s
      OBVIOUS
    <3>. QED BY <1>1, <1>3, <1>6, <1>11, <2>1, <3>1, Deeper
  <2>. QED BY <2>1
<1>13. c # NULL => c \in active
  <2>1. ASSUME c # NULL, NEW j \in DOMAIN todo, Holds(todo[j], "detach", c) PROVE FALSE
    <3>1. j # 1 /\ DOMAIN todo = 1 .. Len(todo)
      BY <1>1, <2>1, Popped DEF Holds
    <3>2. InOrder(todo[1], todo[j]) /\ todo[1].state = s
      BY <1>11, <3>1
    <3>3. c \in Up[s]
      BY <1>1, <1>3, <2>1, <3>2 DEF InOrder, Holds, ChainOps, ExitOps
    <3>. QED BY <1>3, <2>1, <3>3, UpAcyclic
  <2>2. c # NULL => ~After(0, "detach", c)
    BY <2>1 DEF After
  <2>. QED BY <1>3, <2>2, Linked
<1>14. \A k \in DOMAIN new : Right(k)'
  <2>1. SUFFICES ASSUME c # NULL PROVE \A k \in 1 .. 5 : Right(k)'
    BY <1>4
  <2>2. Link(c)' = c
    BY <1>2, <1>3, <2>1 DEF Link, Below
  <2>3. \E k \in DOMAIN todo' : 5 < k /\ Holds(todo'[k], "sleep", s)
    <3>1. PICK j \in DOMAIN todo : 1 < j /\ Holds(todo[j], "sleep", s)
      BY <1>3 DEF After
    <3>2. Len(new) = 5
      BY <1>4, <2>1
    <3>3. j > 1 /\ j + 5 - 1 \in DOMAIN todo' /\ todo'[j + 5 - 1] = todo[j]
      BY <1>5, <3>1, <3>2 DEF Moves
    <3>4. 5 < j + 5 - 1
      <4>1. DOMAIN todo = 1 .. Len(todo)
        BY <1>1, Popped
      <4>2. j \in Int
        BY <4>1
      <4>. QED BY <3>1, <4>2
    <3>. QED BY <3>1, <3>3, <3>4
  <2>. QED BY <1>2, <1>3, <1>4, <1>5, <1>13, <2>1, <2>2, <2>3, ExitPart
<1>15. \A k \in DOMAIN new : StampRight(k)'
  <2>1. ASSUME NEW k \in DOMAIN new PROVE StampRight(k)'
    <3>1. todo'[k] = new[k]
      BY <1>5 DEF Moves
    <3>. QED BY <1>2, <1>3, <1>6, <3>1, ZenonT(40) DEF StampRight, ExitOps, EnterOps
  <2>. QED BY <2>1
<1>16. \A k \in DOMAIN new, j \in DOMAIN todo :
         todo[j].op = "exit_region" => todo[j].region # RegionOf[new[k].state]
  <2>1. \A j \in DOMAIN todo : todo[j].op = "exit_region" => RegionOf[todo[1].state] # todo[j].region
    BY <1>1 DEF ChartInv, PlacesRight, ChainOps
  <2>. QED BY <1>3, <1>6, <2>1
<1>17. \A i, j \in DOMAIN new : i < j => InOrder(new[i], new[j])
  BY <1>3, <1>4, <1>6, ExitOrdered
<1>18. \A q \in active : Parent[q] = todo[1].state => \E k \in DOMAIN new : Holds(new[k], "sleep", q)
  <2>1. ASSUME NEW q \in active, Parent[q] = todo[1].state PROVE \E k \in DOMAIN new : Holds(new[k], "sleep", q)
    <3>1. q = c /\ q # NULL
      BY <1>1, <1>3, <2>1 DEF TypesRight
    <3>2. 4 \in DOMAIN new /\ new[4].op = "sleep" /\ new[4].state = c
      BY <1>4, <3>1 DEF ExitFrames
    <3>. QED BY <3>1, <3>2 DEF Holds
  <2>. QED BY <2>1
<1>19. \A k \in DOMAIN new : new[k].op \notin {"watch", "exit_region", "initial_entry", "wake", "enter_child"}
  BY <1>6 DEF ExitOps
<1>20. StandsStill
  BY <1>1, <1>2, <1>9 DEF StandsStill, TypesRight
<1>21. HeadDone(new, 1)
  BY <1>1, <1>18 DEF HeadDone
<1>22. NewRight(new, 1)
  BY <1>12, <1>14, <1>15, <1>16, <1>17, <1>19 DEF NewRight, EnterOps
<1>90. NoDeeper
  <2>1. \A k \in DOMAIN new : new[k].op # "deliver"
    BY <1>6 DEF ExitOps
  <2>. QED BY <1>1, <1>5, <2>1, DepthMoves
<1>. QED BY <1>90, <1>5, <1>7, <1>8, <1>10, <1>20, <1>21, <1>22, PushKeeps

LEMMA ExitFrameOps ==
  ASSUME NEW c, NEW new, ExitFrames(new, c), NEW k \in 1 .. 5
  PROVE  /\ new[k].op \in ExitOps \cup {"slot"} /\ new[k].op \in ChainOps /\ new[k].state = c
         /\ new[k].op \notin EnterOps
         /\ new[k].op \notin {"watch", "exit_region", "initial_entry", "deliver"}
<1>1. k = 1 \/ k = 2 \/ k = 3 \/ k = 4 \/ k = 5
  OBVIOUS
<1>2. new[k].op \in {"exit_child", "sleep", "detach", "slot"} /\ new[k].state = c
  BY <1>1 DEF ExitFrames
<1>. QED BY <1>2 DEF ExitOps, ChainOps, EnterOps

LEMMA ExitRegionKeeps ==
  ASSUME ChartInv, exit_one_region
  PROVE  ChartInv' /\ life = "dying" /\ NoDeeper
<1>. PICK r, c : r = todo[1].region /\ c = region_active[r]
  OBVIOUS
<1>1. /\ ~Idle /\ Head(todo) = todo[1] /\ todo[1].op = "exit_region" /\ todo[1] \in Frame
      /\ 1 \in DOMAIN todo /\ TypesRight
  BY HeadOf DEF exit_one_region
<1>2. /\ todo' = (IF c = NULL THEN <<>> ELSE Append(exit_state(c), detach(c))) \o Tail(todo)
      /\ UNCHANGED <<life, tick, poisoned, active, deactivated, region_active, active_child, history_child,
                     seated, stamp, armed_value>>
  BY <1>1 DEF exit_one_region, watcherVars, configVars
<1>3. /\ r \in Region /\ life = "dying" /\ stamp[r] = tick /\ tick # kNeverTicked
      /\ \A j \in DOMAIN todo : /\ todo[j].op = "exit_region" /\ todo[j].region = r => j = 1
                                /\ todo[j].op \in ChainOps => RegionOf[todo[j].state] # r
  <2>1. r \in Region
    BY <1>1, FrameFacts
  <2>2. /\ life = "dying"
        /\ \A j \in DOMAIN todo : /\ todo[j].op = "exit_region" /\ todo[j].region = r => j = 1
                                  /\ todo[j].op \in ChainOps => RegionOf[todo[j].state] # r
    BY <1>1 DEF ChartInv, PlacesRight
  <2>3. stamp[r] = tick
    BY <2>1, <2>2 DEF ChartInv, LifeRight
  <2>4. tick # kNeverTicked
    BY <1>1 DEF TypesRight, kNeverTicked
  <2>. QED BY <2>1, <2>2, <2>3, <2>4
<1>4. /\ c \in State \cup {NULL} /\ NULL \notin State
      /\ c # NULL => Parent[c] = NULL /\ Link(c) = c /\ RegionOf[c] = r
  <2>1. c \in State \cup {NULL} /\ NULL \notin State
    BY <1>1, <1>3, ChartAssumption DEF TypesRight
  <2>2. c # NULL => Parent[c] = NULL /\ RegionOf[c] = r
    BY <1>3 DEF ChartInv, LinksRight
  <2>. QED BY <2>1, <2>2 DEF Link, Below
<1>5. c # NULL => c \in active
  <2>1. c # NULL => ~After(0, "detach", c)
    BY <1>3, <1>4 DEF After, Holds, ChainOps
  <2>. QED BY <1>4, <2>1, Linked
<1>6. PICK new \in Seq(Frame) :
        /\ todo' = new \o Tail(todo)
        /\ c = NULL => DOMAIN new = {}
        /\ c # NULL => Len(new) = 5 /\ DOMAIN new = 1 .. 5 /\ ExitFrames(new, c)
  BY <1>2, <1>4, None0, ExitChain
<1>7. Moves(new, 1)
  BY <1>1, <1>6, MovesHead
<1>8. \A k \in DOMAIN new :
        /\ new[k].op \in ExitOps \cup {"slot"} /\ new[k].op \in ChainOps /\ new[k].state = c
        /\ new[k].op \notin EnterOps /\ c # NULL
        /\ new[k].op \notin {"watch", "exit_region", "initial_entry", "deliver"}
  <2>1. ASSUME NEW k \in DOMAIN new PROVE c # NULL /\ k \in 1 .. 5 /\ ExitFrames(new, c)
    BY <1>6
  <2>. HIDE DEF ExitFrames, ExitOps, EnterOps, ChainOps
  <2>. QED BY <2>1, ExitFrameOps
<1>9. EntryUndisturbed'
  <2>1. \A k \in DOMAIN new : RegionOf[new[k].state] \in InFlight \cup {r}
    BY <1>4, <1>8
  <2>2. InFlight' \subseteq InFlight \cup {r}
    BY <1>7, <2>1, FlightKept
  <2>3. Entering' \subseteq Entering
    BY <1>2, <1>3, <2>2 DEF Entering
  <2>. QED BY <1>7, <1>8, <2>3, EntryKept DEF ChartInv
<1>10. UnmarkedRight'
  BY <1>2 DEF ChartInv, UnmarkedRight
<1>11. StandsStill
  BY <1>1, <1>2, <1>3 DEF StandsStill, TypesRight
<1>12. HeadDone(new, 1)
  <2>1. ASSUME NEW s \in active, RegionOf[s] = r, Parent[s] = NULL
        PROVE  \E k \in DOMAIN new : Holds(new[k], "sleep", s)
    <3>1. Link(s) = s /\ s # NULL
      BY <1>1, <1>4 DEF ChartInv, LinksRight, TypesRight
    <3>2. s = c
      BY <2>1, <3>1 DEF Link, Below
    <3>3. 4 \in DOMAIN new /\ new[4].op = "sleep" /\ new[4].state = c
      BY <1>6, <3>1, <3>2 DEF ExitFrames
    <3>. QED BY <3>2, <3>3 DEF Holds
  <2>. QED BY <1>1, <2>1 DEF HeadDone
<1>13. NewRight(new, 1)
  <2>1. \A i, j \in DOMAIN new : i < j => InOrder(new[i], new[j])
    BY <1>4, <1>6, <1>8, ExitOrdered
  <2>2. ASSUME NEW i \in DOMAIN new, NEW j \in DOMAIN todo PROVE InOrder(new[i], todo[j])
    <3>1. todo[j].op \in ChainOps => RegionOf[todo[j].state] # RegionOf[new[i].state]
      BY <1>3, <1>4, <1>8
    <3>. QED BY <3>1 DEF InOrder
  <2>3. ASSUME NEW k \in DOMAIN new PROVE Right(k)'
    <3>1. Link(c)' = c /\ c # NULL /\ k \in 1 .. 5 /\ ExitFrames(new, c)
      BY <1>2, <1>4, <1>6, <1>8 DEF Link, Below
    <3>. QED BY <1>2, <1>3, <1>4, <1>5, <1>7, <3>1, ExitPart
  <2>4. ASSUME NEW k \in DOMAIN new PROVE StampRight(k)'
    <3>1. todo'[k] = new[k]
      BY <1>7 DEF Moves
    <3>. QED BY <1>2, <1>3, <1>4, <1>8, <3>1 DEF StampRight
  <2>5. \A k \in DOMAIN new, j \in DOMAIN todo :
          j > 1 /\ todo[j].op = "exit_region" => todo[j].region # RegionOf[new[k].state]
    BY <1>3, <1>4, <1>8
  <2>. QED BY <1>8, <2>1, <2>2, <2>3, <2>4, <2>5 DEF NewRight
<1>90. NoDeeper
  BY <1>1, <1>7, <1>8, DepthMoves
<1>. QED BY <1>90, <1>3, <1>7, <1>9, <1>10, <1>11, <1>12, <1>13, PushKeeps

LEMMA EnterChildKeeps ==
  ASSUME ChartInv, enter_substate
  PROVE  ChartInv' /\ InFlight' \subseteq InFlight /\ NoDeeper
<1>. PICK f, s : f = todo[1] /\ s = todo[1].state
  OBVIOUS
<1>1. /\ ~Idle /\ Head(todo) = todo[1] /\ todo[1].op = "enter_child" /\ todo[1] \in Frame
      /\ 1 \in DOMAIN todo /\ Right(1) /\ StampRight(1) /\ life \in {"live", "dying"} /\ TypesRight
  BY HeadOf DEF enter_substate
<1>2. PICK next :
        /\ next = IF f.target # NULL /\ f.target # s /\ s \in Up[f.target] THEN Toward(s, f.target)
                  ELSE IF s \in History /\ history_child[s] # NULL THEN history_child[s]
                  ELSE InitialChild[s]
        /\ todo' = (IF next = NULL THEN <<>> ELSE <<wake(next, f.target, f.first)>>) \o Tail(todo)
        /\ UNCHANGED <<life, tick, poisoned, active, deactivated, region_active, active_child, history_child,
                       seated, stamp, armed_value>>
  BY <1>1 DEF enter_substate, watcherVars, configVars
<1>3. /\ s \in State /\ f.target \in State \cup {NULL} /\ f.first \in BOOLEAN /\ NULL \notin State
      /\ RegionOf[s] \in InFlight /\ life # "dying" /\ RegionOf[s] \in Region
      /\ stamp[RegionOf[s]] \in {tick, kNeverTicked}
      /\ stamp[RegionOf[s]] = kNeverTicked <=> f.first
      /\ s \in active
      /\ f.first => f.target = NULL
      /\ ~f.first => \A c \in active : Parent[c] # s
  <2>1. s \in State /\ f.target \in State \cup {NULL} /\ f.first \in BOOLEAN
    BY <1>1, FrameFacts DEF ChainOps, EnterOps
  <2>2. RegionOf[s] \in InFlight
    BY <1>1 DEF InFlight, ChainOps
  <2>3. life # "dying"
    BY <1>1 DEF ChartInv, LifeRight, EnterOps
  <2>4. /\ stamp[RegionOf[s]] \in {tick, kNeverTicked}
        /\ stamp[RegionOf[s]] = kNeverTicked <=> f.first
    BY <1>1 DEF StampRight, ChainOps, EnterOps
  <2>5. /\ ~f.first => s \in active /\ \A c \in active : Parent[c] # s
        /\ f.first => s \in active /\ f.target = NULL
    BY <1>1 DEF Right, EnterRight, FirstRight, EnterOps
  <2>. QED BY <2>1, <2>2, <2>3, <2>4, <2>5, ParentType
<1>4. /\ next # NULL => next \in State /\ Parent[next] = s /\ RegionOf[next] = RegionOf[s]
      /\ next = NULL => InitialChild[s] = NULL
      /\ f.first => next = InitialChild[s]
  <2>1. CASE f.target # NULL /\ f.target # s /\ s \in Up[f.target]
    <3>1. /\ Toward(s, f.target) \in State /\ Parent[Toward(s, f.target)] = s
          /\ RegionOf[Toward(s, f.target)] = RegionOf[f.target] /\ RegionOf[s] = RegionOf[f.target]
      BY <1>3, <2>1, TowardRight, UpClosed
    <3>. QED BY <1>2, <1>3, <2>1, <3>1
  <2>2. CASE ~(f.target # NULL /\ f.target # s /\ s \in Up[f.target])
    <3>1. InitialChild[s] \in State \cup {NULL} /\ (InitialChild[s] # NULL => Parent[InitialChild[s]] = s)
      BY <1>3, ChartAssumption
    <3>2. history_child[s] \in State \cup {NULL} /\ (history_child[s] # NULL => Parent[history_child[s]] = s)
      BY <1>1, <1>3 DEF TypesRight, ChartInv, LinksRight
    <3>3. f.first => history_child[s] = NULL
      BY <1>1, <1>3 DEF ChartInv, UnmarkedRight
    <3>4. next \in {history_child[s], InitialChild[s]} /\ (next = NULL => InitialChild[s] = NULL)
          /\ (f.first => next = InitialChild[s])
      BY <1>2, <2>2, <3>3
    <3>. QED BY <1>3, <3>1, <3>2, <3>4, ParentType
  <2>. QED BY <2>1, <2>2
<1>5. PICK new \in Seq(Frame) :
        /\ todo' = new \o Tail(todo)
        /\ next = NULL => DOMAIN new = {}
        /\ next # NULL => Len(new) = 1 /\ DOMAIN new = {1} /\ new[1] = wake(next, f.target, f.first)
  <2>1. next # NULL => wake(next, f.target, f.first) \in Frame
    BY <1>3, <1>4, FrameTypes
  <2>. QED BY <1>2, <2>1, None0, One
<1>6. Moves(new, 1)
  BY <1>1, <1>5, MovesHead
<1>7. \A k \in DOMAIN new : /\ k = 1 /\ next # NULL /\ new[1].op = "wake" /\ new[1].state = next
                            /\ new[1].target = f.target /\ new[1].first = f.first
  BY <1>5 DEF wake
<1>8. InFlight' \subseteq InFlight /\ EntryUndisturbed'
  <2>1. \A k \in DOMAIN new : RegionOf[new[k].state] \in InFlight \cup {}
    BY <1>3, <1>4, <1>7
  <2>2. InFlight' \subseteq InFlight \cup {}
    BY <1>6, <2>1, FlightKept
  <2>3. Entering' \subseteq Entering
    BY <1>2, <2>2 DEF Entering
  <2>. QED BY <1>6, <1>7, <2>2, <2>3, EntryKept DEF ChartInv
<1>9. UnmarkedRight'
  BY <1>2 DEF ChartInv, UnmarkedRight
<1>10. StandsStill
  BY <1>1, <1>2, <1>3 DEF StandsStill, TypesRight
<1>11. HeadDone(new, 1)
  <2>1. next # NULL => \E k \in DOMAIN new : new[k].op = "wake" /\ Parent[new[k].state] = s
    BY <1>4, <1>5, <1>7
  <2>. QED BY <1>1, <1>4, <2>1 DEF HeadDone
<1>12. NewRight(new, 1)
  <2>1. \A i, j \in DOMAIN new : i < j => InOrder(new[i], new[j])
    BY <1>7
  <2>2. ASSUME NEW i \in DOMAIN new, NEW j \in DOMAIN todo, j > 1 PROVE InOrder(new[i], todo[j])
    <3>1. InOrder(todo[1], todo[j])
      BY <1>1, <2>2 DEF ChartInv, StackInOrder
    <3>2. todo[j].op \in ChainOps /\ RegionOf[todo[j].state] = RegionOf[s] => todo[j].op = "slot"
      BY <1>1, <3>1 DEF InOrder, EnterOps, ChainOps
    <3>. QED BY <1>4, <1>7, <3>2 DEF InOrder, EnterOps, ExitOps
  <2>3. ASSUME NEW k \in DOMAIN new PROVE Right(k)' /\ StampRight(k)'
    <3>1. /\ todo'[k].op = "wake" /\ todo'[k].state = next /\ todo'[k].target = f.target
          /\ todo'[k].first = f.first /\ k = 1 /\ next # NULL
      <4>1. todo'[k] = new[k]
        BY <1>6, <2>3 DEF Moves
      <4>2. k = 1 /\ next # NULL
        BY <1>7, <2>3
      <4>. QED BY <1>7, <2>3, <4>1, <4>2
    <3>2. WakeRight(k)'
      <4>1. CASE f.first
        BY <3>1, <4>1 DEF WakeRight
      <4>2. CASE ~f.first
        <5>1. \A c \in active' : ~Beside(c, next)
          <6>1. active' = active
            BY <1>2
          <6>2. \A c \in active : Parent[c] # s
            BY <1>3, <4>2
          <6>3. Parent[next] = s
            BY <1>4, <3>1
          <6>. QED BY <6>1, <6>2, <6>3 DEF Beside
        <5>2. Parent[next] \in active'
          BY <1>2, <1>3, <1>4, <3>1
        <5>3. \A c \in active' : Beside(c, next) => Before(k, "sleep", c)'
          BY <5>1
        <5>. QED BY <3>1, <5>2, <5>3 DEF WakeRight, Beside
      <4>. QED BY <4>1, <4>2
    <3>3. FirstRight(k)'
      <4>1. f.first => next \in active
        BY <1>3, <1>4, <3>1 DEF ChartInv, UnmarkedRight, LifeRight
      <4>. QED BY <1>2, <1>3, <3>1, <4>1 DEF FirstRight
    <3>4. StampRight(k)'
      <4>1. stamp[RegionOf[next]] \in {tick, kNeverTicked} /\ (stamp[RegionOf[next]] = kNeverTicked <=> f.first)
        BY ONLY <1>3, <1>4, <3>1
      <4>2. stamp' = stamp /\ tick' = tick
        BY ONLY <1>2
      <4>3. "wake" \notin ExitOps
        BY ONLY DEF ExitOps
      <4>4. /\ stamp'[RegionOf[todo'[k].state]] \in {tick', kNeverTicked}
            /\ todo'[k].op \notin ExitOps
            /\ (stamp'[RegionOf[todo'[k].state]] = kNeverTicked <=> todo'[k].first)
        BY ONLY <3>1, <4>1, <4>2, <4>3
      <4>. QED BY ONLY <4>4 DEF StampRight
    <3>. QED BY <3>1, <3>2, <3>3, <3>4 DEF Right, ExitRight, SleepRight, DetachRight, EnterRight
  <2>4. \A k \in DOMAIN new, j \in DOMAIN todo :
          j > 1 /\ todo[j].op = "exit_region" => todo[j].region # RegionOf[new[k].state]
    <3>1. \A j \in DOMAIN todo : todo[j].op = "exit_region" => RegionOf[todo[1].state] # todo[j].region
      BY <1>1 DEF ChartInv, PlacesRight, ChainOps
    <3>. QED BY <1>4, <1>7, <3>1
  <2>. QED BY <1>3, <1>7, <2>1, <2>2, <2>3, <2>4 DEF NewRight
<1>90. NoDeeper
  BY <1>1, <1>6, <1>7, DepthMoves
<1>. QED BY <1>90, <1>6, <1>8, <1>9, <1>10, <1>11, <1>12, PushKeeps

LEMMA InitialEntryKeeps ==
  ASSUME ChartInv, run_initial_entry
  PROVE  ChartInv' /\ InFlight' \subseteq InFlight \cup {q \in Region : stamp[q] = kNeverTicked} /\ NoDeeper
<1>. PICK n, r : n = todo[1].at /\ r = Regions[n]
  OBVIOUS
<1>1. /\ ~Idle /\ Head(todo) = todo[1] /\ todo[1].op = "initial_entry" /\ todo[1] \in Frame
      /\ 1 \in DOMAIN todo /\ TypesRight /\ life \in {"live", "dying"}
  BY HeadOf DEF run_initial_entry
<1>2. /\ todo' = (IF stamp[r] = kNeverTicked THEN <<wake(Initial[r], NULL, TRUE)>> ELSE <<>>)
                   \o (IF n < Len(Regions) THEN <<initial_entry(n + 1)>> ELSE <<>>) \o Tail(todo)
      /\ UNCHANGED <<life, tick, poisoned, active, deactivated, region_active, active_child, history_child,
                     seated, stamp, armed_value>>
  BY <1>1 DEF run_initial_entry, watcherVars, configVars
<1>3. /\ n \in 1 .. Len(Regions) /\ Len(Regions) \in Nat /\ r \in Region
      /\ Initial[r] \in State /\ RegionOf[Initial[r]] = r /\ Parent[Initial[r]] = NULL
  <2>1. n \in DOMAIN Regions /\ Regions \in Seq(Region)
    BY <1>1, FrameFacts, ChartAssumption
  <2>2. r \in Region
    BY <2>1, SeqElement
  <2>3. Initial[r] \in State /\ RegionOf[Initial[r]] = r /\ Parent[Initial[r]] = NULL
    BY <2>2, ChartAssumption
  <2>4. DOMAIN Regions = 1 .. Len(Regions) /\ Len(Regions) \in Nat
    BY <2>1
  <2>. QED BY <2>1, <2>2, <2>3, <2>4
<1>4. Len(todo) = 1 /\ DOMAIN todo = {1}
  <2>1. Len(todo) = 1
    BY <1>1 DEF ChartInv, PlacesRight
  <2>2. DOMAIN todo = 1 .. Len(todo)
    BY <1>1, Popped
  <2>. QED BY <2>1, <2>2
<1> DEFINE w == wake(Initial[r], NULL, TRUE)
           e == initial_entry(n + 1)
<1>5. w \in Frame /\ w.op = "wake" /\ w.state = Initial[r] /\ w.target = NULL /\ w.first = TRUE
  BY <1>3, FrameTypes DEF wake
<1>6. e.op = "initial_entry" /\ (n < Len(Regions) => e \in Frame)
  <2>1. n < Len(Regions) => n + 1 \in DOMAIN Regions
    BY <1>3, ChartAssumption
  <2>. QED BY <2>1 DEF initial_entry, Frame
<1>. HIDE DEF w, e
<1>7. PICK new \in Seq(Frame) :
        /\ todo' = new \o Tail(todo)
        /\ \A k \in DOMAIN new : \/ k = 1 /\ new[k] = w /\ stamp[r] = kNeverTicked
                                 \/ k = Len(new) /\ new[k] = e
  <2>1. PICK chain : Optional(chain, stamp[r] = kNeverTicked, w)
                     /\ chain = IF stamp[r] = kNeverTicked THEN <<w>> ELSE <<>>
    BY <1>5, OneOrNone
  <2>2. PICK rest : Optional(rest, n < Len(Regions), e)
                    /\ rest = IF n < Len(Regions) THEN <<e>> ELSE <<>>
    <3>1. CASE n < Len(Regions)
      <4>1. PICK x : x = <<e>> /\ x \in Seq(Frame) /\ Len(x) = 1 /\ x[1] = e
        BY <1>6, <3>1, One
      <4>2. Optional(x, n < Len(Regions), e)
        BY <3>1, <4>1 DEF Optional
      <4>. QED BY <3>1, <4>1, <4>2
    <3>2. CASE ~(n < Len(Regions))
      <4>1. PICK x : x = <<>> /\ x \in Seq(Frame) /\ Len(x) = 0
        BY None0
      <4>2. Optional(x, n < Len(Regions), e)
        BY <3>2, <4>1 DEF Optional
      <4>. QED BY <3>2, <4>1, <4>2
    <3>. QED BY <3>1, <3>2
  <2>3. todo' = (chain \o rest) \o Tail(todo)
    BY <1>2, <2>1, <2>2 DEF w, e
  <2>4. PICK new : new = chain \o rest
    OBVIOUS
  <2>5. /\ new \in Seq(Frame) /\ Len(new) = Len(chain) + Len(rest) /\ DOMAIN new = 1 .. Len(chain) + Len(rest)
        /\ \A k \in 1 .. Len(chain) : new[k] = chain[k]
        /\ \A k \in Len(chain) + 1 .. Len(chain) + Len(rest) : new[k] = rest[k - Len(chain)]
    <3>1. chain \in Seq(Frame) /\ rest \in Seq(Frame)
      BY <2>1, <2>2 DEF Optional
    <3>. QED BY <2>4, <3>1, Pushed
  <2>6. ASSUME NEW k \in DOMAIN new
        PROVE  \/ k = 1 /\ new[k] = w /\ stamp[r] = kNeverTicked
               \/ k = Len(new) /\ new[k] = e
    <3>1. CASE k \in 1 .. Len(chain)
      BY <2>1, <2>5, <3>1 DEF Optional
    <3>2. CASE k \notin 1 .. Len(chain)
      <4>1. k \in Len(chain) + 1 .. Len(chain) + Len(rest) /\ Len(chain) \in {0, 1} /\ Len(rest) \in {0, 1}
        <5>1. Len(chain) \in {0, 1} /\ Len(rest) \in {0, 1}
          BY <2>1, <2>2 DEF Optional
        <5>2. k \in 1 .. Len(chain) + Len(rest)
          BY <2>5, <2>6
        <5>3. PICK i, j : i = Len(chain) /\ j = Len(rest)
          OBVIOUS
        <5>4. i \in {0, 1} /\ j \in {0, 1} /\ k \in 1 .. i + j /\ k \notin 1 .. i
          BY <3>2, <5>1, <5>2, <5>3
        <5>5. k \in i + 1 .. i + j
          BY <5>4
        <5>. QED BY <5>1, <5>3, <5>5
      <4>2. PICK i, j : i = Len(chain) /\ j = Len(rest)
        OBVIOUS
      <4>3. k - i \in 1 .. j /\ k = i + j
        BY <4>1, <4>2
      <4>. QED BY <2>2, <2>5, <4>1, <4>2, <4>3 DEF Optional
    <3>. QED BY <3>1, <3>2
  <2>. QED BY <2>3, <2>4, <2>5, <2>6
<1>8. Moves(new, 1)
  BY <1>1, <1>7, MovesHead
<1>9. \A k \in DOMAIN todo' : k \in DOMAIN new /\ todo'[k] = new[k]
  <2>1. \A k \in DOMAIN todo' : k \in DOMAIN new
    BY <1>4, <1>8, Origin
  <2>. QED BY <1>8, <2>1 DEF Moves
<1>10. \A k \in DOMAIN new : /\ new[k].op \in {"wake", "initial_entry"}
                             /\ new[k].op = "initial_entry" => k = Len(new)
                             /\ new[k].op = "wake" => k = 1 /\ new[k] = w /\ stamp[r] = kNeverTicked
  BY <1>5, <1>6, <1>7
<1>11. InFlight' \subseteq InFlight \cup {q \in Region : stamp[q] = kNeverTicked}
  <2>1. \A k \in DOMAIN new : new[k].op \in ChainOps =>
          RegionOf[new[k].state] \in InFlight \cup {q \in Region : stamp[q] = kNeverTicked}
    BY <1>3, <1>5, <1>10 DEF ChainOps
  <2>. QED BY <1>8, <2>1, FlightKept
<1>12. EntryUndisturbed'
  BY <1>9, <1>10 DEF EntryUndisturbed
<1>13. UnmarkedRight'
  BY <1>2 DEF ChartInv, UnmarkedRight
<1>14. StandsStill
  BY <1>1, <1>2 DEF StandsStill, TypesRight
<1>15. HeadDone(new, 1)
  BY <1>1 DEF HeadDone
<1>16. stamp[r] = kNeverTicked => life = "live" /\ Initial[r] \in active
  <2>1. tick # kNeverTicked
    BY <1>1 DEF TypesRight, kNeverTicked
  <2>. QED BY <1>1, <1>3, <2>1 DEF ChartInv, LifeRight, UnmarkedRight
<1>17. NewRight(new, 1)
  <2>1. ASSUME NEW i \in DOMAIN new, NEW j \in DOMAIN new, i < j PROVE InOrder(new[i], new[j])
    <3>1. ~(new[i].op \in ChainOps /\ new[j].op \in ChainOps)
      BY <1>7, <1>10, <2>1 DEF ChainOps
    <3>. QED BY <3>1 DEF InOrder
  <2>2. ASSUME NEW k \in DOMAIN new PROVE Right(k)' /\ StampRight(k)'
    <3>1. todo'[k] = new[k]
      BY <1>8 DEF Moves
    <3>2. CASE new[k].op = "initial_entry"
      BY <3>1, <3>2 DEF Right, ExitRight, SleepRight, DetachRight, WakeRight, EnterRight, FirstRight,
         EnterOps, StampRight, ChainOps
    <3>3. CASE new[k].op = "wake"
      <4>1. /\ todo'[k].op = "wake" /\ todo'[k].state = Initial[r] /\ todo'[k].target = NULL
            /\ todo'[k].first = TRUE /\ stamp[r] = kNeverTicked
        BY <1>5, <1>10, <3>1, <3>3
      <4>2. StampRight(k)'
        BY <1>2, <1>3, <4>1 DEF StampRight, ExitOps
      <4>. QED BY <1>2, <1>16, <4>1, <4>2 DEF Right, ExitRight, SleepRight, DetachRight, WakeRight,
                  EnterRight, FirstRight
    <3>. QED BY <1>10, <3>2, <3>3
  <2>3. \A j \in DOMAIN todo : ~(j > 1)
    BY <1>4
  <2>. QED BY <1>4, <1>10, <1>16, <2>1, <2>2, <2>3 DEF NewRight, EnterOps
<1>90. NoDeeper
  BY <1>1, <1>8, <1>10, DepthMoves
<1>. QED BY <1>90, <1>8, <1>11, <1>12, <1>13, <1>14, <1>15, <1>17, PushKeeps

-----------------------------------------------------------------------------
\* What the pairs of the transition table are.
LEMMA PairFacts ==
  ASSUME NEW n \in DOMAIN Transitions
  PROVE  /\ n \in Nat \ {0} /\ n <= Len(Transitions)
         /\ Transitions[n].priority \in Int /\ Transitions[n].target \in State
<1> DEFINE Pair == [event : Event, source : State \cup {NULL}, target : State,
                    priority : Int, filtered : BOOLEAN]
<1>1. \A x \in Pair : x.priority \in Int /\ x.target \in State
  OBVIOUS
<1>2. Transitions \in Seq(Pair)
  BY TableAssumption
<1>. HIDE DEF Pair
<1>3. Transitions[n] \in Pair
  BY <1>2, SeqElement
<1>4. n \in 1 .. Len(Transitions) /\ Len(Transitions) \in Nat
  BY <1>2
<1>5. n \in Nat \ {0} /\ n <= Len(Transitions)
  BY <1>4
<1>. QED BY <1>1, <1>3, <1>5

\* Highest priority, then declaration order: among some pairs there is one.
LEMMA WinnerIn ==
  ASSUME NEW C \in SUBSET DOMAIN Transitions, C # {}
  PROVE  Winner(C) \in C
<1> DEFINE wins(i, j) == \/ Transitions[i].priority > Transitions[j].priority
                         \/ Transitions[i].priority = Transitions[j].priority /\ i <= j
           best(i, n) == i \in C /\ i <= n /\ \A j \in C : j <= n => wins(i, j)
           bad == {n \in Nat : (\E i \in C : i <= n) /\ \A i \in C : ~best(i, n)}
<1>1. \A i \in C : i \in Nat \ {0} /\ i <= Len(Transitions) /\ Transitions[i].priority \in Int
  BY PairFacts
<1>2. Len(Transitions) \in Nat
  BY TableAssumption
<1>3. PICK p : p = [i \in C |-> Transitions[i].priority]
  OBVIOUS
<1>4. /\ \A i \in C : p[i] \in Int
      /\ \A i, j \in C : wins(i, j) <=> p[i] > p[j] \/ (p[i] = p[j] /\ i <= j)
  BY <1>1, <1>3
<1>. HIDE DEF wins
<1>5. bad = {}
  <2>1. ASSUME bad # {} PROVE FALSE
    <3>1. PICK n \in bad : \A m \in bad : n <= m
      <4>. HIDE DEF bad
      <4>1. bad \in SUBSET Nat
        BY DEF bad
      <4>. QED BY <2>1, <4>1, LeastOf
    <3>2. PICK i \in C : i <= n
      BY <3>1
    <3>3. n \in Nat /\ n - 1 \in Nat /\ n - 1 < n
      BY <1>1, <3>1, <3>2
    <3>4. n - 1 \notin bad
      BY <3>1, <3>3
    <3>5. CASE \E b \in C : best(b, n - 1)
      <4>1. PICK b \in C : best(b, n - 1)
        BY <3>5
      <4>2. CASE n \in C
        <5>1. CASE p[n] > p[b]
          <6>1. ASSUME NEW j \in C, j <= n PROVE wins(n, j)
            <7>1. CASE j = n
              BY <1>1, <1>4, <4>2, <7>1
            <7>2. CASE j # n
              <8>1. j <= n - 1
                BY <1>1, <3>3, <6>1, <7>2
              <8>2. wins(b, j)
                BY <4>1, <8>1
              <8>. QED BY <1>4, <4>2, <5>1, <8>2
            <7>. QED BY <7>1, <7>2
          <6>2. n <= n
            BY <3>3
          <6>. QED BY <3>1, <4>2, <6>1, <6>2
        <5>2. CASE ~(p[n] > p[b])
          <6>1. wins(b, n)
            <7>1. b <= n - 1 /\ b \in Int
              BY <1>1, <4>1
            <7>. QED BY <1>4, <3>3, <4>2, <5>2, <7>1
          <6>2. ASSUME NEW j \in C, j <= n PROVE wins(b, j)
            <7>1. j = n \/ j <= n - 1
              BY <1>1, <3>3, <6>2
            <7>. QED BY <4>1, <6>1, <7>1
          <6>3. b <= n
            BY <1>1, <3>3, <4>1
          <6>. QED BY <3>1, <6>2, <6>3
        <5>. QED BY <5>1, <5>2
      <4>3. CASE n \notin C
        <5>1. ASSUME NEW j \in C, j <= n PROVE wins(b, j)
          <6>1. j <= n - 1
            BY <1>1, <3>3, <4>3, <5>1
          <6>. QED BY <4>1, <6>1
        <5>2. b <= n
          BY <1>1, <3>3, <4>1
        <5>. QED BY <3>1, <5>1, <5>2
      <4>. QED BY <4>2, <4>3
    <3>6. CASE ~\E b \in C : best(b, n - 1)
      <4>1. \A j \in C : ~(j <= n - 1)
        BY <3>3, <3>4, <3>6
      <4>2. \A j \in C : j <= n => j = n
        BY <1>1, <3>3, <4>1
      <4>3. i = n /\ wins(n, n)
        BY <1>1, <1>4, <3>2, <4>2
      <4>4. best(n, n)
        BY <3>2, <3>3, <4>2, <4>3
      <4>. QED BY <3>1, <3>2, <4>3, <4>4
    <3>. QED BY <3>5, <3>6
  <2>. QED BY <2>1
<1>6. PICK i \in C : best(i, Len(Transitions))
  BY <1>1, <1>2, <1>5
<1>7. \A j \in C : wins(i, j)
  BY <1>1, <1>6
<1>. QED BY <1>7 DEF Winner, wins

\* A region in which no chain is working: its links lead to active states, the
\* anchor of a transition is active and its one active substate exits.
LEMMA TransitionShape ==
  ASSUME ChartInv, NEW r \in Region, r \notin InFlight, NEW t \in State, RegionOf[t] = r,
         NEW a, a = Deepest((Chain(r) \cap Up[t]) \ {t})
  PROVE  /\ a = NULL \/ (a \in active /\ a \in State /\ a \in Up[t] /\ a # t)
         /\ Below(r, a) = NULL \/
              /\ Below(r, a) \in active /\ Below(r, a) \in State /\ Link(Below(r, a)) = Below(r, a)
              /\ Parent[Below(r, a)] = a /\ RegionOf[Below(r, a)] = r
         /\ Toward(a, t) \in State /\ Parent[Toward(a, t)] = a /\ RegionOf[Toward(a, t)] = r
         /\ \A c \in active : Beside(c, Toward(a, t)) => c = Below(r, a)
<1>1. TypesRight /\ LinksRight /\ NULL \notin State
  BY ChartAssumption DEF ChartInv
<1>2. ASSUME NEW c \in State, RegionOf[c] = r, Link(c) = c PROVE c \in active
  <2>1. ~After(0, "detach", c)
    BY <1>2 DEF After, Holds, InFlight, ChainOps
  <2>. QED BY <1>2, <2>1, Linked
<1> DEFINE S == (Chain(r) \cap Up[t]) \ {t}
<1>3. S \in SUBSET State
  BY DEF Chain
<1>4. ASSUME NEW c \in S PROVE c \in active /\ Link(c) = c /\ RegionOf[c] = r /\ c \in Up[t] /\ c # t
  <2>1. c \in State /\ RegionOf[c] = r /\ c = Below(r, Parent[c])
    BY <1>4, UpClosed DEF Chain
  <2>2. Link(c) = c
    BY <2>1 DEF Link
  <2>. QED BY <1>2, <1>4, <2>1, <2>2
<1>5. ASSUME NEW c \in S, Parent[c] # NULL PROVE Parent[c] \in S
  <2>1. c \in State /\ Parent[c] \in State /\ Parent[c] \in Up[t] /\ RegionOf[Parent[c]] = r
    BY <1>3, <1>4, <1>5, ParentUp, ParentType
  <2>2. Up[Parent[c]] \subseteq Up[c]
    BY <1>5, <2>1, UpDef
  <2>3. Parent[c] \in Chain(r)
    BY <1>5, <2>1, <2>2 DEF Chain
  <2>4. Parent[c] # t
    BY <1>4, <1>5, <2>1, UpAcyclic
  <2>. QED BY <2>1, <2>3, <2>4
<1>6. ASSUME NEW c \in S, NEW u \in S, Beside(c, u) PROVE c = u
  BY <1>4, <1>6 DEF Beside, Link
<1>. HIDE DEF S
<1>7. a = NULL \/ (a \in S /\ \A c \in S : Parent[c] # a)
  <2>1. a = Deepest(S)
    BY DEF S
  <2>2. CASE S = {}
    BY <2>1, <2>2 DEF Deepest
  <2>3. CASE S # {}
    BY <1>3, <1>4, <1>5, <1>6, <2>1, <2>3, DeepestRight
  <2>. QED BY <2>2, <2>3
<1>8. a = NULL \/ (a \in active /\ a \in State /\ a \in Up[t] /\ a # t /\ RegionOf[a] = r)
  BY <1>3, <1>4, <1>7
<1>9. /\ Toward(a, t) \in State /\ Parent[Toward(a, t)] = a /\ RegionOf[Toward(a, t)] = r
  BY <1>8, TowardRight
<1>10. ASSUME Below(r, a) # NULL
       PROVE  /\ Below(r, a) \in active /\ Below(r, a) \in State /\ Link(Below(r, a)) = Below(r, a)
              /\ Parent[Below(r, a)] = a /\ RegionOf[Below(r, a)] = r
  <2>1. PICK x : x = Below(r, a)
    OBVIOUS
  <2>2. x \in State /\ Parent[x] = a /\ RegionOf[x] = r
    <3>1. CASE a = NULL
      BY <1>1, <1>10, <2>1, <3>1 DEF Below, TypesRight, LinksRight
    <3>2. CASE a # NULL
      <4>1. x = active_child[a] /\ a \in State /\ RegionOf[a] = r
        BY <1>8, <2>1, <3>2 DEF Below
      <4>2. x \in State /\ Parent[x] = a
        BY <1>1, <1>10, <2>1, <4>1 DEF TypesRight, LinksRight
      <4>. QED BY <3>2, <4>1, <4>2, ParentType
    <3>. QED BY <3>1, <3>2
  <2>3. Link(x) = x
    BY <2>1, <2>2 DEF Link
  <2>. QED BY <1>2, <2>1, <2>2, <2>3
<1>11. ASSUME NEW c \in active, Beside(c, Toward(a, t)) PROVE c = Below(r, a)
  <2>1. Link(c) = c
    BY <1>1 DEF LinksRight
  <2>. QED BY <1>9, <1>11, <2>1 DEF Link, Beside
<1>. QED BY <1>8, <1>9, <1>10, <1>11

\* Two frames behind some others.
Joins(new, x, f, g, rest) ==
  /\ new \in Seq(Frame) /\ (x \o <<f>>) \o (<<g>> \o rest) = new \o rest
  /\ Len(new) = Len(x) + 2 /\ DOMAIN new = 1 .. Len(x) + 2 /\ Len(x) \in Nat
  /\ \A k \in 1 .. Len(x) : new[k] = x[k]
  /\ new[Len(x) + 1] = f /\ new[Len(x) + 2] = g

LEMMA Joined ==
  ASSUME NEW x \in Seq(Frame), NEW f \in Frame, NEW g \in Frame, NEW rest \in Seq(Frame)
  PROVE  \E new : Joins(new, x, f, g, rest)
<1>1. PICK new : new = Append(Append(x, f), g)
  OBVIOUS
<1>2. /\ new \in Seq(Frame) /\ Len(new) = Len(x) + 2 /\ DOMAIN new = 1 .. Len(x) + 2 /\ Len(x) \in Nat
      /\ new[Len(x) + 1] = f /\ new[Len(x) + 2] = g
  BY <1>1
<1>3. \A k \in 1 .. Len(x) : new[k] = x[k]
  BY <1>1
<1>4. PICK y : y = x \o <<f>>
  OBVIOUS
<1>5. PICK z : z = <<g>> \o rest
  OBVIOUS
<1>6. /\ y \in Seq(Frame) /\ Len(y) = Len(x) + 1 /\ y[Len(x) + 1] = f
      /\ \A k \in 1 .. Len(x) : y[k] = x[k]
  BY <1>4
<1>7. /\ z \in Seq(Frame) /\ Len(z) = Len(rest) + 1 /\ z[1] = g /\ Len(rest) \in Nat
      /\ \A k \in 2 .. Len(rest) + 1 : z[k] = rest[k - 1]
  BY <1>5
<1>8. PICK a, b : a = y \o z /\ b = new \o rest
  OBVIOUS
<1>9. /\ a \in Seq(Frame) /\ Len(a) = Len(y) + Len(z)
      /\ \A k \in 1 .. Len(y) : a[k] = y[k]
      /\ \A k \in Len(y) + 1 .. Len(y) + Len(z) : a[k] = z[k - Len(y)]
  <2>1. y \in Seq(Frame) /\ z \in Seq(Frame) /\ a = y \o z
    BY <1>6, <1>7, <1>8
  <2>. QED BY <2>1, Pushed
<1>10. /\ b \in Seq(Frame) /\ Len(b) = Len(new) + Len(rest)
       /\ \A k \in 1 .. Len(new) : b[k] = new[k]
       /\ \A k \in Len(new) + 1 .. Len(new) + Len(rest) : b[k] = rest[k - Len(new)]
  <2>1. new \in Seq(Frame) /\ rest \in Seq(Frame) /\ b = new \o rest
    BY <1>2, <1>8
  <2>. QED BY <2>1, Pushed
<1>11. PICK n, m : n = Len(x) /\ m = Len(rest) /\ n \in Nat /\ m \in Nat
  BY <1>2, <1>7
<1>12. Len(a) = n + m + 2 /\ Len(b) = n + m + 2
  BY <1>2, <1>6, <1>7, <1>9, <1>10, <1>11
<1>13. ASSUME NEW k \in 1 .. n + m + 2 PROVE a[k] = b[k]
  <2>1. CASE k \in 1 .. n
    <3>1. k \in 1 .. n + 1 /\ k \in 1 .. n + 2
      BY <1>11, <2>1
    <3>. QED BY <1>2, <1>3, <1>6, <1>9, <1>10, <1>11, <2>1, <3>1
  <2>2. CASE k = n + 1
    <3>1. k \in 1 .. n + 1 /\ k \in 1 .. n + 2
      BY <1>11, <2>2
    <3>. QED BY <1>2, <1>6, <1>9, <1>10, <1>11, <2>2, <3>1
  <2>3. CASE k = n + 2
    <3>1. k \in n + 2 .. n + m + 2 /\ k \in 1 .. n + 2 /\ k - (n + 1) = 1
      BY <1>11, <2>3
    <3>2. a[k] = z[k - (n + 1)]
      <4>1. Len(y) = n + 1 /\ Len(y) + 1 = n + 2 /\ Len(y) + Len(z) = n + m + 2
        BY <1>6, <1>7, <1>11
      <4>. QED BY <1>9, <3>1, <4>1
    <3>. QED BY <1>2, <1>7, <1>10, <1>11, <2>3, <3>1, <3>2
  <2>4. CASE k > n + 2
    <3>1. /\ k \in n + 2 .. n + m + 2 /\ k \in n + 3 .. n + m + 2
          /\ k - (n + 1) \in 2 .. m + 1 /\ (k - (n + 1)) - 1 = k - (n + 2)
      BY <1>11, <2>4
    <3>2. a[k] = z[k - (n + 1)]
      <4>1. Len(y) = n + 1 /\ Len(y) + 1 = n + 2 /\ Len(y) + Len(z) = n + m + 2
        BY <1>6, <1>7, <1>11
      <4>. QED BY <1>9, <3>1, <4>1
    <3>3. b[k] = rest[k - (n + 2)]
      <4>1. Len(new) = n + 2 /\ Len(new) + 1 = n + 3 /\ Len(new) + Len(rest) = n + m + 2
        BY <1>2, <1>7, <1>11
      <4>. QED BY <1>10, <3>1, <4>1
    <3>4. z[k - (n + 1)] = rest[k - (n + 2)]
      BY <1>7, <1>11, <3>1
    <3>. QED BY <3>2, <3>3, <3>4
  <2>. QED BY <1>11, <2>1, <2>2, <2>3, <2>4
<1>14. a = b
  <2>1. DOMAIN a = 1 .. n + m + 2 /\ DOMAIN b = 1 .. n + m + 2
    BY <1>9, <1>10, <1>12
  <2>2. a = [k \in DOMAIN a |-> a[k]] /\ b = [k \in DOMAIN b |-> b[k]]
    BY <1>9, <1>10
  <2>. QED BY <1>13, <2>1, <2>2
<1>. QED BY <1>2, <1>3, <1>4, <1>5, <1>8, <1>14 DEF Joins

\* An unmarked region that an event may transition has no chain under way.
LEMMA UnmarkedIdle ==
  ASSUME ChartInv, ~ReentrantEntry, NextRegion, NEW r \in Region, ~marked(r),
         NEW n \in DOMAIN Transitions,
         Transitions[n].event = todo[1].event, RegionOf[Transitions[n].target] = r
  PROVE  /\ r \notin InFlight /\ life = "live"
         /\ \A j \in DOMAIN todo : todo[j].op # "exit_region"
<1>1. todo[1].op = "deliver" /\ 1 \in DOMAIN todo /\ ~Idle
  BY RestOfDelivery
<1>2. life = "live"
  BY <1>1, Alive DEF ChartInv, LifeRight, marked
<1>3. r \notin Entering
  BY <1>1 DEF ChartInv, EntryUndisturbed
<1>4. ASSUME NEW j \in DOMAIN todo, todo[j].op \in ChainOps, RegionOf[todo[j].state] = r PROVE FALSE
  <2>1. stamp[r] = kNeverTicked
    BY <1>4 DEF ChartInv, FramesRight, StampRight, marked
  <2>2. r \in InFlight
    BY <1>4 DEF InFlight
  <2>. QED BY <1>3, <2>1, <2>2 DEF Entering
<1>5. r \notin InFlight
  BY <1>4 DEF InFlight
<1>. QED BY <1>2, <1>5 DEF ChartInv, PlacesRight

LEMMA ExecuteKeeps ==
  ASSUME ChartInv, ~ReentrantEntry, NextRegion, NEW r \in Region, ~marked(r),
         NEW n \in DOMAIN Transitions,
         Transitions[n].event = todo[1].event, RegionOf[Transitions[n].target] = r,
         execute_transition(r, Transitions[n].target, rest_of_delivery),
         UNCHANGED <<life, tick, poisoned, configVars, watcherVars>>
  PROVE  ChartInv' /\ InFlight' \subseteq InFlight \cup {r} /\ NoDeeper
<1>. PICK t, a, x, y : /\ t = Transitions[n].target /\ a = Deepest((Chain(r) \cap Up[t]) \ {t})
                       /\ x = Below(r, a) /\ y = Toward(a, t)
  OBVIOUS
<1>1. /\ r \notin InFlight /\ life = "live" /\ \A j \in DOMAIN todo : todo[j].op # "exit_region"
  BY UnmarkedIdle
<1>2. t \in State /\ RegionOf[t] = r /\ NULL \notin State
  BY PairFacts, ChartAssumption
<1>3. /\ a = NULL \/ (a \in active /\ a \in State)
      /\ x = NULL \/ (x \in active /\ x \in State /\ Link(x) = x /\ Parent[x] = a /\ RegionOf[x] = r)
      /\ y \in State /\ Parent[y] = a /\ RegionOf[y] = r
      /\ \A c \in active : Beside(c, y) => c = x
  BY <1>1, <1>2, TransitionShape
<1>4. /\ UNCHANGED <<life, tick, poisoned, active, deactivated, region_active, active_child, history_child,
                     seated, armed_value>>
      /\ stamp' = [stamp EXCEPT ![r] = tick]
  BY DEF configVars, watcherVars, execute_transition
<1>5. /\ TypesRight /\ todo[1].op = "deliver" /\ todo[1] \in Frame /\ ~Idle /\ 1 \in DOMAIN todo
      /\ stamp \in [Region -> kNeverTicked .. MaxTick] /\ tick \in 0 .. MaxTick
  BY RestOfDelivery DEF ChartInv, TypesRight
<1>6. tick # kNeverTicked /\ tick \in kNeverTicked .. MaxTick
  BY <1>5, TableAssumption DEF kNeverTicked
<1>7. stamp'[r] = tick /\ \A q \in Region : q # r => stamp'[q] = stamp[q]
  BY <1>4, <1>5
<1>8. PICK w, e, rest :
        /\ w = wake(y, t, FALSE) /\ e = deliver(todo[1].event, todo[1].at + 1) /\ rest = Tail(todo)
        /\ w \in Frame /\ e \in Frame /\ rest \in Seq(Frame)
        /\ w.op = "wake" /\ w.state = y /\ w.first = FALSE
        /\ e.op = "deliver" /\ e.event = todo[1].event
        /\ rest_of_delivery = <<e>> \o rest
  <2>1. wake(y, t, FALSE) \in Frame
    BY <1>2, <1>3, FrameTypes
  <2>2. Tail(todo) \in Seq(Frame)
    BY <1>5, Popped
  <2>3. /\ deliver(todo[1].event, todo[1].at + 1) \in Frame
        /\ rest_of_delivery = <<deliver(todo[1].event, todo[1].at + 1)>> \o Tail(todo)
    BY RestOfDelivery
  <2>4. PICK w, e, rest : /\ w = wake(y, t, FALSE) /\ e = deliver(todo[1].event, todo[1].at + 1)
                          /\ rest = Tail(todo)
    OBVIOUS
  <2>5. /\ w.op = "wake" /\ w.state = y /\ w.first = FALSE
        /\ e.op = "deliver" /\ e.event = todo[1].event
    BY <2>4 DEF wake, deliver
  <2>. QED BY <2>1, <2>2, <2>3, <2>4, <2>5
<1>9. PICK exits : /\ exits = IF x = NULL THEN <<>> ELSE Append(exit_state(x), detach(x))
                   /\ todo' = exits \o <<w>> \o rest_of_delivery
                   /\ exits \in Seq(Frame)
                   /\ x = NULL => Len(exits) = 0
                   /\ x # NULL => Len(exits) = 5 /\ DOMAIN exits = 1 .. 5 /\ ExitFrames(exits, x)
  <2>1. todo' = (IF x = NULL THEN <<>> ELSE Append(exit_state(x), detach(x))) \o <<w>> \o rest_of_delivery
    BY <1>8 DEF execute_transition
  <2>2. CASE x = NULL
    BY <2>1, <2>2, None0
  <2>3. CASE x # NULL
    BY <1>3, <2>1, <2>3, ExitChain
  <2>. QED BY <2>2, <2>3
<1>10. PICK new :
         /\ new \in Seq(Frame) /\ todo' = new \o Tail(todo)
         /\ Len(new) = Len(exits) + 2 /\ DOMAIN new = 1 .. Len(exits) + 2 /\ Len(exits) \in Nat
         /\ \A k \in 1 .. Len(exits) : new[k] = exits[k]
         /\ new[Len(exits) + 1] = w /\ new[Len(exits) + 2] = e
  <2>1. todo' = (exits \o <<w>>) \o (<<e>> \o rest)
    BY <1>8, <1>9
  <2>2. PICK new : Joins(new, exits, w, e, rest)
    BY <1>8, <1>9, Joined
  <2>. QED BY <1>8, <2>1, <2>2 DEF Joins
<1>11. PICK m \in Nat : m = Len(exits)
  BY <1>10
<1>12. /\ DOMAIN new = 1 .. m + 2 /\ new[m + 1] = w /\ new[m + 2] = e
       /\ x = NULL => m = 0
       /\ x # NULL => m = 5 /\ ExitFrames(new, x)
  <2>1. DOMAIN new = 1 .. m + 2 /\ new[m + 1] = w /\ new[m + 2] = e
    BY <1>10, <1>11
  <2>2. ASSUME x # NULL PROVE m = 5 /\ ExitFrames(new, x)
    <3>1. m = 5 /\ ExitFrames(exits, x)
      BY <1>9, <1>11, <2>2
    <3>2. 1 .. 5 \subseteq DOMAIN new /\ \A k \in 1 .. 5 : new[k] = exits[k]
      BY <1>10, <1>11, <2>1, <3>1
    <3>. QED BY <3>1, <3>2 DEF ExitFrames
  <2>. QED BY <1>9, <1>11, <2>1, <2>2
<1>13. Moves(new, 1)
  BY <1>5, <1>10, MovesHead
<1>14. \A k \in DOMAIN new :
         \/ k \in 1 .. 5 /\ k <= m /\ x # NULL /\ m = 5 /\ ExitFrames(new, x)
            /\ new[k].op \in ExitOps \cup {"slot"} /\ new[k].state = x
         \/ k = m + 1 /\ new[k] = w
         \/ k = m + 2 /\ new[k] = e
  <2>1. ASSUME NEW k \in DOMAIN new PROVE k = m + 1 \/ k = m + 2 \/ (k \in 1 .. m /\ m # 0)
    BY <1>11, <1>12
  <2>2. ASSUME NEW k \in 1 .. m, m # 0
        PROVE  /\ k \in 1 .. 5 /\ k <= m /\ x # NULL /\ m = 5 /\ ExitFrames(new, x)
               /\ new[k].op \in ExitOps \cup {"slot"} /\ new[k].state = x
    <3>1. x # NULL /\ m = 5 /\ ExitFrames(new, x) /\ k \in 1 .. 5 /\ k <= m
      BY <1>12, <2>2
    <3>2. new[k].op \in ExitOps \cup {"slot"} /\ new[k].state = x
      BY <3>1, ExitFrameOps
    <3>. QED BY <3>1, <3>2
  <2>. QED BY <1>12, <2>1, <2>2
<1>15. \A k \in DOMAIN new :
         /\ new[k].op \in ChainOps => RegionOf[new[k].state] = r /\ new[k] # e
         /\ new[k].op \in ExitOps \cup {"slot", "wake", "deliver"}
         /\ new[k].op = "deliver" => new[k] = e
         /\ new[k].op = "wake" => new[k] = w
  <2>1. SUFFICES ASSUME NEW k \in DOMAIN new
                 PROVE  /\ new[k].op \in ChainOps => RegionOf[new[k].state] = r /\ new[k] # e
                        /\ new[k].op \in ExitOps \cup {"slot", "wake", "deliver"}
                        /\ new[k].op = "deliver" => new[k] = e
                        /\ new[k].op = "wake" => new[k] = w
    OBVIOUS
  <2>2. CASE x # NULL /\ new[k].op \in ExitOps \cup {"slot"} /\ new[k].state = x
    BY <1>3, <1>8, <2>2 DEF ChainOps, ExitOps
  <2>3. CASE new[k] = w
    BY <1>3, <1>8, <2>3 DEF ChainOps, ExitOps
  <2>4. CASE new[k] = e
    BY <1>3, <1>8, <2>4 DEF ChainOps, ExitOps
  <2>. QED BY <1>14, <2>1, <2>2, <2>3, <2>4
<1>16. InFlight' \subseteq InFlight \cup {r}
  <2>1. \A k \in DOMAIN new : new[k].op \in ChainOps => RegionOf[new[k].state] \in InFlight \cup {r}
    BY <1>15
  <2>. QED BY <1>13, <2>1, FlightKept
<1>17. EntryUndisturbed'
  <2>1. Entering' \subseteq Entering
    <3>1. InFlight \subseteq Region
      <4>1. ASSUME NEW j \in DOMAIN todo, todo[j].op \in ChainOps PROVE RegionOf[todo[j].state] \in Region
        <5>1. todo[j] \in Frame
          BY <1>5, SeqElement DEF TypesRight
        <5>. QED BY <4>1, <5>1, FrameFacts, ParentType
      <4>. QED BY <4>1 DEF InFlight
    <3>. QED BY <1>6, <1>7, <1>16, <3>1 DEF Entering
  <2>2. \A k \in DOMAIN new : new[k].op = "deliver" =>
          \E j \in DOMAIN todo : todo[j].op = "deliver" /\ todo[j].event = new[k].event
    BY <1>5, <1>8, <1>15, ZenonT(40)
  <2>. QED BY <1>13, <2>1, <2>2, EntryKept DEF ChartInv
<1>18. UnmarkedRight'
  BY <1>4, <1>6, <1>7 DEF ChartInv, UnmarkedRight
<1>19. StandsStill
  <2>1. stamp' \in [Region -> kNeverTicked .. MaxTick]
    BY <1>4, <1>5, <1>6
  <2>2. \A q \in InFlight : stamp'[q] = stamp[q]
    BY <1>1, <1>4, <1>5
  <2>. QED BY <1>1, <1>4, <1>5, <2>1, <2>2 DEF StandsStill, TypesRight
<1>20. HeadDone(new, 1)
  BY <1>5 DEF HeadDone
<1>21. ASSUME NEW i \in DOMAIN new, NEW j \in DOMAIN new, i < j PROVE InOrder(new[i], new[j])
  <2>1. CASE new[j].op \in ExitOps \cup {"slot"}
    <3>1. j \in 1 .. 5 /\ j <= m /\ x # NULL /\ ExitFrames(new, x)
      BY <1>8, <1>14, <2>1 DEF ExitOps
    <3>2. i \in 1 .. 5
      BY <1>12, <1>21, <3>1
    <3>. QED BY <1>3, <1>21, <3>1, <3>2, ExitOrdered
  <2>2. CASE new[j].op = "wake"
    <3>1. new[j] = w
      BY <1>15, <2>2
    <3>2. new[i].op \in ExitOps => new[i].state = x /\ x # NULL
      BY <1>8, <1>14 DEF ExitOps
    <3>3. new[i].op \notin EnterOps
      <4>1. ASSUME new[i].op = "wake" PROVE FALSE
        <5>1. i = m + 1
          BY <1>8, <1>14, <4>1 DEF ExitOps
        <5>2. j = m + 1
          BY <1>8, <1>14, <2>2 DEF ExitOps
        <5>. QED BY <1>11, <1>21, <5>1, <5>2
      <4>. QED BY <1>15, <4>1 DEF EnterOps, ExitOps
    <3>4. x # NULL => a = NULL \/ x \notin Up[a]
      BY <1>3, UpAcyclic
    <3>. QED BY <1>3, <1>8, <3>1, <3>2, <3>3, <3>4, ZenonT(40) DEF InOrder, ExitOps, EnterOps
  <2>3. CASE new[j].op = "deliver"
    BY <2>3 DEF InOrder, ChainOps
  <2>. QED BY <1>15, <2>1, <2>2, <2>3
<1>22. ASSUME NEW i \in DOMAIN new, NEW j \in DOMAIN todo PROVE InOrder(new[i], todo[j])
  <2>1. todo[j].op \in ChainOps => RegionOf[todo[j].state] # r
    BY <1>1 DEF InFlight
  <2>. QED BY <1>15, <2>1 DEF InOrder
<1>23. ASSUME NEW k \in DOMAIN new PROVE Right(k)'
  <2>1. todo'[k] = new[k] /\ m + 1 \in DOMAIN new /\ m + 1 \in DOMAIN todo' /\ todo'[m + 1] = w
    BY <1>11, <1>12, <1>13 DEF Moves
  <2>2. CASE k \in 1 .. 5 /\ x # NULL /\ m = 5 /\ ExitFrames(new, x)
    <3>1. Link(x)' = x /\ active' = active /\ x \in active
      BY <1>3, <1>4, <2>2 DEF Link, Below
    <3>2. \E q \in DOMAIN todo' : 5 < q /\ todo'[q].op = "wake" /\ Beside(todo'[q].state, x)
      <4>1. 5 < m + 1
        BY <2>2
      <4>2. Beside(y, x)
        BY <1>3, <2>2 DEF Beside
      <4>. QED BY <1>8, <2>1, <4>1, <4>2
    <3>. QED BY <1>13, <2>2, <3>1, <3>2, ExitPart
  <2>3. CASE k = m + 1 /\ new[k] = w
    <3>1. todo'[k].op = "wake" /\ todo'[k].state = y /\ todo'[k].first = FALSE
      BY <1>8, <2>1, <2>3
    <3>2. ASSUME NEW c \in active, Beside(c, y) PROVE Before(k, "sleep", c)'
      <4>1. c = x /\ x # NULL
        BY <1>2, <1>3, <1>5, <3>2 DEF TypesRight
      <4>2. m = 5 /\ new[4].op = "sleep" /\ new[4].state = x /\ 4 \in DOMAIN new
        BY <1>12, <4>1 DEF ExitFrames
      <4>3. 4 \in DOMAIN todo' /\ todo'[4] = new[4] /\ 4 < k
        BY <1>13, <2>3, <4>2 DEF Moves
      <4>. QED BY <4>1, <4>2, <4>3 DEF Before, Holds
    <3>3. WakeRight(k)'
      BY <1>3, <1>4, <3>1, <3>2 DEF WakeRight, Beside
    <3>. QED BY <3>1, <3>3 DEF Right, ExitRight, SleepRight, DetachRight, EnterRight, FirstRight
  <2>4. CASE k = m + 2 /\ new[k] = e
    <3>1. todo'[k].op = "deliver"
      BY <1>8, <2>1, <2>4
    <3>. QED BY <3>1 DEF Right, ExitRight, SleepRight, DetachRight, WakeRight, EnterRight, FirstRight, EnterOps
  <2>. QED BY <1>14, <2>2, <2>3, <2>4
<1>24. ASSUME NEW k \in DOMAIN new PROVE StampRight(k)'
  <2>1. todo'[k] = new[k]
    BY <1>13 DEF Moves
  <2>2. CASE new[k].op \in ChainOps
    <3>1. RegionOf[todo'[k].state] = r /\ stamp'[r] = tick' /\ tick' # kNeverTicked
      BY <1>4, <1>6, <1>7, <1>15, <2>1, <2>2
    <3>2. todo'[k].op \in EnterOps => ~todo'[k].first
      <4>1. SUFFICES ASSUME todo'[k].op \in EnterOps PROVE ~todo'[k].first
        OBVIOUS
      <4>2. new[k].op = "wake"
        BY <1>15, <2>1, <4>1 DEF EnterOps, ExitOps
      <4>3. todo'[k] = w
        BY <1>15, <2>1, <4>2
      <4>4. todo'[k].first = FALSE
        BY <1>8, <4>3
      <4>. QED BY <4>4
    <3>. QED BY <3>1, <3>2 DEF StampRight
  <2>3. CASE new[k].op \notin ChainOps
    BY <2>1, <2>3 DEF StampRight
  <2>. QED BY <2>2, <2>3
<1>25. NewRight(new, 1)
  <2>1. \A k \in DOMAIN new : new[k].op \notin {"watch", "exit_region", "initial_entry"}
    BY <1>15 DEF ExitOps
  <2>. QED BY <1>1, <1>21, <1>22, <1>23, <1>24, <2>1 DEF NewRight
<1>90. NoDeeper
  <2>1. \A k \in DOMAIN new : new[k].op = "deliver" => k = m + 2
    <3>1. \A k \in DOMAIN new : k # m + 2 => new[k].op \in ExitOps \cup {"slot", "wake"}
      BY <1>8, <1>14
    <3>. QED BY <3>1 DEF ExitOps
  <2>. QED BY <1>5, <1>13, <2>1, DepthMoves
<1>. QED BY <1>90, <1>13, <1>16, <1>17, <1>18, <1>19, <1>20, <1>25, PushKeeps

LEMMA EvaluateKeeps ==
  ASSUME ChartInv, ~ReentrantEntry, evaluate_region
  PROVE  ChartInv' /\ InFlight' \subseteq InFlight \cup {q \in Region : stamp[q] # tick} /\ NoDeeper
<1>. PICK e, r, all : e = todo[1].event /\ r = Regions[todo[1].at] /\ all = Candidates(r, e)
  OBVIOUS
<1>1. NextRegion /\ Head(todo) = todo[1] /\ todo[1] \in Frame /\ todo[1].op = "deliver"
  BY RestOfDelivery DEF evaluate_region
<1>2. PICK C \in SUBSET all :
        /\ ~marked(r)
        /\ IF C = {} \/ poisoned THEN todo' = rest_of_delivery /\ UNCHANGED stamp
           ELSE execute_transition(r, Transitions[Winner(C)].target, rest_of_delivery)
  BY <1>1 DEF evaluate_region
<1>3. UNCHANGED <<life, tick, poisoned, configVars, watcherVars>>
  BY DEF evaluate_region
<1>4. CASE C = {} \/ poisoned
  BY <1>1, <1>2, <1>3, <1>4, NextRegionKeeps
<1>5. CASE ~(C = {} \/ poisoned)
  <2>1. /\ C \in SUBSET DOMAIN Transitions /\ C # {}
        /\ \A n \in C : Transitions[n].event = e /\ RegionOf[Transitions[n].target] = r
    BY <1>5 DEF Candidates, Matching
  <2>2. PICK n : n = Winner(C)
    OBVIOUS
  <2>3. n \in C
    BY <2>1, <2>2, WinnerIn
  <2>4. n \in DOMAIN Transitions /\ Transitions[n].event = todo[1].event /\ RegionOf[Transitions[n].target] = r
    BY <2>1, <2>3
  <2>5. r \in Region
    BY <2>4, PairFacts, ParentType
  <2>6. execute_transition(r, Transitions[n].target, rest_of_delivery)
    BY <1>2, <1>5, <2>2
  <2>7. ChartInv' /\ InFlight' \subseteq InFlight \cup {r} /\ NoDeeper
    BY <1>1, <1>2, <1>3, <2>4, <2>5, <2>6, ExecuteKeeps
  <2>. QED BY <1>2, <2>5, <2>7 DEF marked
<1>. QED BY <1>4, <1>5

-----------------------------------------------------------------------------
\* The steps that change the configuration: sleep, detach, wake.
LEMMA PopMoves ==
  ASSUME TypesRight, ~Idle, todo' = Tail(todo)
  PROVE  \E new \in Seq(Frame) : DOMAIN new = {} /\ Moves(new, 1)
<1>1. todo' = <<>> \o Tail(todo)
  BY Popped
<1>2. PICK new \in Seq(Frame) : new = <<>> /\ DOMAIN new = {}
  BY None0
<1>3. Moves(new, 1)
  BY <1>1, <1>2, MovesHead
<1>. QED BY <1>2, <1>3

\* What is on the stack behind the head stays.
LEMMA Stays ==
  ASSUME NEW new, Moves(new, 1)
  PROVE  /\ \A j \in DOMAIN todo : j = 1 \/ \E q \in DOMAIN todo' : todo'[q] = todo[j]
         /\ \A q \in DOMAIN todo' : q \in DOMAIN new \/ \E j \in DOMAIN todo : j > 1 /\ todo'[q] = todo[j]
         /\ \A op, s : /\ After(0, op, s) => After(0, op, s)' \/ Holds(todo[1], op, s)
                       /\ After(1, op, s) => After(0, op, s)'
                       /\ ~Before(1, op, s)
<1>1. ASSUME NEW j \in DOMAIN todo PROVE j = 1 \/ \E q \in DOMAIN todo' : todo'[q] = todo[j]
  <2>1. j = 1 \/ j > 1
    <3>1. j \in 1 .. Len(todo)
      BY DEF Moves
    <3>. QED BY <3>1
  <2>. QED BY <2>1 DEF Moves
<1>2. ASSUME NEW q \in DOMAIN todo', q \notin DOMAIN new
      PROVE  \E j \in DOMAIN todo : j > 1 /\ todo'[q] = todo[j]
  <2>1. PICK j \in DOMAIN todo : j > 1 /\ q = j + Len(new) - 1
    BY <1>2, Origin
  <2>. QED BY <2>1 DEF Moves
<1>3. ASSUME NEW op, NEW s, After(1, op, s) PROVE After(0, op, s)'
  <2>1. PICK j \in DOMAIN todo : 1 < j /\ Holds(todo[j], op, s)
    BY <1>3 DEF After
  <2>2. PICK q \in DOMAIN todo' : todo'[q] = todo[j]
    BY <2>1 DEF Moves
  <2>3. 0 < q
    BY <2>2 DEF Moves
  <2>. QED BY <2>1, <2>2, <2>3 DEF After, Holds
<1>4. ASSUME NEW op, NEW s PROVE ~Before(1, op, s)
  <2>1. \A k \in DOMAIN todo : ~(k < 1)
    BY DEF Moves
  <2>. QED BY <2>1 DEF Before
<1>5. ASSUME NEW op, NEW s, After(0, op, s) PROVE After(0, op, s)' \/ Holds(todo[1], op, s)
  BY <1>5, Shifted
<1>. QED BY <1>1, <1>2, <1>3, <1>4, <1>5

LEMMA SleepKeeps ==
  ASSUME ChartInv, deactivate_state
  PROVE  ChartInv' /\ InFlight' \subseteq InFlight /\ NoDeeper
<1>. PICK s : s = todo[1].state
  OBVIOUS
<1>1. /\ ~Idle /\ Head(todo) = todo[1] /\ todo[1].op = "sleep" /\ todo[1] \in Frame
      /\ 1 \in DOMAIN todo /\ Right(1) /\ StampRight(1) /\ life \in {"live", "dying"} /\ TypesRight
  BY HeadOf DEF deactivate_state
<1>2. s \in State /\ stamp[RegionOf[s]] = tick /\ tick # kNeverTicked /\ RegionOf[s] \in InFlight
  <2>1. s \in State
    BY <1>1, FrameFacts DEF ChainOps
  <2>2. stamp[RegionOf[s]] = tick /\ RegionOf[s] \in InFlight
    BY <1>1 DEF StampRight, ChainOps, ExitOps, InFlight
  <2>3. tick # kNeverTicked
    BY <1>1 DEF TypesRight, kNeverTicked
  <2>. QED BY <2>1, <2>2, <2>3
<1>3. PICK new \in Seq(Frame) : DOMAIN new = {} /\ (todo' = Tail(todo) => Moves(new, 1))
  BY <1>1, PopMoves, None0
<1>4. /\ s \in active /\ (\A c \in active : Parent[c] # s) /\ After(1, "detach", s)
      /\ \/ Parent[s] = NULL /\ life = "dying"
         \/ \E k \in DOMAIN todo : 1 < k /\ todo[k].op = "wake" /\ Beside(todo[k].state, s)
         \/ Parent[s] # NULL /\ After(1, "sleep", Parent[s])
  <2>1. \A op, c : ~Before(1, op, c)
    <3>1. \A k \in DOMAIN todo : ~(k < 1)
      BY <1>1, Popped
    <3>. QED BY <3>1 DEF Before
  <2>. QED BY <1>1, <2>1 DEF Right, SleepRight
<1>5. /\ todo' = Tail(todo)
      /\ active' = active \ {s} /\ deactivated' = deactivated \cup {s} /\ seated' = seated \ {s}
      /\ armed_value' = [w \in DOMAIN Watchers |-> armed_value[w] /\ Watchers[w].state # s]
      /\ UNCHANGED <<life, tick, poisoned, region_active, active_child, history_child, stamp, watched>>
  <2>1. s \notin deactivated
    BY <1>1, <1>4 DEF ChartInv, LifeRight
  <2>. QED BY <1>1, <2>1 DEF deactivate_state
<1>6. Moves(new, 1)
  BY <1>3, <1>5
<1>7. \A u : Link(u)' = Link(u)
  BY <1>5 DEF Link, Below
<1>8. InFlight' \subseteq InFlight /\ Entering' \subseteq Entering
  <2>1. InFlight' \subseteq InFlight \cup {}
    BY <1>3, <1>6, FlightKept
  <2>. QED BY <1>5, <2>1 DEF Entering
<1>9. TypesRight'
  <2>1. todo' \in Seq(Frame)
    BY <1>6 DEF Moves
  <2>2. armed_value' \in [DOMAIN Watchers -> BOOLEAN]
    BY <1>5
  <2>3. active' \subseteq State /\ deactivated' \subseteq State /\ seated' \subseteq active'
    <3>1. active \subseteq State /\ deactivated \subseteq State /\ seated \subseteq active
      BY <1>1 DEF TypesRight
    <3>. QED BY <1>2, <1>5, <3>1
  <2>. QED BY <1>1, <1>5, <2>1, <2>2, <2>3 DEF TypesRight
<1>10. StackInOrder'
  BY <1>3, <1>6, OrderKept DEF ChartInv
<1>11. ASSUME NEW j \in DOMAIN todo, j > 1 PROVE Right(j + Len(new) - 1)'
  <2>1. PICK q : q = j + Len(new) - 1
    OBVIOUS
  <2>2. /\ todo'[q] = todo[j] /\ Right(j) /\ StampRight(j) /\ InOrder(todo[1], todo[j])
        /\ todo[j] \in Frame
    BY <1>1, <1>6, <1>11, <2>1, SeqElement DEF Moves, ChartInv, FramesRight, StackInOrder, TypesRight
  <2>3. \A op, c : /\ Before(j, op, c) => Before(q, op, c)' \/ (op = "sleep" /\ c = s)
                   /\ After(j, op, c) => After(q, op, c)'
    <3>1. \A op, c : Holds(todo[1], op, c) => op = "sleep" /\ c = s
      BY <1>1 DEF Holds
    <3>. QED BY <1>6, <1>11, <2>1, <3>1, Shifted
  <2>4. ExitRight(q)'
    BY <2>2, <2>3 DEF Right, ExitRight
  <2>5. SleepRight(q)'
    <3>1. SUFFICES ASSUME todo[j].op = "sleep" PROVE SleepRight(q)'
      BY <2>2 DEF SleepRight
    <3>2. PICK u : u = todo[j].state
      OBVIOUS
    <3>3. u # s
      BY <1>1, <2>2, <3>1, <3>2 DEF InOrder, ChainOps, ExitOps
    <3>4. /\ u \in active
          /\ \A c \in active : Parent[c] = u => Before(j, "sleep", c) \/ Before(j, "exit_child", u)
          /\ After(j, "detach", u)
          /\ \/ Parent[u] = NULL /\ life = "dying"
             \/ \E k \in DOMAIN todo : j < k /\ todo[k].op = "wake" /\ Beside(todo[k].state, u)
             \/ Parent[u] # NULL /\ After(j, "sleep", Parent[u])
      BY <2>2, <3>1, <3>2 DEF Right, SleepRight
    <3>5. \A c \in active' : Parent[c] = u => Before(q, "sleep", c)' \/ Before(q, "exit_child", u)'
      BY <1>5, <2>3, <3>4
    <3>6. ASSUME NEW k \in DOMAIN todo, j < k, todo[k].op = "wake", Beside(todo[k].state, u)
          PROVE  \E p \in DOMAIN todo' : q < p /\ todo'[p].op = "wake" /\ Beside(todo'[p].state, u)
      <4>1. k > 1 /\ q < k + Len(new) - 1
        BY <1>6, <1>11, <2>1, <3>6 DEF Moves
      <4>2. k + Len(new) - 1 \in DOMAIN todo' /\ todo'[k + Len(new) - 1] = todo[k]
        BY <1>6, <4>1 DEF Moves
      <4>. QED BY <3>6, <4>1, <4>2
    <3>7. /\ u \in active' /\ After(q, "detach", u)'
          /\ \/ Parent[u] = NULL /\ life' = "dying"
             \/ \E p \in DOMAIN todo' : q < p /\ todo'[p].op = "wake" /\ Beside(todo'[p].state, u)
             \/ Parent[u] # NULL /\ After(q, "sleep", Parent[u])'
      BY <1>5, <2>3, <3>3, <3>4, <3>6
    <3>. QED BY <2>2, <3>2, <3>5, <3>7 DEF SleepRight, Beside
  <2>6. DetachRight(q)'
    BY <1>5, <1>7, <2>2, <2>3 DEF Right, DetachRight
  <2>7. WakeRight(q)'
    <3>1. SUFFICES ASSUME todo[j].op = "wake", ~todo[j].first PROVE WakeRight(q)'
      BY <2>2 DEF WakeRight
    <3>2. PICK u : u = todo[j].state
      OBVIOUS
    <3>3. /\ Parent[u] = NULL \/ Parent[u] \in active
          /\ \A c \in active : Beside(c, u) => Before(j, "sleep", c)
      BY <2>2, <3>1, <3>2 DEF Right, WakeRight
    <3>4. Parent[u] # s
      <4>1. ASSUME Parent[u] = s PROVE FALSE
        <5>1. u \in State /\ Parent[u] # NULL /\ RegionOf[u] = RegionOf[s] /\ s \in Up[s]
          BY <1>2, <2>2, <3>1, <3>2, <4>1, FrameFacts, ParentType, UpClosed DEF ChainOps
        <5>. QED BY <1>1, <2>2, <3>1, <3>2, <4>1, <5>1 DEF InOrder, ChainOps, ExitOps
      <4>. QED BY <4>1
    <3>5. /\ Parent[u] = NULL \/ Parent[u] \in active'
          /\ \A c \in active' : Beside(c, u) => Before(q, "sleep", c)'
      BY <1>5, <2>3, <3>3, <3>4
    <3>. QED BY <2>2, <3>2, <3>5 DEF WakeRight, Beside
  <2>8. todo[j].op = "enter_child" => todo[j].state # s
    BY <1>1, <2>2 DEF InOrder, ChainOps
  <2>9. EnterRight(q)'
    BY <1>5, <2>2, <2>8 DEF Right, EnterRight
  <2>10. FirstRight(q)'
    <3>1. SUFFICES ASSUME todo[j].op \in EnterOps, todo[j].first PROVE FirstRight(q)'
      BY <2>2 DEF FirstRight
    <3>2. todo[j].target = NULL /\ todo[j].state \in active
      BY <2>2, <3>1 DEF Right, FirstRight
    <3>3. todo[j].state # s
      BY <1>2, <2>2, <3>1 DEF StampRight, EnterOps, ChainOps
    <3>. QED BY <1>5, <2>2, <3>2, <3>3 DEF FirstRight
  <2>. QED BY <2>1, <2>4, <2>5, <2>6, <2>7, <2>9, <2>10 DEF Right
<1>12. FramesRight'
  BY <1>1, <1>3, <1>5, <1>6, <1>11, FramesKept DEF ChartInv
<1>13. PlacesRight'
  BY <1>3, <1>5, <1>6, PlacesKept DEF ChartInv
<1>14. EntryUndisturbed'
  BY <1>3, <1>6, <1>8, EntryKept DEF ChartInv
<1>15. /\ \A j \in DOMAIN todo : todo[j].op # "sleep" => \E q \in DOMAIN todo' : todo'[q] = todo[j]
       /\ \A q \in DOMAIN todo' : \E j \in DOMAIN todo : todo'[q] = todo[j]
       /\ \A op, c : /\ After(0, op, c) => After(0, op, c)' \/ (op = "sleep" /\ c = s)
                     /\ After(1, op, c) => After(0, op, c)'
  BY <1>1, <1>3, <1>6, Stays DEF Holds
<1>16. LinksRight'
  <2>1. LinksRight
    BY DEF ChartInv
  <2>2. \A u \in active' : Link(u)' = u /\ (Parent[u] = NULL \/ Parent[u] \in active')
    BY <1>4, <1>5, <1>7, <2>1 DEF LinksRight
  <2>3. \A u \in State : Link(u)' = u => u \in active' \/ After(0, "detach", u)'
    BY <1>4, <1>5, <1>7, <1>15, <2>1 DEF LinksRight
  <2>. QED BY <1>5, <2>1, <2>2, <2>3 DEF LinksRight
<1>17. UnmarkedRight'
  <2>1. ASSUME NEW r \in Region, stamp[r] = kNeverTicked, life # "none"
        PROVE  /\ Initial[r] \in active'
               /\ \A u \in active' : RegionOf[u] = r /\ InitialChild[u] # NULL => InitialChild[u] \in active'
    <3>1. r # RegionOf[s] /\ RegionOf[Initial[r]] = r
      BY <1>2, <2>1, ChartAssumption
    <3>2. \A u \in active : InitialChild[u] # NULL => RegionOf[InitialChild[u]] = RegionOf[u]
      BY <1>1, ChartAssumption DEF TypesRight
    <3>. QED BY <1>5, <2>1, <3>1, <3>2 DEF ChartInv, UnmarkedRight
  <2>. QED BY <1>5, <2>1 DEF ChartInv, UnmarkedRight
<1>18. Lacking'
  <2>1. ASSUME NEW u \in active'
        PROVE  \/ InitialChild[u] = NULL
               \/ \E c \in active' : Parent[c] = u
               \/ After(0, "sleep", u)' \/ After(0, "enter_child", u)'
               \/ \E k \in DOMAIN todo' : todo'[k].op = "wake" /\ Parent[todo'[k].state] = u
    <3>1. /\ u \in active /\ u # s /\ u # NULL
          /\ \/ InitialChild[u] = NULL
             \/ \E c \in active : Parent[c] = u
             \/ After(0, "sleep", u) \/ After(0, "enter_child", u)
             \/ \E k \in DOMAIN todo : todo[k].op = "wake" /\ Parent[todo[k].state] = u
      <4>1. u \in active /\ u # s
        BY <1>5
      <4>2. u # NULL
        BY <1>1, <4>1, ParentType DEF TypesRight
      <4>3. Lacking
        BY DEF ChartInv
      <4>. QED BY <4>1, <4>2, <4>3 DEF Lacking
    <3>2. ASSUME NEW k \in DOMAIN todo, todo[k].op = "wake", Parent[todo[k].state] = u
          PROVE  \E q \in DOMAIN todo' : todo'[q].op = "wake" /\ Parent[todo'[q].state] = u
      BY <1>15, <3>2
    <3>3. ASSUME Parent[s] = u
          PROVE  \/ After(0, "sleep", u)'
                 \/ \E q \in DOMAIN todo' : todo'[q].op = "wake" /\ Parent[todo'[q].state] = u
      <4>1. \/ \E k \in DOMAIN todo : 1 < k /\ todo[k].op = "wake" /\ Beside(todo[k].state, s)
            \/ After(1, "sleep", u)
        BY <1>4, <3>1, <3>3
      <4>. QED BY <1>15, <3>2, <3>3, <4>1 DEF Beside
    <3>4. CASE \E c \in active : Parent[c] = u
      <4>1. PICK c \in active : Parent[c] = u
        BY <3>4
      <4>2. c # s => c \in active'
        BY <1>5
      <4>. QED BY <3>3, <4>1, <4>2
    <3>5. After(0, "sleep", u) => After(0, "sleep", u)'
      BY <1>15, <3>1
    <3>6. After(0, "enter_child", u) => After(0, "enter_child", u)'
      BY <1>15
    <3>. QED BY <3>1, <3>2, <3>4, <3>5, <3>6
  <2>2. ASSUME life \in {"deferred", "live"}, NEW r \in Region
        PROVE  \/ \E u \in active' : RegionOf[u] = r /\ Parent[u] = NULL
               \/ \E k \in DOMAIN todo' : /\ todo'[k].op = "wake"
                                          /\ RegionOf[todo'[k].state] = r /\ Parent[todo'[k].state] = NULL
    <3>1. ASSUME NEW k \in DOMAIN todo, todo[k].op = "wake", RegionOf[todo[k].state] = r,
                 Parent[todo[k].state] = NULL
          PROVE  \E q \in DOMAIN todo' : /\ todo'[q].op = "wake"
                                         /\ RegionOf[todo'[q].state] = r /\ Parent[todo'[q].state] = NULL
      BY <1>15, <3>1
    <3>2. CASE RegionOf[s] = r /\ Parent[s] = NULL
      <4>1. PICK k \in DOMAIN todo : todo[k].op = "wake" /\ Beside(todo[k].state, s)
        BY <1>4, <2>2, <3>2
      <4>. QED BY <3>1, <3>2, <4>1 DEF Beside
    <3>3. CASE ~(RegionOf[s] = r /\ Parent[s] = NULL)
      <4>1. \/ \E u \in active : RegionOf[u] = r /\ Parent[u] = NULL
            \/ \E k \in DOMAIN todo : /\ todo[k].op = "wake"
                                      /\ RegionOf[todo[k].state] = r /\ Parent[todo[k].state] = NULL
        BY <2>2 DEF ChartInv, Lacking
      <4>. QED BY <1>5, <3>1, <3>3, <4>1
    <3>. QED BY <3>2, <3>3
  <2>. QED BY <1>5, <2>1, <2>2 DEF Lacking
<1>19. LifeRight'
  <2>1. LifeRight /\ active \subseteq State
    BY <1>1 DEF ChartInv, TypesRight
  <2>2. deactivated' = State \ active'
    BY <1>1, <1>2, <1>5, <2>1 DEF LifeRight
  <2>3. ASSUME life = "dying"
        PROVE  /\ \A r \in Region : stamp'[r] = tick'
               /\ \A i \in DOMAIN todo' : todo'[i].op \notin EnterOps
               /\ \A u \in active' : Parent[u] = NULL =>
                    \/ After(0, "sleep", u)'
                    \/ \E i \in DOMAIN todo' : todo'[i].op = "exit_region" /\ todo'[i].region = RegionOf[u]
    <3>1. \A r \in Region : stamp'[r] = tick'
      BY <1>5, <2>1, <2>3 DEF LifeRight
    <3>2. \A i \in DOMAIN todo' : todo'[i].op \notin EnterOps
      BY <1>15, <2>1, <2>3 DEF LifeRight
    <3>3. ASSUME NEW u \in active', Parent[u] = NULL
          PROVE  \/ After(0, "sleep", u)'
                 \/ \E i \in DOMAIN todo' : todo'[i].op = "exit_region" /\ todo'[i].region = RegionOf[u]
      <4>1. u \in active /\ u # s
        BY <1>5
      <4>2. \/ After(0, "sleep", u)
            \/ \E i \in DOMAIN todo : todo[i].op = "exit_region" /\ todo[i].region = RegionOf[u]
        BY <2>1, <2>3, <3>3, <4>1 DEF LifeRight
      <4>. QED BY <1>15, <4>1, <4>2
    <3>. QED BY <3>1, <3>2, <3>3
  <2>. QED BY <1>1, <1>5, <2>2, <2>3 DEF LifeRight
<1>90. NoDeeper
  BY <1>1, <1>3, <1>6, DepthMoves
<1>. QED BY <1>90, <1>8, <1>9, <1>10, <1>12, <1>13, <1>14, <1>16, <1>17, <1>18, <1>19 DEF ChartInv

LEMMA DetachKeeps ==
  ASSUME ChartInv, unlink_state
  PROVE  ChartInv' /\ InFlight' \subseteq InFlight /\ NoDeeper
<1>. PICK s : s = todo[1].state
  OBVIOUS
<1>1. /\ ~Idle /\ Head(todo) = todo[1] /\ todo[1].op = "detach" /\ todo[1] \in Frame
      /\ 1 \in DOMAIN todo /\ Right(1) /\ StampRight(1) /\ life \in {"live", "dying"} /\ TypesRight
  BY HeadOf DEF unlink_state
<1>2. /\ s \in State /\ RegionOf[s] \in Region /\ NULL \notin State
      /\ Parent[s] # NULL => Parent[s] \in State /\ RegionOf[Parent[s]] = RegionOf[s]
  BY <1>1, FrameFacts, ParentType DEF ChainOps
<1>3. /\ IF Parent[s] = NULL
         THEN region_active' = [region_active EXCEPT ![RegionOf[s]] = NULL] /\ UNCHANGED active_child
         ELSE active_child' = [active_child EXCEPT ![Parent[s]] = NULL] /\ UNCHANGED region_active
      /\ todo' = Tail(todo)
      /\ UNCHANGED <<life, tick, poisoned, active, deactivated, history_child, seated, stamp, armed_value>>
  BY <1>1 DEF unlink_state, watcherVars
<1>4. PICK new \in Seq(Frame) : DOMAIN new = {} /\ Moves(new, 1)
  BY <1>1, <1>3, PopMoves
<1>5. s \notin active /\ Link(s) = s
  <2>1. ~Before(1, "sleep", s)
    BY <1>4, Stays
  <2>. QED BY <1>1, <2>1 DEF Right, DetachRight
<1>6. /\ \A u \in State : Beside(u, s) => Link(u)' = NULL /\ Link(u) = s
      /\ \A u \in State : ~Beside(u, s) => Link(u)' = Link(u)
  <2>1. ASSUME NEW u \in State PROVE Parent[u] \in State \cup {NULL} /\ RegionOf[u] \in Region
                                    /\ (Parent[u] # NULL => RegionOf[Parent[u]] = RegionOf[u])
    BY ParentType
  <2>2. region_active \in [Region -> State \cup {NULL}] /\ active_child \in [State -> State \cup {NULL}]
    BY <1>1 DEF TypesRight
  <2>3. CASE Parent[s] = NULL
    <3>1. /\ \A r \in Region : region_active'[r] = IF r = RegionOf[s] THEN NULL ELSE region_active[r]
          /\ active_child' = active_child
      BY <1>2, <1>3, <2>2, <2>3
    <3>. QED BY <1>2, <1>5, <2>1, <2>3, <3>1 DEF Link, Below, Beside
  <2>4. CASE Parent[s] # NULL
    <3>1. /\ \A q \in State : active_child'[q] = IF q = Parent[s] THEN NULL ELSE active_child[q]
          /\ region_active' = region_active
      BY <1>2, <1>3, <2>2, <2>4
    <3>. QED BY <1>2, <1>5, <2>1, <2>4, <3>1 DEF Link, Below, Beside
  <2>. QED BY <2>3, <2>4
<1>7. InFlight' \subseteq InFlight /\ Entering' \subseteq Entering
  <2>1. InFlight' \subseteq InFlight \cup {}
    BY <1>4, FlightKept
  <2>. QED BY <1>3, <2>1 DEF Entering
<1>8. TypesRight'
  <2>1. todo' \in Seq(Frame)
    BY <1>4 DEF Moves
  <2>2. region_active' \in [Region -> State \cup {NULL}] /\ active_child' \in [State -> State \cup {NULL}]
    BY <1>1, <1>3 DEF TypesRight
  <2>. QED BY <1>1, <1>3, <2>1, <2>2 DEF TypesRight
<1>9. StackInOrder'
  BY <1>4, OrderKept DEF ChartInv
<1>10. ASSUME NEW j \in DOMAIN todo, j > 1 PROVE Right(j + Len(new) - 1)'
  <2>1. Right(j) /\ InOrder(todo[1], todo[j]) /\ todo[j] \in Frame
    BY <1>1, <1>10, SeqElement DEF ChartInv, FramesRight, StackInOrder, TypesRight
  <2>2. ASSUME NEW u, Holds(todo[j], "detach", u) PROVE Link(u)' = Link(u)
    <3>1. u \in State
      BY <2>1, <2>2, FrameFacts DEF ChainOps, Holds
    <3>2. Link(u) = u
      BY <2>1, <2>2 DEF Right, DetachRight, Holds
    <3>3. RegionOf[u] = RegionOf[s] => u # s
      BY <1>1, <2>1, <2>2 DEF InOrder, ChainOps, ExitOps, Holds
    <3>4. ~Beside(u, s)
      BY <1>6, <3>1, <3>2, <3>3 DEF Beside
    <3>. QED BY <1>6, <3>1, <3>4
  <2>. QED BY <1>1, <1>3, <1>4, <1>10, <2>1, <2>2, RightStays
<1>11. FramesRight'
  BY <1>1, <1>3, <1>4, <1>10, FramesKept DEF ChartInv
<1>12. PlacesRight'
  BY <1>3, <1>4, PlacesKept DEF ChartInv
<1>13. EntryUndisturbed'
  BY <1>4, <1>7, EntryKept DEF ChartInv
<1>14. LinksRight'
  <2>1. LinksRight /\ active \subseteq State
    BY <1>1 DEF ChartInv, TypesRight
  <2>2. /\ \A r \in Region : region_active'[r] \in {NULL, region_active[r]}
        /\ \A q \in State : active_child'[q] \in {NULL, active_child[q]}
    BY <1>1, <1>3 DEF TypesRight
  <2>3. \A u \in active' : Link(u)' = u /\ (Parent[u] = NULL \/ Parent[u] \in active')
    BY <1>3, <1>5, <1>6, <2>1 DEF LinksRight
  <2>4. ASSUME NEW u \in State, Link(u)' = u PROVE u \in active' \/ After(0, "detach", u)'
    <3>1. ~Beside(u, s) /\ Link(u) = u
      BY <1>2, <1>6, <2>4
    <3>2. u # s
      BY <3>1 DEF Beside
    <3>3. After(0, "detach", u) => After(0, "detach", u)'
      BY <1>4, <3>2, Stays DEF Holds
    <3>. QED BY <1>3, <2>1, <3>1, <3>3 DEF LinksRight
  <2>. QED BY <1>3, <2>1, <2>2, <2>3, <2>4 DEF LinksRight
<1>15. UnmarkedRight'
  BY <1>3 DEF ChartInv, UnmarkedRight
<1>16. Lacking'
  BY <1>1, <1>3, <1>4, LackingKept DEF ChartInv
<1>17. LifeRight'
  BY <1>1, <1>3, <1>4, LifeKept DEF ChartInv
<1>90. NoDeeper
  BY <1>1, <1>4, DepthMoves
<1>. QED BY <1>90, <1>7, <1>8, <1>9, <1>11, <1>12, <1>13, <1>14, <1>15, <1>16, <1>17 DEF ChartInv

LEMMA EnterFrames ==
  ASSUME NEW s \in State, NEW t \in State \cup {NULL}, NEW b \in BOOLEAN
  PROVE  LET x == enter_state(s, t, b) IN
         /\ x \in Seq(Frame) /\ Len(x) = 3 /\ DOMAIN x = 1 .. 3
         /\ x[1].op = "slot" /\ x[1].state = s /\ x[3].op = "slot" /\ x[3].state = s
         /\ x[2] = enter_child(s, t, b)
<1>1. /\ slot("component_enter", s) \in Frame /\ slot("script_enter", s) \in Frame
      /\ enter_child(s, t, b) \in Frame
  BY FrameTypes DEF Slots
<1> DEFINE f == slot("component_enter", s)
           g == enter_child(s, t, b)
           h == slot("script_enter", s)
           x == <<f, g, h>>
<1>2. f.op = "slot" /\ f.state = s /\ h.op = "slot" /\ h.state = s
  BY DEF slot
<1>3. x = enter_state(s, t, b)
  BY DEF enter_state
<1>4. g = enter_child(s, t, b) /\ f \in Frame /\ g \in Frame /\ h \in Frame
  BY <1>1
<1>. HIDE DEF f, g, h
<1>5. x \in Seq(Frame) /\ Len(x) = 3 /\ DOMAIN x = 1 .. 3 /\ x[1] = f /\ x[2] = g /\ x[3] = h
  BY <1>4
<1>. HIDE DEF x
<1>. QED BY <1>2, <1>3, <1>4, <1>5

\* A state that wakes stands under an active state, beside no other, and the
\* chain that wakes it has nothing but hooks left.
LEMMA WakeShape ==
  ASSUME ChartInv, Next_frame("wake"), NEW s, s = todo[1].state, NEW b, b = todo[1].first
  PROVE  /\ s \in State /\ todo[1].target \in State \cup {NULL} /\ b \in BOOLEAN
         /\ b => s \in active /\ todo[1].target = NULL
         /\ ~b => s \notin active
         /\ Parent[s] = NULL \/ Parent[s] \in active
         /\ \A c \in active : Beside(c, s) => c = s
         /\ \A c \in active : Parent[c] = s => b
         /\ RegionOf[s] \in InFlight /\ RegionOf[s] \in Region /\ life = "live"
         /\ stamp[RegionOf[s]] \in {tick, kNeverTicked} /\ (stamp[RegionOf[s]] = kNeverTicked <=> b)
         /\ \A j \in DOMAIN todo :
              /\ todo[j].op \in ChainOps /\ RegionOf[todo[j].state] = RegionOf[s] => j = 1 \/ todo[j].op = "slot"
              /\ todo[j].op # "exit_region"
<1>1. /\ ~Idle /\ todo[1].op = "wake" /\ todo[1] \in Frame /\ 1 \in DOMAIN todo
      /\ Right(1) /\ StampRight(1) /\ life \in {"live", "dying"} /\ TypesRight
  BY HeadOf
<1>2. s \in State /\ todo[1].target \in State \cup {NULL} /\ b \in BOOLEAN
  BY <1>1, FrameFacts DEF ChainOps, EnterOps
<1>3. \A op, c : ~Before(1, op, c)
  <2>1. \A k \in DOMAIN todo : ~(k < 1)
    BY <1>1, Popped
  <2>. QED BY <2>1 DEF Before
<1>4. b => s \in active /\ todo[1].target = NULL
  BY <1>1 DEF Right, FirstRight, EnterOps
<1>5. ~b => (Parent[s] = NULL \/ Parent[s] \in active) /\ \A c \in active : ~Beside(c, s)
  BY <1>1, <1>3 DEF Right, WakeRight
<1>6. LinksRight
  BY DEF ChartInv
<1>7. Parent[s] = NULL \/ Parent[s] \in active
  BY <1>2, <1>4, <1>5, <1>6 DEF LinksRight
<1>8. ~b => s \notin active
  BY <1>5 DEF Beside
<1>9. ASSUME NEW c \in active, Beside(c, s) PROVE c = s
  <2>1. s \in active
    BY <1>2, <1>4, <1>5, <1>9
  <2>. QED BY <1>6, <1>9, <2>1 DEF LinksRight, Link, Beside
<1>10. ASSUME NEW c \in active, Parent[c] = s PROVE b
  <2>1. s # NULL /\ s \in active
    BY <1>2, <1>6, <1>10, ParentType DEF LinksRight
  <2>. QED BY <1>2, <1>8, <2>1
<1>11. RegionOf[s] \in InFlight /\ RegionOf[s] \in Region
  BY <1>1, <1>2, ParentType DEF InFlight, ChainOps
<1>12. life = "live"
  BY <1>1 DEF ChartInv, LifeRight, EnterOps
<1>13. stamp[RegionOf[s]] \in {tick, kNeverTicked} /\ (stamp[RegionOf[s]] = kNeverTicked <=> b)
  BY <1>1 DEF StampRight, ChainOps, EnterOps
<1>14. ASSUME NEW j \in DOMAIN todo, todo[j].op \in ChainOps, RegionOf[todo[j].state] = RegionOf[s], j # 1
       PROVE  todo[j].op = "slot"
  <2>1. 1 < j
    BY <1>1, <1>14, Popped
  <2>2. InOrder(todo[1], todo[j])
    BY <1>1, <2>1 DEF ChartInv, StackInOrder
  <2>. QED BY <1>1, <1>14, <2>2 DEF InOrder, ChainOps, EnterOps
<1>15. \A j \in DOMAIN todo : todo[j].op # "exit_region"
  BY <1>12 DEF ChartInv, PlacesRight
<1>. QED BY <1>2, <1>4, <1>7, <1>8, <1>9, <1>10, <1>11, <1>12, <1>13, <1>14, <1>15

LEMMA WakeKeeps ==
  ASSUME ChartInv, activate_state
  PROVE  ChartInv' /\ InFlight' \subseteq InFlight /\ NoDeeper
<1>. PICK s, t, b : s = todo[1].state /\ t = todo[1].target /\ b = todo[1].first
  OBVIOUS
<1>1. /\ ~Idle /\ Head(todo) = todo[1] /\ todo[1].op = "wake" /\ todo[1] \in Frame
      /\ 1 \in DOMAIN todo /\ TypesRight /\ Next_frame("wake")
  BY HeadOf DEF activate_state
<1>2. /\ s \in State /\ t \in State \cup {NULL} /\ b \in BOOLEAN
      /\ b => s \in active /\ t = NULL
      /\ ~b => s \notin active
      /\ Parent[s] = NULL \/ Parent[s] \in active
      /\ \A c \in active : Beside(c, s) => c = s
      /\ \A c \in active : Parent[c] = s => b
      /\ RegionOf[s] \in InFlight /\ RegionOf[s] \in Region /\ life = "live"
      /\ stamp[RegionOf[s]] \in {tick, kNeverTicked} /\ (stamp[RegionOf[s]] = kNeverTicked <=> b)
      /\ \A j \in DOMAIN todo :
           /\ todo[j].op \in ChainOps /\ RegionOf[todo[j].state] = RegionOf[s] => j = 1 \/ todo[j].op = "slot"
           /\ todo[j].op # "exit_region"
  BY <1>1, WakeShape
<1>3. /\ deactivated = State \ active /\ active \subseteq State /\ seated \subseteq active
      /\ LinksRight /\ Lacking /\ UnmarkedRight
  BY <1>1, <1>2 DEF ChartInv, LifeRight, TypesRight
<1>4. /\ active' = active \cup {s} /\ seated' = seated \ {s}
      /\ deactivated' = IF b THEN deactivated ELSE deactivated \ {s}
      /\ IF Parent[s] = NULL
         THEN region_active' = [region_active EXCEPT ![RegionOf[s]] = s] /\ UNCHANGED active_child
         ELSE active_child' = [active_child EXCEPT ![Parent[s]] = s] /\ UNCHANGED region_active
      /\ todo' = enter_state(s, t, b) \o Tail(todo)
      /\ UNCHANGED <<life, tick, poisoned, history_child, stamp, armed_value>>
  <2>1. ~(~b /\ s \notin deactivated)
    BY <1>2, <1>3
  <2>. QED BY <1>1, <2>1 DEF activate_state, watcherVars
<1>5. deactivated' = State \ active'
  <2>1. CASE b
    BY <1>2, <1>3, <1>4, <2>1
  <2>2. CASE ~b
    BY <1>2, <1>3, <1>4, <2>2
  <2>. QED BY <2>1, <2>2
<1>6. PICK new \in Seq(Frame) :
        /\ todo' = new \o Tail(todo) /\ Len(new) = 3 /\ DOMAIN new = 1 .. 3
        /\ new[1].op = "slot" /\ new[1].state = s /\ new[3].op = "slot" /\ new[3].state = s
        /\ new[2] = enter_child(s, t, b)
  <2>1. PICK x : x = enter_state(s, t, b)
    OBVIOUS
  <2>2. /\ x \in Seq(Frame) /\ Len(x) = 3 /\ DOMAIN x = 1 .. 3
        /\ x[1].op = "slot" /\ x[1].state = s /\ x[3].op = "slot" /\ x[3].state = s
        /\ x[2] = enter_child(s, t, b)
    BY <1>2, <2>1, EnterFrames
  <2>. QED BY <1>4, <2>1, <2>2
<1>7. /\ new[2].op = "enter_child" /\ new[2].state = s /\ new[2].target = t /\ new[2].first = b
  BY <1>6 DEF enter_child
<1>8. Moves(new, 1)
  BY <1>1, <1>6, MovesHead
<1>9. \A k \in DOMAIN new : /\ new[k].op \in {"slot", "enter_child"} /\ new[k].state = s
                            /\ new[k].op = "enter_child" => k = 2
  <2>1. \A k \in DOMAIN new : k = 1 \/ k = 2 \/ k = 3
    BY <1>6
  <2>. QED BY <1>6, <1>7, <2>1
<1>10. /\ \A u \in State : Beside(u, s) => Link(u)' = s
       /\ \A u \in State : ~Beside(u, s) => Link(u)' = Link(u)
  <2>1. ASSUME NEW u \in State PROVE Parent[u] \in State \cup {NULL} /\ RegionOf[u] \in Region
                                    /\ (Parent[u] # NULL => RegionOf[Parent[u]] = RegionOf[u])
    BY ParentType
  <2>2. region_active \in [Region -> State \cup {NULL}] /\ active_child \in [State -> State \cup {NULL}]
    BY <1>1 DEF TypesRight
  <2>3. CASE Parent[s] = NULL
    <3>1. /\ \A r \in Region : region_active'[r] = IF r = RegionOf[s] THEN s ELSE region_active[r]
          /\ active_child' = active_child
      BY <1>2, <1>4, <2>2, <2>3
    <3>. QED BY <1>2, <2>1, <2>3, <3>1 DEF Link, Below, Beside
  <2>4. CASE Parent[s] # NULL
    <3>1. /\ \A q \in State : active_child'[q] = IF q = Parent[s] THEN s ELSE active_child[q]
          /\ region_active' = region_active
      BY <1>2, <1>4, <2>2, <2>4
    <3>. QED BY <1>2, <2>1, <2>4, <3>1 DEF Link, Below, Beside
  <2>. QED BY <2>3, <2>4
<1>11. InFlight' \subseteq InFlight /\ Entering' \subseteq Entering
  <2>1. \A k \in DOMAIN new : RegionOf[new[k].state] \in InFlight \cup {}
    BY <1>2, <1>9
  <2>2. InFlight' \subseteq InFlight \cup {}
    BY <1>8, <2>1, FlightKept
  <2>. QED BY <1>4, <2>2 DEF Entering
<1>12. region_active' \in [Region -> State \cup {NULL}] /\ active_child' \in [State -> State \cup {NULL}]
  BY <1>1, <1>2, <1>4 DEF TypesRight
<1>13. TypesRight'
  <2>1. todo' \in Seq(Frame)
    BY <1>8 DEF Moves
  <2>2. active' \subseteq State /\ deactivated' \subseteq State /\ seated' \subseteq active'
    BY <1>2, <1>3, <1>4, <1>5
  <2>. QED BY <1>1, <1>4, <1>12, <2>1, <2>2 DEF TypesRight
<1>14. StackInOrder'
  <2>1. ASSUME NEW i \in DOMAIN new, NEW j \in DOMAIN new, i < j PROVE InOrder(new[i], new[j])
    <3>1. new[j].op = "slot" \/ new[i].op = "slot"
      <4>1. ASSUME new[j].op = "enter_child", new[i].op = "enter_child" PROVE FALSE
        BY <1>9, <2>1, <4>1
      <4>. QED BY <1>9, <4>1
    <3>. QED BY <3>1 DEF InOrder, EnterOps, ExitOps
  <2>2. ASSUME NEW i \in DOMAIN new, NEW j \in DOMAIN todo, j > 1 PROVE InOrder(new[i], todo[j])
    <3>1. j # 1
      BY <1>8, <2>2 DEF Moves
    <3>2. todo[j].op \in ChainOps /\ RegionOf[todo[j].state] = RegionOf[s] => todo[j].op = "slot"
      BY <1>2, <3>1
    <3>. QED BY <1>9, <3>2 DEF InOrder, ExitOps
  <2>. QED BY <1>8, <2>1, <2>2, OrderKept DEF ChartInv
<1>15. ASSUME NEW j \in DOMAIN todo, j > 1 PROVE Right(j + Len(new) - 1)'
  <2>1. PICK q : q = j + Len(new) - 1
    OBVIOUS
  <2>2. todo'[q] = todo[j] /\ Right(j) /\ todo[j] \in Frame
    BY <1>1, <1>8, <1>15, <2>1, SeqElement DEF Moves, ChartInv, FramesRight, TypesRight
  <2>3. \A op, c : /\ Before(j, op, c) => Before(q, op, c)' \/ Holds(todo[1], op, c)
                   /\ After(j, op, c) => After(q, op, c)'
    BY <1>8, <1>15, <2>1, Shifted
  <2>4. \A c : /\ Before(j, "sleep", c) => Before(q, "sleep", c)'
               /\ Before(j, "exit_child", c) => Before(q, "exit_child", c)'
    BY <1>1, <2>3 DEF Holds
  <2>5. CASE todo[j].op \notin ChainOps \ {"slot"}
    <3>1. todo'[q].op \notin {"exit_child", "sleep", "detach", "wake", "enter_child"}
      BY <2>2, <2>5 DEF ChainOps
    <3>2. Right(q)'
      BY <3>1 DEF Right, ExitRight, SleepRight, DetachRight, WakeRight, EnterRight, FirstRight, EnterOps
    <3>. QED BY <2>1, <3>2
  <2>6. CASE todo[j].op \in ChainOps \ {"slot"}
    <3>1. PICK u : u = todo[j].state
      OBVIOUS
    <3>2. u \in State /\ RegionOf[u] # RegionOf[s] /\ u # s
      <4>1. j # 1
        BY <1>8, <1>15 DEF Moves
      <4>. QED BY <1>2, <2>2, <2>6, <3>1, <4>1, FrameFacts
    <3>3. \A c \in State : RegionOf[c] = RegionOf[u] \/ Parent[c] = u => c # s
      BY <3>2, ParentType
    <3>4. ExitRight(q)'
      BY <2>2, <2>3 DEF Right, ExitRight
    <3>5. SleepRight(q)'
      <4>1. SUFFICES ASSUME todo[j].op = "sleep" PROVE SleepRight(q)'
        BY <2>2 DEF SleepRight
      <4>2. /\ u \in active
            /\ \A c \in active : Parent[c] = u => Before(j, "sleep", c) \/ Before(j, "exit_child", u)
            /\ After(j, "detach", u)
            /\ \/ Parent[u] = NULL /\ life = "dying"
               \/ \E k \in DOMAIN todo : j < k /\ todo[k].op = "wake" /\ Beside(todo[k].state, u)
               \/ Parent[u] # NULL /\ After(j, "sleep", Parent[u])
        BY <2>2, <3>1, <4>1 DEF Right, SleepRight
      <4>3. \A c \in active' : Parent[c] = u => Before(q, "sleep", c)' \/ Before(q, "exit_child", u)'
        BY <1>2, <1>4, <2>4, <3>3, <4>2
      <4>4. ASSUME NEW k \in DOMAIN todo, j < k, todo[k].op = "wake", Beside(todo[k].state, u)
            PROVE  \E p \in DOMAIN todo' : q < p /\ todo'[p].op = "wake" /\ Beside(todo'[p].state, u)
        <5>1. k > 1 /\ q < k + Len(new) - 1
          BY <1>8, <1>15, <2>1, <4>4 DEF Moves
        <5>2. k + Len(new) - 1 \in DOMAIN todo' /\ todo'[k + Len(new) - 1] = todo[k]
          BY <1>8, <5>1 DEF Moves
        <5>. QED BY <4>4, <5>1, <5>2
      <4>5. /\ u \in active' /\ After(q, "detach", u)'
            /\ \/ Parent[u] = NULL /\ life' = "dying"
               \/ \E p \in DOMAIN todo' : q < p /\ todo'[p].op = "wake" /\ Beside(todo'[p].state, u)
               \/ Parent[u] # NULL /\ After(q, "sleep", Parent[u])'
        BY <1>4, <2>3, <4>2, <4>4
      <4>. QED BY <2>2, <3>1, <4>3, <4>5 DEF SleepRight, Beside
    <3>6. DetachRight(q)'
      <4>1. ~Beside(u, s)
        BY <3>2 DEF Beside
      <4>2. Link(u)' = Link(u)
        BY <1>10, <3>2, <4>1
      <4>. QED BY <1>4, <2>2, <2>4, <3>1, <3>2, <4>2 DEF Right, DetachRight
    <3>7. WakeRight(q)'
      <4>1. SUFFICES ASSUME todo[j].op = "wake", ~todo[j].first PROVE WakeRight(q)'
        BY <2>2 DEF WakeRight
      <4>2. /\ Parent[u] = NULL \/ Parent[u] \in active
            /\ \A c \in active : Beside(c, u) => Before(j, "sleep", c)
        BY <2>2, <3>1, <4>1 DEF Right, WakeRight
      <4>3. \A c \in active' : Beside(c, u) => Before(q, "sleep", c)'
        BY <1>2, <1>4, <2>4, <3>3, <4>2 DEF Beside
      <4>. QED BY <1>4, <2>2, <3>1, <4>2, <4>3 DEF WakeRight, Beside
    <3>8. EnterRight(q)'
      <4>1. SUFFICES ASSUME todo[j].op = "enter_child", ~todo[j].first PROVE EnterRight(q)'
        BY <2>2 DEF EnterRight
      <4>2. u \in active /\ \A c \in active : Parent[c] # u
        BY <2>2, <3>1, <4>1 DEF Right, EnterRight
      <4>3. u \in active' /\ \A c \in active' : Parent[c] # u
        BY <1>4, <3>3, <4>2, <1>2
      <4>. QED BY <2>2, <3>1, <4>3 DEF EnterRight
    <3>9. FirstRight(q)'
      BY <1>4, <2>2 DEF Right, FirstRight
    <3>10. Right(q)'
      BY <3>4, <3>5, <3>6, <3>7, <3>8, <3>9 DEF Right
    <3>. QED BY <2>1, <3>10
  <2>. QED BY <2>1, <2>5, <2>6
<1>16. ASSUME NEW k \in DOMAIN new PROVE Right(k)' /\ StampRight(k)'
  <2>1. todo'[k] = new[k]
    BY <1>8 DEF Moves
  <2>2. CASE new[k].op = "slot"
    <3>1. Right(k)'
      BY <2>1, <2>2 DEF Right, ExitRight, SleepRight, DetachRight, WakeRight, EnterRight, FirstRight, EnterOps
    <3>. QED BY <1>2, <1>4, <1>9, <2>1, <2>2, <3>1 DEF StampRight, EnterOps, ExitOps
  <2>3. CASE new[k].op = "enter_child"
    <3>1. /\ todo'[k].op = "enter_child" /\ todo'[k].state = s /\ todo'[k].target = t
          /\ todo'[k].first = b
      BY <1>7, <1>9, <2>1, <2>3
    <3>2. EnterRight(k)'
      <4>1. ~b => \A c \in active' : Parent[c] # s
        <5>1. Parent[s] # s
          BY <1>2, UpAcyclic, UpClosed, ParentType
        <5>. QED BY <1>2, <1>4, <5>1
      <4>. QED BY <1>4, <3>1, <4>1 DEF EnterRight
    <3>3. FirstRight(k)'
      BY <1>2, <1>4, <3>1 DEF FirstRight
    <3>4. StampRight(k)'
      BY <1>2, <1>4, <3>1 DEF StampRight, ExitOps
    <3>. QED BY <3>1, <3>2, <3>3, <3>4 DEF Right, ExitRight, SleepRight, DetachRight, WakeRight
  <2>. QED BY <1>9, <2>2, <2>3
<1>17. FramesRight'
  BY <1>1, <1>4, <1>8, <1>15, <1>16, FramesKept DEF ChartInv
<1>18. PlacesRight'
  BY <1>2, <1>4, <1>8, <1>9, PlacesKept DEF ChartInv
<1>19. EntryUndisturbed'
  BY <1>8, <1>9, <1>11, EntryKept DEF ChartInv
<1>20. /\ \A j \in DOMAIN todo : j = 1 \/ \E q \in DOMAIN todo' : todo'[q] = todo[j]
       /\ \A op, c : After(0, op, c) => After(0, op, c)' \/ (op = "wake" /\ c = s)
  BY <1>1, <1>8, Stays DEF Holds
<1>21. LinksRight'
  <2>1. /\ \A r \in Region : region_active'[r] # NULL =>
             RegionOf[region_active'[r]] = r /\ Parent[region_active'[r]] = NULL
        /\ \A u \in State : active_child'[u] # NULL => Parent[active_child'[u]] = u
    <3>1. region_active \in [Region -> State \cup {NULL}] /\ active_child \in [State -> State \cup {NULL}]
      BY <1>1 DEF TypesRight
    <3>. QED BY <1>2, <1>3, <1>4, <3>1 DEF LinksRight
  <2>2. \A u \in active' : Link(u)' = u /\ (Parent[u] = NULL \/ Parent[u] \in active')
    <3>1. Link(s)' = s
      BY <1>2, <1>10 DEF Beside
    <3>2. ASSUME NEW u \in active, u # s PROVE Link(u)' = u
      BY <1>2, <1>3, <1>10, <3>2 DEF LinksRight
    <3>. QED BY <1>2, <1>3, <1>4, <3>1, <3>2 DEF LinksRight
  <2>3. ASSUME NEW u \in State, Link(u)' = u PROVE u \in active' \/ After(0, "detach", u)'
    <3>1. u = s \/ Link(u) = u
      BY <1>10, <2>3
    <3>. QED BY <1>3, <1>4, <1>20, <3>1 DEF LinksRight
  <2>4. \A u \in State : history_child'[u] # NULL => Parent[history_child'[u]] = u
    BY <1>3, <1>4 DEF LinksRight
  <2>. QED BY <2>1, <2>2, <2>3, <2>4 DEF LinksRight
<1>22. UnmarkedRight'
  <2>1. CASE b
    <3>1. active' = active
      BY <1>2, <1>4, <2>1
    <3>. QED BY <1>3, <1>4, <3>1 DEF UnmarkedRight
  <2>2. CASE ~b
    <3>1. ASSUME NEW r \in Region, stamp[r] = kNeverTicked PROVE r # RegionOf[s]
      BY <1>2, <2>2, <3>1
    <3>. QED BY <1>2, <1>3, <1>4, <3>1 DEF UnmarkedRight
  <2>. QED BY <2>1, <2>2
<1>23. Lacking'
  <2>1. After(0, "enter_child", s)'
    <3>1. Holds(new[2], "enter_child", s) /\ 2 \in DOMAIN new
      BY <1>6, <1>7 DEF Holds
    <3>. QED BY <1>8, <3>1, Shifted
  <2>2. ASSUME NEW u \in active
        PROVE  \/ InitialChild[u] = NULL
               \/ \E c \in active' : Parent[c] = u
               \/ After(0, "sleep", u)' \/ After(0, "enter_child", u)'
               \/ \E k \in DOMAIN todo' : todo'[k].op = "wake" /\ Parent[todo'[k].state] = u
    <3>1. \/ InitialChild[u] = NULL
          \/ \E c \in active : Parent[c] = u
          \/ After(0, "sleep", u) \/ After(0, "enter_child", u)
          \/ \E k \in DOMAIN todo : todo[k].op = "wake" /\ Parent[todo[k].state] = u
      BY <1>3 DEF Lacking
    <3>2. ASSUME NEW k \in DOMAIN todo, todo[k].op = "wake", Parent[todo[k].state] = u
          PROVE  \/ \E c \in active' : Parent[c] = u
                 \/ \E q \in DOMAIN todo' : todo'[q].op = "wake" /\ Parent[todo'[q].state] = u
      <4>1. CASE k = 1
        BY <1>4, <3>2, <4>1
      <4>2. CASE k # 1
        BY <1>20, <3>2, <4>2
      <4>. QED BY <4>1, <4>2
    <3>3. After(0, "sleep", u) => After(0, "sleep", u)'
      BY <1>20
    <3>4. After(0, "enter_child", u) => After(0, "enter_child", u)'
      BY <1>20
    <3>. QED BY <1>4, <3>1, <3>2, <3>3, <3>4
  <2>3. ASSUME NEW r \in Region
        PROVE  \/ \E u \in active' : RegionOf[u] = r /\ Parent[u] = NULL
               \/ \E k \in DOMAIN todo' : /\ todo'[k].op = "wake"
                                          /\ RegionOf[todo'[k].state] = r /\ Parent[todo'[k].state] = NULL
    <3>1. \/ \E u \in active : RegionOf[u] = r /\ Parent[u] = NULL
          \/ \E k \in DOMAIN todo : /\ todo[k].op = "wake"
                                    /\ RegionOf[todo[k].state] = r /\ Parent[todo[k].state] = NULL
      BY <1>2, <1>3 DEF Lacking
    <3>2. ASSUME NEW k \in DOMAIN todo, todo[k].op = "wake", RegionOf[todo[k].state] = r,
                 Parent[todo[k].state] = NULL
          PROVE  \/ \E u \in active' : RegionOf[u] = r /\ Parent[u] = NULL
                 \/ \E q \in DOMAIN todo' : /\ todo'[q].op = "wake"
                                            /\ RegionOf[todo'[q].state] = r /\ Parent[todo'[q].state] = NULL
      <4>1. CASE k = 1
        BY <1>4, <3>2, <4>1
      <4>2. CASE k # 1
        BY <1>20, <3>2, <4>2
      <4>. QED BY <4>1, <4>2
    <3>. QED BY <1>4, <3>1, <3>2
  <2>. QED BY <1>4, <2>1, <2>2, <2>3 DEF Lacking
<1>24. LifeRight'
  BY <1>2, <1>4, <1>5 DEF LifeRight
<1>90. NoDeeper
  BY <1>1, <1>8, <1>9, DepthMoves
<1>. QED BY <1>90, <1>11, <1>13, <1>14, <1>17, <1>18, <1>19, <1>21, <1>22, <1>23, <1>24 DEF ChartInv

-----------------------------------------------------------------------------
\* The steps taken while nothing is on the stack.
EmptyOps == {"initial_entry", "watch", "exit_region"}

LEMMA IdleKeeps ==
  ASSUME ChartInv, Idle,
         life' \in {"none", "deferred", "live", "dying", "dead"}, tick' \in 0 .. MaxTick,
         life # "none", life' \in {"deferred", "live"} => life \in {"deferred", "live"},
         UNCHANGED <<active, deactivated, region_active, active_child, history_child, seated, armed_value>>,
         poisoned' \in BOOLEAN, stamp' \in [Region -> kNeverTicked .. MaxTick],
         \A r \in Region : stamp'[r] = kNeverTicked => stamp[r] = kNeverTicked,
         todo' \in Seq(Frame), \A i \in DOMAIN todo' : todo'[i].op \in EmptyOps,
         PlacesRight', LifeRight'
  PROVE  ChartInv' /\ InFlight' \subseteq InFlight /\ NoDeeper
<1>1. \A i \in DOMAIN todo' : todo'[i].op \notin ChainOps /\ todo'[i].op # "deliver"
  BY DEF ChainOps, EmptyOps
<1>2. DOMAIN todo = {}
  BY DEF Idle
<1>3. TypesRight'
  BY DEF ChartInv, TypesRight
<1>4. StackInOrder'
  BY <1>1 DEF StackInOrder, InOrder
<1>5. FramesRight'
  BY <1>1 DEF FramesRight, Right, StampRight, ExitRight, SleepRight, DetachRight, WakeRight, EnterRight,
     FirstRight, EnterOps, ChainOps
<1>6. EntryUndisturbed'
  BY <1>1 DEF EntryUndisturbed
<1>7. \A op, s : ~After(0, op, s)
  BY <1>2 DEF After
<1>8. LinksRight'
  <2>1. \A s : Link(s)' = Link(s)
    BY DEF Link, Below
  <2>2. LinksRight
    BY DEF ChartInv
  <2>. QED BY <1>7, <2>1, <2>2 DEF LinksRight
<1>9. UnmarkedRight'
  BY DEF ChartInv, UnmarkedRight
<1>10. Lacking'
  BY <1>2, <1>7 DEF ChartInv, Lacking
<1>11. InFlight' \subseteq InFlight
  BY <1>1 DEF InFlight
<1>90. NoDeeper
  BY <1>1, DepthZero DEF ChartInv
<1>. QED BY <1>90, <1>3, <1>4, <1>5, <1>6, <1>8, <1>9, <1>10, <1>11 DEF ChartInv

LEMMA StartKeeps ==
  ASSUME ChartInv, start_initial_entry
  PROVE  ChartInv' /\ InFlight' \subseteq InFlight /\ NoDeeper
<1>1. /\ Idle /\ life = "deferred" /\ life' = "live" /\ todo' = <<initial_entry(1)>> /\ TypesRight
      /\ UNCHANGED <<tick, poisoned, active, deactivated, region_active, active_child, history_child,
                     seated, stamp, armed_value>>
  BY DEF start_initial_entry, configVars, watcherVars, ChartInv
<1> DEFINE f == initial_entry(1)
<1>2. f \in Frame /\ f.op = "initial_entry"
  <2>1. Regions \in Seq(Region) /\ Regions # <<>>
    BY ChartAssumption
  <2>2. 1 \in DOMAIN Regions
    BY <2>1
  <2>. QED BY <2>2 DEF Frame, initial_entry
<1>. HIDE DEF f
<1>3. PICK x : x = <<f>> /\ x \in Seq(Frame) /\ Len(x) = 1 /\ DOMAIN x = {1} /\ x[1] = f
  BY <1>2, One
<1>4. todo' = x
  BY <1>1, <1>3 DEF f
<1>5. PlacesRight'
  BY <1>2, <1>3, <1>4 DEF PlacesRight
<1>6. LifeRight'
  BY <1>1 DEF ChartInv, LifeRight
<1>7. \A i \in DOMAIN todo' : todo'[i].op \in EmptyOps
  BY <1>2, <1>3, <1>4 DEF EmptyOps
<1>. QED BY <1>1, <1>3, <1>4, <1>5, <1>6, <1>7, IdleKeeps DEF TypesRight

LEMMA NextTickKeeps ==
  ASSUME ChartInv, next_tick
  PROVE  ChartInv' /\ InFlight' \subseteq InFlight /\ NoDeeper
<1>1. /\ Idle /\ life = "live" /\ tick < MaxTick /\ tick' = tick + 1 /\ TypesRight
      /\ UNCHANGED <<life, poisoned, active, deactivated, region_active, active_child, history_child,
                     seated, stamp, armed_value, todo>>
  BY DEF next_tick, configVars, watcherVars, ChartInv
<1>2. DOMAIN todo' = {}
  BY <1>1 DEF Idle
<1>3. tick' \in 0 .. MaxTick
  BY <1>1, TableAssumption DEF TypesRight
<1>4. PlacesRight' /\ LifeRight'
  BY <1>1, <1>2 DEF PlacesRight, ChartInv, LifeRight
<1>. QED BY <1>1, <1>2, <1>3, <1>4, IdleKeeps DEF TypesRight

LEMMA FlushKeeps ==
  ASSUME ChartInv, flush_despawn
  PROVE  ChartInv' /\ InFlight' \subseteq InFlight /\ NoDeeper
<1>1. /\ Idle /\ life = "dying" /\ life' = "dead" /\ TypesRight /\ LifeRight /\ LinksRight
      /\ UNCHANGED <<tick, poisoned, active, deactivated, region_active, active_child, history_child,
                     seated, stamp, armed_value, todo>>
  BY DEF flush_despawn, configVars, watcherVars, ChartInv
<1>2. DOMAIN todo = {} /\ DOMAIN todo' = {}
  BY <1>1 DEF Idle
<1>3. \A op, s : ~After(0, op, s)
  BY <1>2 DEF After
<1>4. \A s \in active : Parent[s] # NULL
  BY <1>1, <1>2, <1>3 DEF LifeRight
<1>5. active = {}
  <2>1. ASSUME active # {} PROVE FALSE
    <3>1. PICK s \in active : Parent[s] \notin active
      BY <1>1, <2>1, ChartAssumption DEF TypesRight
    <3>. QED BY <1>1, <1>4, <3>1 DEF LinksRight
  <2>. QED BY <2>1
<1>6. \A s \in State : Link(s)' # s
  <2>1. \A s : Link(s)' = Link(s)
    BY <1>1 DEF Link, Below
  <2>. QED BY <1>1, <1>3, <1>5, <2>1 DEF LinksRight
<1>7. PlacesRight'
  BY <1>2 DEF PlacesRight
<1>8. LifeRight'
  BY <1>1, <1>5, <1>6 DEF LifeRight, Idle
<1>. QED BY <1>1, <1>2, <1>7, <1>8, IdleKeeps DEF TypesRight

LEMMA WatchersKeep ==
  ASSUME ChartInv, run_watchers
  PROVE  ChartInv' /\ InFlight' \subseteq InFlight /\ NoDeeper
<1>1. /\ Idle /\ life = "live" /\ TypesRight
      /\ todo' = [i \in 1 .. Cardinality(Due) |-> watch(Nth(Due, i))]
      /\ UNCHANGED <<life, tick, poisoned, active, deactivated, region_active, active_child, history_child,
                     seated, stamp, armed_value>>
  BY DEF run_watchers, configVars, ChartInv
<1>2. PICK D : D = Due
  OBVIOUS
<1>3. D \in SUBSET DOMAIN Watchers
  BY <1>2 DEF Due
<1>4. Watchers \in Seq([state : State, event : Event])
  BY TableAssumption
<1>5. D \in SUBSET Nat /\ IsFiniteSet(D)
  BY <1>3, <1>4, LivePositions
<1>6. Cardinality(D) \in Nat /\ \A i \in 1 .. Cardinality(D) : Nth(D, i) \in D
  BY <1>5, NthLists
<1>7. ASSUME NEW i \in 1 .. Cardinality(D)
      PROVE  watch(Nth(D, i)) \in Frame /\ watch(Nth(D, i)).op = "watch"
  BY <1>3, <1>6 DEF watch, Frame
<1>8. todo' = [i \in 1 .. Cardinality(D) |-> watch(Nth(D, i))]
  BY <1>1, <1>2
<1>9. /\ todo' \in Seq(Frame) /\ \A i \in DOMAIN todo' : todo'[i].op = "watch"
  BY <1>6, <1>7, <1>8
<1>10. PlacesRight'
  BY <1>9 DEF PlacesRight
<1>11. LifeRight'
  BY <1>1 DEF ChartInv, LifeRight
<1>. QED BY <1>1, <1>9, <1>10, <1>11, IdleKeeps DEF TypesRight, EmptyOps

LEMMA ExitHostKeeps ==
  ASSUME ChartInv, exit_host_machines
  PROVE  ChartInv' /\ InFlight' \subseteq InFlight /\ life' = "dying" /\ NoDeeper
<1>1. /\ Idle /\ life \in {"live", "dying"} /\ life' = "dying" /\ TypesRight
      /\ stamp' = [r \in Region |-> tick]
      /\ todo' = [i \in DOMAIN Regions |-> exit_region(Regions[Len(Regions) - i + 1])]
      /\ UNCHANGED <<tick, poisoned, active, deactivated, region_active, active_child, history_child,
                     seated, armed_value>>
  BY DEF exit_host_machines, configVars, watcherVars, ChartInv
<1>2. /\ Regions \in Seq(Region) /\ Len(Regions) \in Nat /\ DOMAIN Regions = 1 .. Len(Regions)
      /\ Region = {Regions[n] : n \in DOMAIN Regions}
      /\ \A m, n \in DOMAIN Regions : Regions[m] = Regions[n] => m = n
      /\ \A s \in State : RegionOf[s] \in Region
  <2>1. IsInjective(Regions) /\ Regions \in Seq(Region) /\ RegionOf \in [State -> Region]
    BY ChartAssumption
  <2>2. \A m, n \in DOMAIN Regions : Regions[m] = Regions[n] => m = n
    BY <2>1 DEF IsInjective
  <2>. QED BY <2>1, <2>2 DEF Region, Range
<1> DEFINE back(i) == Len(Regions) - i + 1
<1>3. /\ \A i \in DOMAIN Regions : back(i) \in DOMAIN Regions /\ back(back(i)) = i
      /\ \A i, j \in DOMAIN Regions : back(i) = back(j) => i = j
  <2>1. ASSUME NEW i \in DOMAIN Regions PROVE back(i) \in DOMAIN Regions /\ back(back(i)) = i
    BY <1>2
  <2>2. ASSUME NEW i \in DOMAIN Regions, NEW j \in DOMAIN Regions, back(i) = back(j) PROVE i = j
    BY <2>1, <2>2
  <2>. QED BY <2>1, <2>2
<1>4. todo' = [i \in DOMAIN Regions |-> exit_region(Regions[back(i)])]
  BY <1>1
<1>. HIDE DEF back
<1>5. DOMAIN todo' = DOMAIN Regions
  BY <1>4
<1>6. ASSUME NEW i \in DOMAIN Regions
      PROVE  /\ todo'[i].op = "exit_region" /\ todo'[i].region = Regions[back(i)]
             /\ todo'[i] \in Frame
  <2>1. Regions[back(i)] \in Region
    BY <1>2, <1>3
  <2>2. todo'[i] = exit_region(Regions[back(i)])
    BY <1>4
  <2>. QED BY <2>1, <2>2 DEF exit_region, Frame
<1>7. todo' \in Seq(Frame)
  <2>1. todo' = [i \in 1 .. Len(Regions) |-> exit_region(Regions[back(i)])]
    BY <1>2, <1>4
  <2>2. \A i \in 1 .. Len(Regions) : exit_region(Regions[back(i)]) \in Frame
    <3>1. SUFFICES ASSUME NEW i \in 1 .. Len(Regions) PROVE exit_region(Regions[back(i)]) \in Frame
      OBVIOUS
    <3>2. Regions[back(i)] \in Region
      BY <1>2, <1>3
    <3>. QED BY <3>2 DEF exit_region, Frame
  <2>. QED BY <1>2, <2>1, <2>2
<1>8. PlacesRight'
  <2>1. ASSUME NEW i \in DOMAIN Regions, NEW j \in DOMAIN Regions, todo'[j].region = todo'[i].region
        PROVE  j = i
    <3>1. Regions[back(j)] = Regions[back(i)] /\ back(i) \in DOMAIN Regions /\ back(j) \in DOMAIN Regions
      BY <1>3, <1>6, <2>1
    <3>. QED BY <1>2, <1>3, <3>1
  <2>. QED BY <1>1, <1>5, <1>6, <2>1 DEF PlacesRight, ChainOps
<1>9. LifeRight'
  <2>1. ASSUME NEW s \in active
        PROVE  \E i \in DOMAIN todo' : todo'[i].op = "exit_region" /\ todo'[i].region = RegionOf[s]
    <3>1. s \in State /\ RegionOf[s] \in Region
      BY <1>1, <1>2, <2>1 DEF TypesRight
    <3>2. PICK n \in DOMAIN Regions : Regions[n] = RegionOf[s]
      BY <1>2, <3>1
    <3>3. back(n) \in DOMAIN Regions /\ Regions[back(back(n))] = RegionOf[s]
      BY <1>3, <3>2
    <3>. QED BY <1>5, <1>6, <3>3
  <2>2. \A r \in Region : stamp'[r] = tick'
    BY <1>1
  <2>3. \A i \in DOMAIN todo' : todo'[i].op \notin EnterOps
    BY <1>5, <1>6 DEF EnterOps
  <2>4. life # "none" => deactivated = State \ active
    BY DEF ChartInv, LifeRight
  <2>. QED BY <1>1, <2>1, <2>2, <2>3, <2>4 DEF LifeRight
<1>10. stamp' \in [Region -> kNeverTicked .. MaxTick] /\ \A r \in Region : stamp'[r] # kNeverTicked
  <2>1. tick \in kNeverTicked .. MaxTick /\ tick # kNeverTicked
    BY <1>1, TableAssumption DEF TypesRight, kNeverTicked
  <2>. QED BY <1>1, <2>1
<1>11. \A i \in DOMAIN todo' : todo'[i].op \in EmptyOps
  BY <1>5, <1>6 DEF EmptyOps
<1>. QED BY <1>1, <1>7, <1>8, <1>9, <1>10, <1>11, IdleKeeps DEF TypesRight

\* A step that leaves the machine alone, the journal aside.
LEMMA AsideKeeps ==
  ASSUME ChartInv, poisoned' \in BOOLEAN,
         UNCHANGED <<life, tick, active, deactivated, region_active, active_child, history_child,
                     seated, stamp, armed_value, todo>>
  PROVE  ChartInv' /\ InFlight' \subseteq InFlight /\ NoDeeper
<1>1. TypesRight'
  BY DEF ChartInv, TypesRight
<1>2. StackInOrder'
  BY DEF ChartInv, StackInOrder
<1>3. \A i, op, s : Before(i, op, s)' = Before(i, op, s) /\ After(i, op, s)' = After(i, op, s)
  BY DEF Before, After
<1>4. \A s : Link(s)' = Link(s)
  BY DEF Link, Below
<1>5. FramesRight'
  <2>1. ASSUME NEW i \in DOMAIN todo PROVE Right(i)' /\ StampRight(i)'
    <3>1. Right(i) /\ StampRight(i)
      BY DEF ChartInv, FramesRight
    <3>. QED BY <1>3, <1>4, <3>1 DEF Right, StampRight, ExitRight, SleepRight, DetachRight, WakeRight,
                EnterRight, FirstRight
  <2>. QED BY <2>1 DEF FramesRight
<1>6. PlacesRight'
  BY DEF ChartInv, PlacesRight
<1>7. InFlight' = InFlight /\ Entering' = Entering
  BY DEF InFlight, Entering
<1>8. EntryUndisturbed'
  BY <1>7 DEF ChartInv, EntryUndisturbed
<1>9. LinksRight'
  BY <1>3, <1>4 DEF ChartInv, LinksRight
<1>10. UnmarkedRight'
  BY DEF ChartInv, UnmarkedRight
<1>11. Lacking'
  BY <1>3 DEF ChartInv, Lacking
<1>12. LifeRight'
  BY <1>3, <1>4 DEF ChartInv, LifeRight
<1>90. NoDeeper
  BY DepthType DEF ChartInv, NoDeeper, Depth
<1>. QED BY <1>90, <1>1, <1>2, <1>5, <1>6, <1>7, <1>8, <1>9, <1>10, <1>11, <1>12 DEF ChartInv

LEMMA ChartInitInv ==
  ASSUME ChartInit
  PROVE  ChartInv
<1>1. DOMAIN todo = {} /\ todo \in Seq(Frame) /\ todo = <<>>
  BY DEF ChartInit
<1>2. TypesRight
  <2>1. 0 \in 0 .. MaxTick /\ kNeverTicked \in kNeverTicked .. MaxTick
    BY TableAssumption DEF kNeverTicked
  <2>. QED BY <1>1, <2>1 DEF ChartInit, TypesRight
<1>3. StackInOrder /\ FramesRight /\ PlacesRight /\ EntryUndisturbed
  BY <1>1 DEF StackInOrder, FramesRight, PlacesRight, EntryUndisturbed
<1>4. \A s \in State : Link(s) = NULL
  <2>1. SUFFICES ASSUME NEW s \in State PROVE Link(s) = NULL
    OBVIOUS
  <2>. QED BY ParentType DEF Link, Below, ChartInit
<1>5. LinksRight
  <2>1. \A s \in State : Link(s) # s
    BY <1>4, ParentType
  <2>. QED BY <2>1 DEF LinksRight, ChartInit
<1>6. Lacking /\ UnmarkedRight
  BY DEF Lacking, UnmarkedRight, ChartInit
<1>7. LifeRight
  BY <1>4, ParentType DEF LifeRight, ChartInit
<1>. QED BY <1>2, <1>3, <1>5, <1>6, <1>7 DEF ChartInv

\* The initial chains, from the regions down.
LEMMA InitialChainDown ==
  /\ InitialChain \in SUBSET State
  /\ \A s \in State :
       s \in InitialChain <=> /\ s = InitialBelow(RegionOf[s], Parent[s])
                              /\ Parent[s] = NULL \/ Parent[s] \in InitialChain
<1>1. ASSUME NEW s \in State
      PROVE  s \in InitialChain <=> /\ s = InitialBelow(RegionOf[s], Parent[s])
                                    /\ Parent[s] = NULL \/ Parent[s] \in InitialChain
  <2>1. CASE Parent[s] = NULL
    <3>1. Up[s] = {s}
      BY <2>1, UpDef
    <3>. QED BY <2>1, <3>1 DEF InitialChain
  <2>2. CASE Parent[s] # NULL
    <3>1. Up[s] = {s} \cup Up[Parent[s]] /\ Parent[s] \in State
      BY <2>2, UpDef, ParentType
    <3>. QED BY <2>2, <3>1 DEF InitialChain
  <2>. QED BY <2>1, <2>2
<1>2. InitialChain \in SUBSET State
  BY DEF InitialChain
<1>. QED BY <1>1, <1>2

LEMMA InstantiateKeeps ==
  ASSUME ChartInv, NEW deferred \in BOOLEAN, instantiate(deferred)
  PROVE  ChartInv' /\ InFlight' \subseteq InFlight /\ NoDeeper
<1>1. PICK C \in SUBSET State : C = InitialChain
  BY InitialChainDown
<1>2. /\ life = "none" /\ life' \in {"deferred", "live"} /\ (deferred => life' = "deferred")
      /\ active' = C /\ deactivated' = State \ C /\ seated' = C
      /\ region_active' = Initial
      /\ active_child' = [s \in State |-> IF s \in C THEN InitialChild[s] ELSE NULL]
      /\ todo' = (IF deferred THEN <<>> ELSE <<initial_entry(1)>>)
      /\ UNCHANGED <<tick, poisoned, history_child, stamp, armed_value>>
      /\ TypesRight /\ LifeRight
  BY <1>1 DEF instantiate, watcherVars, ChartInv
<1>3. PICK f : f = initial_entry(1)
  OBVIOUS
<1>4. f \in Frame /\ f.op = "initial_entry"
  <2>1. Regions \in Seq(Region) /\ Regions # <<>>
    BY ChartAssumption
  <2>2. 1 \in DOMAIN Regions
    BY <2>1
  <2>. QED BY <1>3, <2>2 DEF Frame, initial_entry
<1>5. PICK x : x = todo' /\ x \in Seq(Frame) /\ \A i \in DOMAIN x : i = Len(x) /\ x[i].op = "initial_entry"
  <2>1. CASE deferred
    <3>1. todo' = <<>>
      BY <1>2, <2>1
    <3>. QED BY <3>1, None0
  <2>2. CASE ~deferred
    <3>1. PICK y : y = <<f>> /\ y \in Seq(Frame) /\ Len(y) = 1 /\ DOMAIN y = {1} /\ y[1] = f
      BY <1>4, One
    <3>2. todo' = y
      BY <1>2, <1>3, <2>2, <3>1
    <3>. QED BY <1>4, <3>1, <3>2
  <2>. QED BY <2>1, <2>2
<1>6. \A i \in DOMAIN todo' : todo'[i].op = "initial_entry" /\ todo'[i].op \notin ChainOps
  BY <1>5 DEF ChainOps
<1>7. /\ Initial \in [Region -> State]
      /\ \A r \in Region : RegionOf[Initial[r]] = r /\ Parent[Initial[r]] = NULL
      /\ InitialChild \in [State -> State \cup {NULL}]
      /\ \A s \in State : InitialChild[s] # NULL => Parent[InitialChild[s]] = s
  BY ChartAssumption
<1>8. TypesRight'
  <2>1. active' \subseteq State /\ deactivated' \subseteq State /\ seated' \subseteq active'
    BY <1>2
  <2>2. region_active' \in [Region -> State \cup {NULL}]
    BY <1>2, <1>7
  <2>3. active_child' \in [State -> State \cup {NULL}]
    BY <1>2, <1>7
  <2>. QED BY <1>2, <1>5, <2>1, <2>2, <2>3 DEF TypesRight
<1>9. StackInOrder'
  BY <1>6 DEF StackInOrder, InOrder
<1>10. FramesRight'
  BY <1>6 DEF FramesRight, Right, StampRight, ExitRight, SleepRight, DetachRight, WakeRight, EnterRight,
     FirstRight, EnterOps, ChainOps
<1>11. PlacesRight'
  BY <1>5, <1>6 DEF PlacesRight
<1>12. EntryUndisturbed'
  BY <1>6 DEF EntryUndisturbed
<1>13. ASSUME NEW s \in State
       PROVE  s \in C <=> /\ s = InitialBelow(RegionOf[s], Parent[s])
                          /\ Parent[s] = NULL \/ Parent[s] \in C
  BY <1>1, InitialChainDown
<1>14. ASSUME NEW s \in State PROVE Link(s)' = s <=> s \in C
  <2>1. CASE Parent[s] = NULL
    <3>1. Link(s)' = Initial[RegionOf[s]]
      BY <1>2, <2>1 DEF Link, Below
    <3>2. InitialBelow(RegionOf[s], Parent[s]) = Initial[RegionOf[s]]
      BY <2>1 DEF InitialBelow
    <3>. QED BY <1>13, <2>1, <3>1, <3>2
  <2>2. CASE Parent[s] # NULL
    <3>1. Parent[s] \in State /\ NULL # s
      BY <2>2, ParentType
    <3>2. Link(s)' = (IF Parent[s] \in C THEN InitialChild[Parent[s]] ELSE NULL)
      BY <1>2, <2>2, <3>1 DEF Link, Below
    <3>3. InitialBelow(RegionOf[s], Parent[s]) = InitialChild[Parent[s]]
      BY <2>2 DEF InitialBelow
    <3>. QED BY <1>13, <2>2, <3>1, <3>2, <3>3
  <2>. QED BY <2>1, <2>2
<1>15. \A r \in Region : Initial[r] \in C
  BY <1>7, <1>13 DEF InitialBelow
<1>16. \A s \in C : InitialChild[s] # NULL => InitialChild[s] \in C
  <2>1. SUFFICES ASSUME NEW s \in C, InitialChild[s] # NULL PROVE InitialChild[s] \in C
    OBVIOUS
  <2>2. InitialChild[s] \in State /\ Parent[InitialChild[s]] = s /\ s # NULL
    BY <1>7, <2>1, ParentType
  <2>. QED BY <1>13, <2>2 DEF InitialBelow
<1>17. LinksRight'
  <2>1. \A r \in Region : region_active'[r] # NULL =>
          RegionOf[region_active'[r]] = r /\ Parent[region_active'[r]] = NULL
    BY <1>2, <1>7
  <2>2. \A s \in State : active_child'[s] # NULL => Parent[active_child'[s]] = s
    BY <1>2, <1>7
  <2>3. \A s \in State : history_child'[s] # NULL => Parent[history_child'[s]] = s
    BY <1>2 DEF LifeRight
  <2>4. \A s \in active' : Link(s)' = s /\ (Parent[s] = NULL \/ Parent[s] \in active')
    BY <1>2, <1>13, <1>14
  <2>5. \A s \in State : Link(s)' = s => s \in active'
    BY <1>2, <1>14
  <2>. QED BY <2>1, <2>2, <2>3, <2>4, <2>5 DEF LinksRight
<1>18. UnmarkedRight'
  BY <1>2, <1>15, <1>16 DEF UnmarkedRight, LifeRight
<1>19. Lacking'
  <2>1. \A s \in active' : InitialChild[s] = NULL \/ \E c \in active' : Parent[c] = s
    BY <1>2, <1>7, <1>16
  <2>2. \A r \in Region : \E s \in active' : RegionOf[s] = r /\ Parent[s] = NULL
    BY <1>2, <1>7, <1>15
  <2>. QED BY <2>1, <2>2 DEF Lacking
<1>20. LifeRight'
  <2>1. life' = "deferred" => todo' = <<>>
    BY <1>2 DEF instantiate
  <2>. QED BY <1>2, <2>1 DEF LifeRight
<1>21. InFlight' \subseteq InFlight
  BY <1>6 DEF InFlight
<1>90. NoDeeper
  BY <1>2, <1>6, DepthZero
<1>. QED BY <1>90, <1>8, <1>9, <1>10, <1>11, <1>12, <1>17, <1>18, <1>19, <1>20, <1>21 DEF ChartInv

-----------------------------------------------------------------------------
\* Every step keeps the invariant; a live machine takes up no region that was
\* marked in this tick.
StepRight ==
  /\ ChartInv'
  /\ life = "live" => InFlight' \subseteq InFlight \cup {q \in Region : stamp[q] # tick}
  /\ Depth' <= kMaxCascadeDepth

LEMMA StepKeeps ==
  ASSUME ChartInv, Depth <= kMaxCascadeDepth, ~ReentrantEntry, [ChartNext]_chartVars
  PROVE  StepRight
<1>0. ASSUME NoDeeper PROVE Depth' <= kMaxCascadeDepth
  <2>1. Depth \in Nat /\ kMaxCascadeDepth \in Nat
    BY DepthType, TableAssumption DEF ChartInv
  <2>. QED BY <1>0, <2>1 DEF NoDeeper
<1>1. ASSUME ChartInv', InFlight' \subseteq InFlight, NoDeeper \/ Depth' <= kMaxCascadeDepth PROVE StepRight
  BY <1>1, <1>0 DEF StepRight
<1>2. CASE \E deferred \in BOOLEAN : instantiate(deferred)
  BY <1>1, <1>2, InstantiateKeeps
<1>3. CASE start_initial_entry
  BY <1>1, <1>3, StartKeeps
<1>4. CASE \E e \in Event : trigger(e)
  BY <1>1, <1>4, TriggerKeeps
<1>5. CASE hook_return
  BY <1>1, <1>5, ReturnKeeps
<1>6. CASE Running
  <2>1. CASE run_initial_entry
    <3>1. \A q \in Region : stamp[q] = kNeverTicked => stamp[q] # tick
      <4>1. tick \in 0 .. MaxTick
        BY DEF ChartInv, TypesRight
      <4>2. tick # kNeverTicked
        BY <4>1 DEF kNeverTicked
      <4>. QED BY <4>2
    <3>. QED BY <1>0, <2>1, <3>1, InitialEntryKeeps DEF StepRight
  <2>2. CASE evaluate_region
    BY <1>0, <2>2, EvaluateKeeps DEF StepRight
  <2>3. CASE void_marked_region
    BY <1>1, <2>3, VoidKeeps
  <2>4. CASE end_delivery
    BY <1>1, <2>4, EndDeliveryKeeps
  <2>5. CASE exit_active_child
    BY <1>1, <2>5, ExitChildKeeps
  <2>6. CASE deactivate_state
    BY <1>1, <2>6, SleepKeeps
  <2>7. CASE unlink_state
    BY <1>1, <2>7, DetachKeeps
  <2>8. CASE activate_state
    BY <1>1, <2>8, WakeKeeps
  <2>9. CASE enter_substate
    BY <1>1, <2>9, EnterChildKeeps
  <2>10. CASE exit_one_region
    BY <1>0, <2>10, ExitRegionKeeps DEF StepRight
  <2>11. CASE evaluate_watcher
    BY <1>1, <2>11, WatcherKeeps
  <2>. QED BY <1>6, <2>1, <2>2, <2>3, <2>4, <2>5, <2>6, <2>7, <2>8, <2>9, <2>10, <2>11 DEF Running
<1>7. CASE run_watchers
  BY <1>1, <1>7, WatchersKeep
<1>8. CASE exit_host_machines
  BY <1>1, <1>8, ExitHostKeeps
<1>9. CASE flush_despawn
  BY <1>1, <1>9, FlushKeeps
<1>10. CASE next_tick
  BY <1>1, <1>10, NextTickKeeps
<1>11. CASE poison
  BY <1>1, <1>11, AsideKeeps DEF poison, configVars, watcherVars
<1>12. CASE UNCHANGED chartVars
  <2>1. poisoned' \in BOOLEAN
    BY <1>12 DEF chartVars, ChartInv, TypesRight
  <2>. QED BY <1>1, <1>12, <2>1, AsideKeeps DEF chartVars, configVars, watcherVars
<1>. QED BY <1>2, <1>3, <1>4, <1>5, <1>6, <1>7, <1>8, <1>9, <1>10, <1>11, <1>12 DEF ChartNext

\* The call stack stays in order, whatever hooks trigger, as long as no hook of
\* an initial entry transitions its own region.
THEOREM StackRight ==
  ASSUME ~ReentrantEntry
  PROVE  ChartSpec => [](ChartInv /\ Depth <= kMaxCascadeDepth)
<1>1. ChartInit => ChartInv /\ Depth <= kMaxCascadeDepth
  <2>1. SUFFICES ASSUME ChartInit PROVE ChartInv /\ Depth <= kMaxCascadeDepth
    OBVIOUS
  <2>2. {j \in DOMAIN todo : todo[j].op = "deliver"} = {}
    BY <2>1 DEF ChartInit
  <2>3. Depth = 0 /\ kMaxCascadeDepth \in Nat
    BY <2>2, FS_EmptySet, TableAssumption DEF Depth
  <2>. QED BY <2>1, <2>3, ChartInitInv
<1>2. ChartInv /\ Depth <= kMaxCascadeDepth /\ [ChartNext]_chartVars => (ChartInv /\ Depth <= kMaxCascadeDepth)'
  BY StepKeeps DEF StepRight
<1>. QED BY <1>1, <1>2, PTL DEF ChartSpec

\* "An inactive state ALWAYS owns one scope" (transitions.cpp): no exit ever
\* finds a scope that is there already and no entry one that is missing, for
\* every chart, every table and every nesting of hooks and events.
THEOREM OneScope ==
  ASSUME ~ReentrantEntry
  PROVE  ChartSpec => []OneScopePerInactiveState
<1>1. ChartInv => OneScopePerInactiveState
  BY DEF ChartInv, LifeRight, OneScopePerInactiveState
<1>. QED BY <1>1, StackRight, PTL

\* "One transition per region per tick": no cascade and no pending initial
\* entry works again in a region that was marked in this tick and is done.
THEOREM OneChain ==
  ASSUME ~ReentrantEntry
  PROVE  ChartSpec => OneChainPerTick
<1>1. ChartInv /\ Depth <= kMaxCascadeDepth /\ [ChartNext]_chartVars =>
        [\A r \in Region :
           life = "live" /\ marked(r) /\ tick' = tick /\ r \notin InFlight => r \notin InFlight']_chartVars
  <2>1. SUFFICES ASSUME ChartInv, Depth <= kMaxCascadeDepth, [ChartNext]_chartVars, NEW r \in Region,
                        life = "live", marked(r), r \notin InFlight
                 PROVE  r \notin InFlight'
    OBVIOUS
  <2>2. StepRight
    BY <2>1, StepKeeps
  <2>. QED BY <2>1, <2>2 DEF StepRight, marked
<1>. QED BY <1>1, StackRight, PTL DEF ChartSpec, OneChainPerTick

-----------------------------------------------------------------------------
\* Watchers, also under initial entries that transition their own region.
WatchInv ==
  /\ armed_value \in [DOMAIN Watchers -> BOOLEAN]
  /\ ArmedInActiveState
  /\ life = "none" => Idle /\ active = {}

LEMMA WatchStep ==
  ASSUME WatchInv, [ChartNext]_chartVars
  PROVE  WatchInv'
<1>1. ASSUME UNCHANGED armed_value, active \subseteq active' \/ life = "none",
             life' # "none" \/ UNCHANGED <<life, todo, active>>
      PROVE  WatchInv'
  BY <1>1 DEF WatchInv, ArmedInActiveState, Idle
<1>2. ASSUME ~Idle PROVE life # "none"
  BY <1>2 DEF WatchInv
<1>3. CASE deactivate_state
  <2>1. PICK s : s = Head(todo).state
    OBVIOUS
  <2>2. /\ armed_value' = [w \in DOMAIN Watchers |-> armed_value[w] /\ Watchers[w].state # s]
        /\ active' = active \/ active' = active \ {s}
        /\ life' = "aborted" \/ life' = life
        /\ life # "none"
    BY <1>2, <1>3, <2>1 DEF deactivate_state, Next_frame, abort
  <2>3. armed_value' \in [DOMAIN Watchers -> BOOLEAN]
    BY <2>2 DEF WatchInv
  <2>4. ArmedInActiveState'
    BY <2>2 DEF WatchInv, ArmedInActiveState
  <2>. QED BY <2>2, <2>3, <2>4 DEF WatchInv
<1>4. CASE evaluate_watcher
  <2>1. PICK w : w = Head(todo).watcher
    OBVIOUS
  <2>2. /\ \/ armed_value' = armed_value
           \/ Watchers[w].state \in active
              /\ \E value \in BOOLEAN : armed_value' = [armed_value EXCEPT ![w] = value]
        /\ active' = active /\ life' = life /\ life # "none"
    BY <1>2, <1>4, <2>1 DEF evaluate_watcher, Next_frame, configVars
  <2>3. armed_value' \in [DOMAIN Watchers -> BOOLEAN]
    BY <2>2 DEF WatchInv
  <2>4. ArmedInActiveState'
    BY <2>2 DEF WatchInv, ArmedInActiveState
  <2>. QED BY <2>2, <2>3, <2>4 DEF WatchInv
<1>5. CASE activate_state
  <2>1. /\ active \subseteq active' /\ UNCHANGED armed_value /\ ~Idle
        /\ life' = "aborted" \/ life' = life
    BY <1>5 DEF activate_state, Next_frame, abort, watcherVars
  <2>. QED BY <1>1, <1>2, <2>1
<1>6. CASE \E deferred \in BOOLEAN : instantiate(deferred)
  <2>1. life = "none" /\ UNCHANGED armed_value /\ life' # "none"
    BY <1>6 DEF instantiate, watcherVars
  <2>. QED BY <1>1, <2>1
<1>7. CASE \/ run_initial_entry \/ evaluate_region \/ void_marked_region \/ end_delivery
           \/ exit_active_child \/ unlink_state \/ enter_substate \/ exit_one_region \/ hook_return
  <2>1. ~Idle /\ UNCHANGED <<armed_value, active, life>>
    BY <1>7 DEF run_initial_entry, evaluate_region, void_marked_region, end_delivery, exit_active_child,
       unlink_state, enter_substate, exit_one_region, hook_return, NextRegion, Next_frame,
       configVars, watcherVars
  <2>. QED BY <1>1, <1>2, <2>1
<1>8. CASE start_initial_entry \/ run_watchers \/ exit_host_machines \/ flush_despawn
  <2>1. life' # "none" /\ UNCHANGED <<armed_value, active>>
    BY <1>8 DEF start_initial_entry, run_watchers, exit_host_machines, flush_despawn, configVars, watcherVars
  <2>. QED BY <1>1, <2>1
<1>9. CASE (\E e \in Event : trigger(e)) \/ next_tick \/ poison
  <2>1. life \in {"live", "dying"} /\ UNCHANGED <<armed_value, active, life>>
    BY <1>9 DEF trigger, next_tick, poison, configVars, watcherVars
  <2>. QED BY <1>1, <2>1
<1>10. CASE UNCHANGED chartVars
  BY <1>1, <1>10 DEF chartVars, configVars, watcherVars
<1>. QED BY <1>3, <1>4, <1>5, <1>6, <1>7, <1>8, <1>9, <1>10 DEF ChartNext, Running

\* "State exit also re-arms": a watcher that has seen its condition hold belongs
\* to an active state, whatever events its state is left by.
THEOREM WatchersArmedInActiveStates == ChartSpec => []ArmedInActiveState
<1>1. ChartInit => WatchInv
  BY DEF ChartInit, WatchInv, ArmedInActiveState, Idle
<1>2. WatchInv /\ [ChartNext]_chartVars => WatchInv'
  BY WatchStep
<1>3. WatchInv => ArmedInActiveState
  BY DEF WatchInv
<1>. QED BY <1>1, <1>2, <1>3, PTL DEF ChartSpec

-----------------------------------------------------------------------------
\* A region no chain works in: what is active is linked, and lacks nothing.
LEMMA WholeRegion ==
  ASSUME ChartInv, life \in {"deferred", "live"}, NEW r \in Region, r \notin InFlight
  PROVE  /\ Chain(r) = {s \in active : RegionOf[s] = r}
         /\ Deepest(Chain(r)) # NULL /\ InitialChild[Deepest(Chain(r))] = NULL
<1>1. TypesRight /\ LinksRight /\ Lacking /\ NULL \notin State /\ active \subseteq State
  BY ChartAssumption DEF ChartInv, TypesRight
<1>2. ASSUME NEW k \in DOMAIN todo, todo[k].op \in ChainOps
      PROVE  todo[k].state \in State /\ RegionOf[todo[k].state] # r
  <2>1. todo[k] \in Frame
    BY <1>1, SeqElement DEF TypesRight
  <2>. QED BY <1>2, <2>1, FrameFacts DEF InFlight
<1>3. ASSUME NEW s \in State, RegionOf[s] = r, NEW op \in ChainOps PROVE ~After(0, op, s)
  BY <1>2, <1>3 DEF After, Holds
<1> DEFINE S == {s \in active : RegionOf[s] = r}
<1>4. Chain(r) = S
  <2>1. ASSUME NEW s \in Chain(r) PROVE s \in S
    <3>1. s \in State /\ RegionOf[s] = r /\ s = Below(r, Parent[s])
      BY <2>1, UpClosed DEF Chain
    <3>2. Link(s) = s /\ ~After(0, "detach", s)
      BY <1>3, <3>1 DEF Link, ChainOps
    <3>. QED BY <3>1, <3>2, Linked
  <2>2. ASSUME NEW s \in S PROVE s \in Chain(r)
    <3> DEFINE T == {u \in State : u \in active => Up[u] \subseteq active}
    <3>1. ASSUME NEW u \in State, Parent[u] = NULL \/ Parent[u] \in T PROVE u \in T
      BY <1>1, <3>1, UpDef DEF LinksRight
    <3>2. T = State
      <4>. HIDE DEF T
      <4>1. T \in SUBSET State
        BY DEF T
      <4>. QED BY <3>1, <4>1, TreeInduction
    <3>3. s \in State /\ RegionOf[s] = r /\ Up[s] \subseteq active
      BY <1>1, <3>2
    <3>4. ASSUME NEW u \in Up[s] PROVE u = Below(r, Parent[u])
      <4>1. u \in active /\ RegionOf[u] = r
        BY <3>3, UpClosed
      <4>. QED BY <1>1, <4>1 DEF LinksRight, Link
    <3>. QED BY <3>3, <3>4 DEF Chain
  <2>. QED BY <2>1, <2>2
<1>5. S # {}
  <2>1. \A k \in DOMAIN todo : todo[k].op = "wake" => RegionOf[todo[k].state] # r
    BY <1>2 DEF ChainOps
  <2>. QED BY <1>1, <2>1 DEF Lacking
<1>6. ASSUME NEW s \in S PROVE Parent[s] = NULL \/ Parent[s] \in S
  BY <1>1, ParentType DEF LinksRight
<1>7. ASSUME NEW s \in S, NEW u \in S PROVE RegionOf[s] = RegionOf[u] /\ (Beside(s, u) => s = u)
  BY <1>1 DEF LinksRight, Link, Beside
<1>8. S \in SUBSET State
  BY <1>1
<1>. HIDE DEF S
<1>9. PICK m : m = Deepest(S)
  OBVIOUS
<1>10. m \in S /\ \A c \in S : Parent[c] # m
  BY <1>5, <1>6, <1>7, <1>8, <1>9, DeepestRight
<1>11. m \in State /\ m \in active /\ RegionOf[m] = r /\ m # NULL
  BY <1>1, <1>10 DEF S
<1>12. InitialChild[m] = NULL
  <2>1. ~After(0, "sleep", m) /\ ~After(0, "enter_child", m)
    BY <1>3, <1>11 DEF ChainOps
  <2>2. ASSUME NEW c \in active, Parent[c] = m PROVE FALSE
    <3>1. c \in State /\ RegionOf[c] = r
      BY <1>1, <1>11, <2>2, ParentType
    <3>. QED BY <1>10, <2>2, <3>1 DEF S
  <2>3. ASSUME NEW k \in DOMAIN todo, todo[k].op = "wake", Parent[todo[k].state] = m PROVE FALSE
    <3>1. todo[k].state \in State /\ RegionOf[todo[k].state] # r
      BY <1>2, <2>3 DEF ChainOps
    <3>. QED BY <1>11, <2>3, <3>1, ParentType
  <2>. QED BY <1>1, <1>11, <2>1, <2>2, <2>3 DEF Lacking
<1>. QED BY <1>4, <1>9, <1>11, <1>12 DEF S

LEMMA NothingLeft ==
  ASSUME ChartInv, life = "dead"
  PROVE  active = {} /\ region_active = [r \in Region |-> NULL]
<1>1. active = {} /\ \A s \in State : Link(s) # s
  BY DEF ChartInv, LifeRight
<1>2. region_active \in [Region -> State \cup {NULL}]
  BY DEF ChartInv, TypesRight
<1>3. ASSUME NEW r \in Region, region_active[r] # NULL PROVE FALSE
  <2>1. PICK x : x = region_active[r] /\ x \in State
    BY <1>2, <1>3
  <2>2. RegionOf[x] = r /\ Parent[x] = NULL
    BY <1>3, <2>1 DEF ChartInv, LinksRight
  <2>. QED BY <1>1, <2>1, <2>2 DEF Link, Below
<1>. QED BY <1>1, <1>2, <1>3

\* A region no chain works in is in one whole configuration, however its chains
\* were nested in others; the cascades never go deeper than the cap; a despawned
\* host has left every state.
THEOREM Whole ==
  ASSUME ~ReentrantEntry
  PROVE  ChartSpec => []ConfigurationWhole
<1>1. ChartInv /\ Depth <= kMaxCascadeDepth => ConfigurationWhole
  <2>1. SUFFICES ASSUME ChartInv, Depth <= kMaxCascadeDepth PROVE ConfigurationWhole
    OBVIOUS
  <2>2. ChartTypeOK
    BY <2>1 DEF ChartInv, TypesRight, ChartTypeOK
  <2>. QED BY <2>1, <2>2, WholeRegion, NothingLeft DEF ConfigurationWhole
<1>. QED BY <1>1, StackRight, PTL

-----------------------------------------------------------------------------
(***************************************************************************)
(* The order of the hooks.  The entry of a script is the last hook of its  *)
(* state: whatever stands in front of it in the region's chain enters      *)
(* below that state, and nothing that leaves is in front of it.  A state   *)
(* of the initial configuration is seated until its own entry begins, and  *)
(* that entry is still on its way.                                         *)
(***************************************************************************)
IsHook(f) == f.op = "slot" /\ f.name = "script_enter"

HookOrder(f, g) ==
  f.op \in ChainOps /\ g.op \in ChainOps /\ RegionOf[f.state] = RegionOf[g.state] =>
    /\ f.op \in EnterOps \/ IsHook(f) => IsHook(g)
    /\ IsHook(g) =>
         /\ f.op \notin ExitOps
         /\ f.op = "wake" => Parent[f.state] # NULL /\ g.state \in Up[Parent[f.state]]
         /\ f.op = "enter_child" => g.state \in Up[f.state]
         /\ IsHook(f) => g.state \in Up[f.state] /\ g.state # f.state

HooksInRow == \A i, j \in DOMAIN todo : i < j => HookOrder(todo[i], todo[j])

\* A state whose script is about to enter is up and no longer seated; the first
\* entry of a state finds it seated under one that is not.
SeatRight(f) ==
  /\ IsHook(f) => f.state \in active /\ f.state \notin seated
  /\ f.op = "wake" /\ f.first =>
       f.state \in seated /\ (Parent[f.state] = NULL \/ Parent[f.state] \notin seated)
  /\ f.op = "enter_child" /\ f.first =>
       f.state \notin seated /\ (InitialChild[f.state] # NULL => InitialChild[f.state] \in seated)

SeatsRight == \A i \in DOMAIN todo : SeatRight(todo[i])

\* The entry of a seated state comes with that of its parent.
SeatsEnter ==
  \A c \in seated :
    \/ Parent[c] = NULL \/ Parent[c] \in seated
    \/ After(0, "enter_child", Parent[c]) \/ After(0, "wake", c)

\* A region whose initial entry has not begun is seated as a whole.
EntryAhead ==
  /\ life = "deferred" => active \subseteq seated
  /\ \A i \in DOMAIN todo : todo[i].op = "initial_entry" =>
       \A n \in DOMAIN Regions : todo[i].at <= n /\ stamp[Regions[n]] = kNeverTicked =>
         Regions[n] \notin InFlight /\ \A s \in active : RegionOf[s] = Regions[n] => s \in seated

\* In a region that was never marked, what is below a seated state is seated.
SeatsWhole ==
  \A c \in active : stamp[RegionOf[c]] = kNeverTicked /\ Parent[c] # NULL /\ Parent[c] \in seated => c \in seated

HookInv == HooksInRow /\ SeatsRight /\ SeatsEnter /\ EntryAhead /\ SeatsWhole

LEMMA HookOrderKept ==
  ASSUME HooksInRow, NEW new, NEW d, Moves(new, d),
         \A i, j \in DOMAIN new : i < j => HookOrder(new[i], new[j]),
         \A i \in DOMAIN new, j \in DOMAIN todo : j > d => HookOrder(new[i], todo[j])
  PROVE  HooksInRow'
<1>1. SUFFICES ASSUME NEW i \in DOMAIN todo', NEW j \in DOMAIN todo', i < j
               PROVE  HookOrder(todo'[i], todo'[j])
  BY DEF HooksInRow, HookOrder, IsHook
<1> HIDE DEF HookOrder
<1>2. /\ d \in {0, 1} /\ Len(new) \in Nat /\ DOMAIN new = 1 .. Len(new)
      /\ Len(todo) \in Nat /\ DOMAIN todo = 1 .. Len(todo)
      /\ DOMAIN todo' = 1 .. Len(new) + Len(todo) - d
      /\ \A k \in DOMAIN new : todo'[k] = new[k]
      /\ \A k \in DOMAIN todo : k > d => todo'[k + Len(new) - d] = todo[k]
  BY DEF Moves
<1>3. CASE j \in DOMAIN new
  <2>1. i \in DOMAIN new
    BY <1>1, <1>2, <1>3
  <2>. QED BY <1>1, <1>2, <1>3, <2>1
<1>4. CASE j \notin DOMAIN new
  <2>1. PICK q \in DOMAIN todo : q > d /\ j = q + Len(new) - d
    BY <1>4, Origin
  <2>2. CASE i \in DOMAIN new
    BY <1>2, <2>1, <2>2
  <2>3. CASE i \notin DOMAIN new
    <3>1. PICK p \in DOMAIN todo : p > d /\ i = p + Len(new) - d
      BY <2>3, Origin
    <3>2. p < q
      BY <1>1, <1>2, <2>1, <3>1
    <3>. QED BY <1>2, <2>1, <3>1, <3>2 DEF HooksInRow
  <2>. QED BY <2>2, <2>3
<1>. QED BY <1>3, <1>4

\* What holds of the frames that stay and of the new ones holds of the stack.
LEMMA SeatsRightKept ==
  ASSUME NEW new, NEW d, Moves(new, d),
         \A f : (\E j \in DOMAIN todo : j > d /\ todo[j] = f) => SeatRight(f)',
         \A f : (\E k \in DOMAIN new : new[k] = f) => SeatRight(f)'
  PROVE  SeatsRight'
<1>1. SUFFICES ASSUME NEW i \in DOMAIN todo', NEW f, f = todo'[i] PROVE SeatRight(f)'
  BY DEF SeatsRight, SeatRight, IsHook
<1>2. CASE i \in DOMAIN new
  BY <1>1, <1>2 DEF Moves
<1>3. CASE i \notin DOMAIN new
  <2>1. PICK j \in DOMAIN todo : j > d /\ i = j + Len(new) - d
    BY <1>3, Origin
  <2>2. f = todo[j]
    BY <1>1, <2>1 DEF Moves
  <2>. QED BY <2>1, <2>2
<1>. QED BY <1>2, <1>3

\* The seat of a state stays announced unless its announcement is taken off.
LEMMA SeatsEnterKept ==
  ASSUME SeatsEnter, NEW new, NEW d, Moves(new, d),
         seated' \subseteq seated,
         \A c \in seated' : Parent[c] # NULL /\ Parent[c] \in seated /\ Parent[c] \notin seated' =>
           \E k \in DOMAIN new : Holds(new[k], "enter_child", Parent[c]),
         d = 1 => /\ todo[1].op = "wake" => todo[1].state \notin seated'
                  /\ todo[1].op = "enter_child" =>
                       \A c \in seated' : Parent[c] = todo[1].state =>
                         \E k \in DOMAIN new : Holds(new[k], "wake", c)
  PROVE  SeatsEnter'
<1>1. SUFFICES ASSUME NEW c \in seated', Parent[c] # NULL, Parent[c] \notin seated'
               PROVE  After(0, "enter_child", Parent[c])' \/ After(0, "wake", c)'
  BY DEF SeatsEnter
<1>2. CASE Parent[c] \in seated
  <2>1. PICK k \in DOMAIN new : Holds(new[k], "enter_child", Parent[c])
    BY <1>1, <1>2
  <2>. QED BY <2>1, Shifted
<1>3. CASE After(0, "enter_child", Parent[c])
  <2>1. After(0, "enter_child", Parent[c])' \/ (d = 1 /\ Holds(todo[1], "enter_child", Parent[c]))
    BY <1>3, Shifted
  <2>2. ASSUME d = 1, Holds(todo[1], "enter_child", Parent[c]) PROVE After(0, "wake", c)'
    <3>1. PICK k \in DOMAIN new : Holds(new[k], "wake", c)
      BY <1>1, <2>2 DEF Holds
    <3>. QED BY <3>1, Shifted
  <2>. QED BY <2>1, <2>2
<1>4. CASE After(0, "wake", c)
  <2>1. After(0, "wake", c)' \/ (d = 1 /\ Holds(todo[1], "wake", c))
    BY <1>4, Shifted
  <2>. QED BY <1>1, <2>1 DEF Holds
<1>. QED BY <1>1, <1>2, <1>3, <1>4 DEF SeatsEnter

\* A region whose entry is ahead stays as it is.
LEMMA EntryAheadKept ==
  ASSUME ChartInv, EntryAhead, NEW new, NEW d, Moves(new, d), NEW Q,
         life' \in {"live", "dying"},
         InFlight' \subseteq InFlight \cup Q, \A q \in Q : stamp'[q] # kNeverTicked,
         \A r \in Region : stamp'[r] = kNeverTicked => stamp[r] = kNeverTicked,
         \A k \in DOMAIN new : new[k].op # "initial_entry",
         \A s \in active' : stamp[RegionOf[s]] = kNeverTicked /\ RegionOf[s] \notin InFlight =>
           s \in active /\ (s \in seated => s \in seated')
  PROVE  EntryAhead'
<1>1. SUFFICES ASSUME NEW i \in DOMAIN todo', todo'[i].op = "initial_entry", NEW n \in DOMAIN Regions,
                      todo'[i].at <= n, stamp'[Regions[n]] = kNeverTicked
               PROVE  /\ Regions[n] \notin InFlight'
                      /\ \A s \in active' : RegionOf[s] = Regions[n] => s \in seated'
  BY DEF EntryAhead
<1>2. PICK j \in DOMAIN todo : j > d /\ todo'[i] = todo[j]
  <2>1. i \notin DOMAIN new
    BY <1>1 DEF Moves
  <2>2. PICK j \in DOMAIN todo : j > d /\ i = j + Len(new) - d
    BY <2>1, Origin
  <2>. QED BY <2>2 DEF Moves
<1>3. Regions[n] \in Region /\ stamp[Regions[n]] = kNeverTicked
  <2>1. Regions[n] \in Region
    BY ChartAssumption, SeqElement
  <2>. QED BY <1>1, <2>1
<1>4. Regions[n] \notin InFlight /\ \A s \in active : RegionOf[s] = Regions[n] => s \in seated
  BY <1>1, <1>2, <1>3 DEF EntryAhead
<1>. QED BY <1>1, <1>3, <1>4

\* A step that leaves the configuration alone.
LEMMA HookPush ==
  ASSUME ChartInv, HookInv, NEW new, NEW d, Moves(new, d), UNCHANGED <<life, active, seated>>,
         \A i, j \in DOMAIN new : i < j => HookOrder(new[i], new[j]),
         \A i \in DOMAIN new, j \in DOMAIN todo : j > d => HookOrder(new[i], todo[j]),
         \A k \in DOMAIN new : SeatRight(new[k]),
         d = 1 => /\ todo[1].op # "wake"
                  /\ todo[1].op = "enter_child" =>
                       \A c \in seated : Parent[c] = todo[1].state =>
                         \E k \in DOMAIN new : Holds(new[k], "wake", c),
         \A r \in Region : stamp'[r] = kNeverTicked => stamp[r] = kNeverTicked,
         EntryAhead'
  PROVE  HookInv'
<1>1. HooksInRow'
  BY HookOrderKept DEF HookInv
<1>2. \A f : SeatRight(f)' <=> SeatRight(f)
  BY DEF SeatRight
<1>3. SeatsRight'
  <2>1. \A f : (\E j \in DOMAIN todo : j > d /\ todo[j] = f) => SeatRight(f)'
    BY <1>2 DEF HookInv, SeatsRight
  <2>2. \A f : (\E k \in DOMAIN new : new[k] = f) => SeatRight(f)'
    BY <1>2
  <2>. QED BY <2>1, <2>2, SeatsRightKept
<1>4. SeatsEnter'
  BY SeatsEnterKept DEF HookInv
<1>5. SeatsWhole'
  <2>1. \A c \in active : RegionOf[c] \in Region
    BY ParentType DEF ChartInv, TypesRight
  <2>. QED BY <2>1 DEF HookInv, SeatsWhole
<1>. QED BY <1>1, <1>3, <1>4, <1>5 DEF HookInv

\* A step that puts only deliveries on the stack.
LEMMA HookQuiet ==
  ASSUME ChartInv, HookInv, NEW new, NEW d, Moves(new, d), life \in {"live", "dying"},
         UNCHANGED <<life, active, seated, stamp>>, InFlight' \subseteq InFlight,
         d = 1 => todo[1].op \notin EnterOps,
         \A k \in DOMAIN new : new[k].op = "deliver"
  PROVE  HookInv'
<1>1. \A k \in DOMAIN new : new[k].op \notin ChainOps /\ new[k].op # "initial_entry" /\ SeatRight(new[k])
  BY DEF ChainOps, SeatRight, IsHook
<1>2. EntryAhead'
  <2>1. PICK Q : Q = {}
    OBVIOUS
  <2>2. InFlight' \subseteq InFlight \cup Q /\ \A q \in Q : stamp'[q] # kNeverTicked
    BY <2>1
  <2>3. life' \in {"live", "dying"} /\ EntryAhead
    BY DEF HookInv
  <2>4. \A s \in active' : s \in active /\ (s \in seated => s \in seated')
    OBVIOUS
  <2>. QED BY <1>1, <2>2, <2>3, <2>4, EntryAheadKept
<1>3. /\ \A i, j \in DOMAIN new : i < j => HookOrder(new[i], new[j])
      /\ \A i \in DOMAIN new, j \in DOMAIN todo : j > d => HookOrder(new[i], todo[j])
  BY <1>1 DEF HookOrder
<1>4. d = 1 => todo[1].op # "wake" /\ todo[1].op # "enter_child"
  BY DEF EnterOps
<1>. QED BY <1>1, <1>2, <1>3, <1>4, HookPush

\* A step taken while nothing is on the stack.
LEMMA HookIdle ==
  ASSUME ChartInv, HookInv, Idle, UNCHANGED <<active, seated>>,
         \A i \in DOMAIN todo' : todo'[i].op \in EmptyOps,
         \A r \in Region : stamp'[r] = kNeverTicked => stamp[r] = kNeverTicked,
         EntryAhead'
  PROVE  HookInv'
<1>1. \A i \in DOMAIN todo' : todo'[i].op \notin ChainOps
  BY DEF EmptyOps, ChainOps
<1>2. HooksInRow'
  BY <1>1 DEF HooksInRow, HookOrder
<1>3. SeatsRight'
  BY <1>1 DEF SeatsRight, SeatRight, IsHook, ChainOps
<1>4. \A op, c : ~After(0, op, c)
  BY DEF After, Idle
<1>5. SeatsEnter'
  BY <1>4 DEF HookInv, SeatsEnter
<1>6. SeatsWhole'
  <2>1. \A c \in active : RegionOf[c] \in Region
    BY ParentType DEF ChartInv, TypesRight
  <2>. QED BY <2>1 DEF HookInv, SeatsWhole
<1>. QED BY <1>2, <1>3, <1>5, <1>6 DEF HookInv

LEMMA HookIdleQuiet ==
  ASSUME ChartInv, HookInv, Idle, UNCHANGED <<active, seated>>,
         \A i \in DOMAIN todo' : todo'[i].op \in EmptyOps /\ todo'[i].op # "initial_entry",
         \A r \in Region : stamp'[r] = kNeverTicked => stamp[r] = kNeverTicked,
         life' = "deferred" => life = "deferred"
  PROVE  HookInv'
<1>1. EntryAhead'
  BY DEF HookInv, EntryAhead
<1>. QED BY <1>1, HookIdle

\* The frames of the chain behind the head of its region.
LEMMA BehindHead ==
  ASSUME ChartInv, HookInv, ~Idle
  PROVE  /\ 1 \in DOMAIN todo /\ DOMAIN todo = 1 .. Len(todo) /\ Len(todo) \in Nat
         /\ \A j \in DOMAIN todo : j = 1 \/ j > 1
         /\ \A j \in DOMAIN todo : j > 1 => HookOrder(todo[1], todo[j]) /\ InOrder(todo[1], todo[j])
         /\ \A j \in DOMAIN todo : SeatRight(todo[j]) /\ todo[j] \in Frame
<1>1. TypesRight
  BY DEF ChartInv
<1>2. 1 \in DOMAIN todo /\ DOMAIN todo = 1 .. Len(todo) /\ Len(todo) \in Nat
  BY <1>1, Popped
<1>3. \A j \in DOMAIN todo : j > 1 => HookOrder(todo[1], todo[j]) /\ InOrder(todo[1], todo[j])
  BY <1>2 DEF HookInv, HooksInRow, ChartInv, StackInOrder
<1>4. \A j \in DOMAIN todo : SeatRight(todo[j]) /\ todo[j] \in Frame
  BY <1>1, SeqElement DEF HookInv, SeatsRight, TypesRight
<1>5. \A j \in DOMAIN todo : j = 1 \/ j > 1
  BY <1>2
<1>. QED BY <1>2, <1>3, <1>4, <1>5

\* The frames with which a state leaves are no entries and no hooks.
LEMMA ExitNoHook ==
  ASSUME NEW c \in State, NEW new, ExitFrames(new, c),
         \E x : x = Append(exit_state(c), detach(c)) /\ \A k \in 1 .. 5 : new[k] = x[k],
         NEW k \in 1 .. 5
  PROVE  ~IsHook(new[k]) /\ new[k].op \notin EnterOps /\ SeatRight(new[k])
<1>1. new[k].op \notin EnterOps
  BY ExitFrameOps
<1>2. PICK x : x = Append(exit_state(c), detach(c)) /\ \A q \in 1 .. 5 : new[q] = x[q]
  OBVIOUS
<1>3. x[1] = slot("script_exit", c) /\ x[3] = slot("component_exit", c)
  <2>1. /\ slot("script_exit", c) \in Frame /\ exit_child(c) \in Frame /\ slot("component_exit", c) \in Frame
        /\ sleep(c) \in Frame /\ detach(c) \in Frame
    BY FrameTypes DEF Slots
  <2> DEFINE f1 == slot("script_exit", c)
             f2 == exit_child(c)
             f3 == slot("component_exit", c)
             f4 == sleep(c)
             f5 == detach(c)
  <2>2. x = Append(<<f1, f2, f3, f4>>, f5)
    BY <1>2 DEF exit_state
  <2>3. f1 \in Frame /\ f2 \in Frame /\ f3 \in Frame /\ f4 \in Frame /\ f5 \in Frame
    BY <2>1
  <2>. HIDE DEF f1, f2, f3, f4, f5
  <2>4. x[1] = f1 /\ x[3] = f3
    BY <2>2, <2>3
  <2>. QED BY <2>4 DEF f1, f3
<1>4. ~IsHook(x[1]) /\ ~IsHook(x[3])
  BY <1>3 DEF IsHook, slot
<1>5. k \in {1, 3} \/ new[k].op # "slot"
  <2>1. k = 1 \/ k = 2 \/ k = 3 \/ k = 4 \/ k = 5
    OBVIOUS
  <2>. QED BY <2>1 DEF ExitFrames
<1>6. ~IsHook(new[k])
  BY <1>2, <1>4, <1>5 DEF IsHook
<1>. QED BY <1>1, <1>6 DEF SeatRight, EnterOps

LEMMA HookReturn ==
  ASSUME ChartInv, HookInv, hook_return
  PROVE  HookInv'
<1>1. /\ ~Idle /\ todo[1].op = "slot" /\ todo' = Tail(todo) /\ life \in {"live", "dying"} /\ TypesRight
      /\ UNCHANGED <<life, active, seated, stamp>>
  BY HeadOf DEF hook_return, configVars
<1>2. PICK new \in Seq(Frame) : DOMAIN new = {} /\ Moves(new, 1)
  BY <1>1, PopMoves
<1>. QED BY <1>1, <1>2, ReturnKeeps, HookQuiet DEF EnterOps

LEMMA HookEndDelivery ==
  ASSUME ChartInv, HookInv, end_delivery
  PROVE  HookInv'
<1>1. /\ ~Idle /\ todo[1].op = "deliver" /\ todo' = Tail(todo) /\ life \in {"live", "dying"} /\ TypesRight
      /\ UNCHANGED <<life, active, seated, stamp>>
  BY HeadOf DEF end_delivery, configVars
<1>2. PICK new \in Seq(Frame) : DOMAIN new = {} /\ Moves(new, 1)
  BY <1>1, PopMoves
<1>. QED BY <1>1, <1>2, EndDeliveryKeeps, HookQuiet DEF EnterOps

LEMMA HookUnlink ==
  ASSUME ChartInv, HookInv, unlink_state
  PROVE  HookInv'
<1>1. /\ ~Idle /\ todo[1].op = "detach" /\ todo' = Tail(todo) /\ life \in {"live", "dying"} /\ TypesRight
      /\ UNCHANGED <<life, active, seated, stamp>>
  BY HeadOf DEF unlink_state
<1>2. PICK new \in Seq(Frame) : DOMAIN new = {} /\ Moves(new, 1)
  BY <1>1, PopMoves
<1>. QED BY <1>1, <1>2, DetachKeeps, HookQuiet DEF EnterOps

LEMMA HookNextRegion ==
  ASSUME ChartInv, HookInv, NextRegion, todo' = rest_of_delivery,
         UNCHANGED <<life, tick, poisoned, configVars, stamp, watcherVars>>
  PROVE  HookInv'
<1>1. /\ ~Idle /\ todo[1].op = "deliver" /\ TypesRight
      /\ deliver(todo[1].event, todo[1].at + 1) \in Frame
      /\ todo' = <<deliver(todo[1].event, todo[1].at + 1)>> \o Tail(todo)
      /\ UNCHANGED <<life, active, seated, stamp>>
  BY RestOfDelivery DEF ChartInv, configVars
<1>2. PICK new \in Seq(Frame) : /\ todo' = new \o Tail(todo) /\ DOMAIN new = {1}
                                /\ new[1] = deliver(todo[1].event, todo[1].at + 1)
  BY <1>1, One
<1>3. Moves(new, 1)
  BY <1>1, <1>2, MovesHead
<1>4. \A k \in DOMAIN new : new[k].op = "deliver"
  BY <1>2 DEF deliver
<1>5. InFlight' \subseteq InFlight /\ life \in {"live", "dying"}
  BY <1>1, NextRegionKeeps, Alive
<1>. QED BY <1>1, <1>3, <1>4, <1>5, HookQuiet DEF EnterOps

LEMMA HookTrigger ==
  ASSUME ChartInv, HookInv, NEW e \in Event, trigger(e)
  PROVE  HookInv'
<1>1. /\ TypesRight /\ life \in {"live", "dying"} /\ todo' = <<deliver(e, 1)>> \o todo
      /\ UNCHANGED <<life, active, seated, stamp>>
  BY DEF ChartInv, trigger, configVars
<1>2. deliver(e, 1) \in Frame
  BY DEF deliver, Frame
<1>3. PICK new \in Seq(Frame) : todo' = new \o todo /\ DOMAIN new = {1} /\ new[1] = deliver(e, 1)
  BY <1>1, <1>2, One
<1>4. Moves(new, 0)
  BY <1>1, <1>3, MovesFront
<1>5. \A k \in DOMAIN new : new[k].op = "deliver"
  BY <1>3 DEF deliver
<1>. QED BY <1>1, <1>4, <1>5, TriggerKeeps, HookQuiet

\* A watcher puts at most the delivery of its event on the stack.
LEMMA WatcherShape ==
  ASSUME ChartInv, evaluate_watcher
  PROVE  /\ ~Idle /\ todo[1].op = "watch" /\ life \in {"live", "dying"}
         /\ UNCHANGED <<life, active, seated, stamp>>
         /\ \E new \in Seq(Frame) : Moves(new, 1) /\ \A k \in DOMAIN new : new[k].op = "deliver"
<1>. PICK w : w = todo[1].watcher
  OBVIOUS
<1>1. /\ ~Idle /\ Head(todo) = todo[1] /\ todo[1].op = "watch" /\ todo[1] \in Frame /\ TypesRight
      /\ UNCHANGED <<life, active, seated, stamp>> /\ life \in {"live", "dying"}
  BY HeadOf DEF evaluate_watcher, configVars
<1>2. deliver(Watchers[w].event, 1) \in Frame
  <2>1. w \in DOMAIN Watchers
    BY <1>1, FrameFacts
  <2>2. Watchers \in Seq([state : State, event : Event])
    BY TableAssumption
  <2>3. Watchers[w] \in [state : State, event : Event]
    BY <2>1, <2>2, SeqElement
  <2>4. Watchers[w].event \in Event
    BY <2>3
  <2>. QED BY <2>4 DEF deliver, Frame
<1>3. PICK new \in Seq(Frame) : todo' = new \o Tail(todo) /\ \A k \in DOMAIN new : new[k].op = "deliver"
  <2>1. \/ todo' = Tail(todo)
        \/ \E b \in BOOLEAN : todo' = (IF b THEN <<deliver(Watchers[w].event, 1)>> ELSE <<>>) \o Tail(todo)
    <3>1. CASE todo' = Tail(todo)
      BY <3>1
    <3>2. CASE todo' # Tail(todo)
      <4>1. PICK value \in BOOLEAN :
              todo' = (IF value /\ ~armed_value[w] /\ ~poisoned
                       THEN <<deliver(Watchers[w].event, 1)>> ELSE <<>>) \o Tail(todo)
        BY <1>1, <3>2 DEF evaluate_watcher
      <4>. QED BY <4>1
    <3>. QED BY <3>1, <3>2
  <2>2. \A k \in DOMAIN <<deliver(Watchers[w].event, 1)>> : <<deliver(Watchers[w].event, 1)>>[k].op = "deliver"
    BY DEF deliver
  <2>3. CASE todo' = Tail(todo)
    <3>1. todo' = <<>> \o Tail(todo)
      BY <1>1, <2>3, Popped
    <3>. QED BY <3>1, None0
  <2>4. CASE todo' # Tail(todo)
    <3>1. PICK b \in BOOLEAN : todo' = (IF b THEN <<deliver(Watchers[w].event, 1)>> ELSE <<>>) \o Tail(todo)
      BY <2>1, <2>4
    <3>. QED BY <1>2, <2>2, <3>1, None0, One
  <2>. QED BY <2>3, <2>4
<1>4. Moves(new, 1)
  BY <1>1, <1>3, MovesHead
<1>. QED BY <1>1, <1>3, <1>4

LEMMA HookWatcher ==
  ASSUME ChartInv, HookInv, evaluate_watcher
  PROVE  HookInv'
<1>1. /\ ~Idle /\ todo[1].op = "watch" /\ life \in {"live", "dying"}
      /\ UNCHANGED <<life, active, seated, stamp>>
  BY WatcherShape
<1>2. PICK new \in Seq(Frame) : Moves(new, 1) /\ \A k \in DOMAIN new : new[k].op = "deliver"
  BY WatcherShape
<1>. QED BY <1>1, <1>2, WatcherKeeps, HookQuiet DEF EnterOps

\* A step that puts on the stack nothing that enters: no hook of a region is
\* behind the frames of that region.
LEMMA HookPlain ==
  ASSUME ChartInv, HookInv, NEW new, Moves(new, 1), life \in {"live", "dying"},
         UNCHANGED <<life, active, seated, stamp>>, InFlight' \subseteq InFlight \cup {r \in Region : stamp[r] # kNeverTicked},
         todo[1].op \notin EnterOps, NEW r,
         \A k \in DOMAIN new : /\ ~IsHook(new[k]) /\ new[k].op \notin EnterOps /\ SeatRight(new[k])
                               /\ RegionOf[new[k].state] = r /\ new[k].op # "initial_entry",
         \A j \in DOMAIN todo : j > 1 /\ todo[j].op \in ChainOps /\ RegionOf[todo[j].state] = r => ~IsHook(todo[j])
  PROVE  HookInv'
<1>1. EntryAhead'
  <2>1. PICK Q : Q = {q \in Region : stamp[q] # kNeverTicked}
    OBVIOUS
  <2>2. InFlight' \subseteq InFlight \cup Q /\ \A q \in Q : stamp'[q] # kNeverTicked
    BY <2>1
  <2>3. life' \in {"live", "dying"} /\ EntryAhead
    BY DEF HookInv
  <2>4. \A s \in active' : s \in active /\ (s \in seated => s \in seated')
    OBVIOUS
  <2>. QED BY <2>2, <2>3, <2>4, EntryAheadKept
<1>2. \A i, j \in DOMAIN new : i < j => HookOrder(new[i], new[j])
  BY DEF HookOrder
<1>3. \A i \in DOMAIN new, j \in DOMAIN todo : j > 1 => HookOrder(new[i], todo[j])
  BY DEF HookOrder
<1>4. todo[1].op # "wake" /\ todo[1].op # "enter_child"
  BY DEF EnterOps
<1>. QED BY <1>1, <1>2, <1>3, <1>4, HookPush

Leaves(new, c) ==
  /\ ExitFrames(new, c)
  /\ \A k \in 1 .. 5 : ~IsHook(new[k]) /\ new[k].op \notin EnterOps /\ SeatRight(new[k])

LEMMA LeavesFrames ==
  ASSUME NEW c \in State \cup {NULL}
  PROVE  \E x \in Seq(Frame) :
           /\ x = IF c = NULL THEN <<>> ELSE Append(exit_state(c), detach(c))
           /\ c = NULL => Len(x) = 0 /\ DOMAIN x = {}
           /\ c # NULL => Len(x) = 5 /\ DOMAIN x = 1 .. 5 /\ Leaves(x, c)
<1>1. CASE c = NULL
  BY <1>1, None0
<1>2. CASE c # NULL
  <2>1. PICK x : x = Append(exit_state(c), detach(c))
    OBVIOUS
  <2>2. x \in Seq(Frame) /\ Len(x) = 5 /\ DOMAIN x = 1 .. 5 /\ ExitFrames(x, c)
    BY <1>2, <2>1, ExitChain
  <2>3. ASSUME NEW k \in 1 .. 5 PROVE ~IsHook(x[k]) /\ x[k].op \notin EnterOps /\ SeatRight(x[k])
    BY <1>2, <2>1, <2>2, ExitNoHook
  <2>4. Leaves(x, c)
    BY <2>2, <2>3 DEF Leaves
  <2>. QED BY <1>2, <2>1, <2>2, <2>4
<1>. QED BY <1>1, <1>2

\* A state that begins to leave is up, and nothing of it is on the stack.
Leaving(c) ==
  /\ c \in active /\ c \in State /\ Link(c) = c
  /\ \A j \in DOMAIN todo : ~Holds(todo[j], "sleep", c) /\ ~(IsHook(todo[j]) /\ todo[j].state = c)

\* exit_state goes on with the active substate, if there is one.
LEMMA ExitChildShape ==
  ASSUME ChartInv, HookInv, exit_active_child, NEW s, s = todo[1].state
  PROVE  /\ ~Idle /\ todo[1].op = "exit_child" /\ life \in {"live", "dying"} /\ s \in State
         /\ UNCHANGED <<life, active, seated, stamp>>
         /\ \A j \in DOMAIN todo : j > 1 /\ todo[j].op \in ChainOps /\ RegionOf[todo[j].state] = RegionOf[s] =>
              ~IsHook(todo[j])
         /\ s \in active /\ After(1, "sleep", s)
         /\ \E c \in State \cup {NULL}, new \in Seq(Frame) :
              /\ Moves(new, 1)
              /\ c = NULL => DOMAIN new = {}
              /\ c # NULL => /\ DOMAIN new = 1 .. 5 /\ Leaves(new, c) /\ Leaving(c)
                             /\ Parent[c] = s /\ RegionOf[c] = RegionOf[s]
<1>1. /\ ~Idle /\ Head(todo) = todo[1] /\ todo[1].op = "exit_child" /\ todo[1] \in Frame
      /\ 1 \in DOMAIN todo /\ Right(1) /\ StampRight(1) /\ life \in {"live", "dying"} /\ TypesRight
  BY HeadOf DEF exit_active_child
<1>2. PICK c : c = active_child[s]
  OBVIOUS
<1>3. /\ todo' = (IF c = NULL THEN <<>> ELSE Append(exit_state(c), detach(c))) \o Tail(todo)
      /\ UNCHANGED <<life, active, seated, stamp>>
  BY <1>1, <1>2 DEF exit_active_child
<1>4. s \in State /\ c \in State \cup {NULL} /\ NULL \notin State
  <2>1. s \in State
    BY <1>1, FrameFacts DEF ChainOps
  <2>. QED BY <1>1, <1>2, <2>1, ParentType DEF TypesRight
<1>5. c # NULL => Parent[c] = s /\ Link(c) = c /\ RegionOf[c] = RegionOf[s]
  <2>1. c # NULL => Parent[c] = s
    BY <1>2, <1>4 DEF ChartInv, LinksRight
  <2>. QED BY <1>2, <1>4, <2>1, ParentType DEF Link, Below
<1>6. \A j \in DOMAIN todo : j = 1 \/ (HookOrder(todo[1], todo[j]) /\ InOrder(todo[1], todo[j]) /\ j > 1)
  BY <1>1, BehindHead
<1>7. \A j \in DOMAIN todo : j > 1 /\ todo[j].op \in ChainOps /\ RegionOf[todo[j].state] = RegionOf[s] =>
        ~IsHook(todo[j])
  <2>1. \A j \in DOMAIN todo : j > 1 => HookOrder(todo[1], todo[j])
    BY <1>1, BehindHead
  <2>. QED BY <1>1, <2>1 DEF HookOrder, ChainOps, ExitOps
<1>8. ASSUME c # NULL PROVE Leaving(c)
  <2>1. c \in State /\ c \notin Up[s] /\ Parent[c] = s /\ RegionOf[c] = RegionOf[s]
    BY <1>4, <1>5, <1>8, UpAcyclic
  <2>2. ASSUME NEW j \in DOMAIN todo, todo[j].op \in {"sleep", "detach"}, todo[j].state = c PROVE FALSE
    <3>1. j # 1
      BY <1>1, <2>2
    <3>2. InOrder(todo[1], todo[j])
      BY <1>6, <3>1
    <3>. QED BY <1>1, <2>1, <2>2, <3>2 DEF InOrder, ChainOps, ExitOps
  <2>3. ~After(0, "detach", c)
    BY <2>2 DEF After, Holds
  <2>4. c \in active /\ Link(c) = c
    BY <1>5, <1>8, <2>1, <2>3, Linked
  <2>5. ASSUME NEW j \in DOMAIN todo, IsHook(todo[j]), todo[j].state = c PROVE FALSE
    <3>1. j > 1 /\ todo[j].op \in ChainOps
      BY <1>1, <1>6, <2>5 DEF IsHook, ChainOps
    <3>. QED BY <1>7, <2>1, <2>5, <3>1
  <2>. QED BY <2>1, <2>2, <2>4, <2>5 DEF Leaving, Holds
<1>9. s \in active /\ After(1, "sleep", s)
  <2>1. After(1, "sleep", s)
    BY <1>1 DEF Right, ExitRight
  <2>2. PICK j \in DOMAIN todo : todo[j].op = "sleep" /\ todo[j].state = s
    BY <2>1 DEF After, Holds
  <2>3. SleepRight(j)
    BY <2>2 DEF ChartInv, FramesRight, Right
  <2>. QED BY <2>1, <2>2, <2>3 DEF SleepRight
<1>10. PICK new \in Seq(Frame) :
         /\ new = IF c = NULL THEN <<>> ELSE Append(exit_state(c), detach(c))
         /\ c = NULL => DOMAIN new = {}
         /\ c # NULL => DOMAIN new = 1 .. 5 /\ Leaves(new, c)
  BY <1>4, LeavesFrames
<1>11. Moves(new, 1)
  BY <1>1, <1>3, <1>10, MovesHead
<1>. QED BY <1>1, <1>3, <1>4, <1>5, <1>7, <1>8, <1>9, <1>10, <1>11

LEMMA HookExitChild ==
  ASSUME ChartInv, HookInv, exit_active_child
  PROVE  HookInv'
<1>1. PICK s : s = todo[1].state
  OBVIOUS
<1>2. /\ ~Idle /\ todo[1].op = "exit_child" /\ life \in {"live", "dying"} /\ s \in State
      /\ UNCHANGED <<life, active, seated, stamp>>
      /\ \A j \in DOMAIN todo : j > 1 /\ todo[j].op \in ChainOps /\ RegionOf[todo[j].state] = RegionOf[s] =>
           ~IsHook(todo[j])
  BY <1>1, ExitChildShape
<1>3. PICK c \in State \cup {NULL}, new \in Seq(Frame) :
        /\ Moves(new, 1)
        /\ c = NULL => DOMAIN new = {}
        /\ c # NULL => DOMAIN new = 1 .. 5 /\ Leaves(new, c) /\ RegionOf[c] = RegionOf[s]
  BY <1>1, ExitChildShape
<1>4. ASSUME NEW k \in DOMAIN new
      PROVE  /\ ~IsHook(new[k]) /\ new[k].op \notin EnterOps /\ SeatRight(new[k])
             /\ RegionOf[new[k].state] = RegionOf[s] /\ new[k].op # "initial_entry"
  <2>1. c # NULL /\ k \in 1 .. 5 /\ Leaves(new, c)
    BY <1>3
  <2>2. ExitFrames(new, c)
    BY <2>1 DEF Leaves
  <2>. QED BY <1>3, <2>1, <2>2, ExitFrameOps DEF Leaves
<1>5. InFlight' \subseteq InFlight \cup {r \in Region : stamp[r] # kNeverTicked}
  BY ExitChildKeeps
<1>6. todo[1].op \notin EnterOps
  BY <1>2 DEF EnterOps
<1>. QED BY <1>2, <1>3, <1>4, <1>5, <1>6, HookPlain

\* exit_host_machines goes on with the next region.
LEMMA ExitRegionShape ==
  ASSUME ChartInv, HookInv, exit_one_region
  PROVE  /\ ~Idle /\ todo[1].op = "exit_region" /\ life = "dying"
         /\ UNCHANGED <<life, active, seated, stamp>>
         /\ \E r \in Region, c \in State \cup {NULL}, new \in Seq(Frame) :
              /\ stamp[r] = tick
              /\ \A j \in DOMAIN todo : todo[j].op \in ChainOps => RegionOf[todo[j].state] # r
              /\ Moves(new, 1)
              /\ c = NULL => DOMAIN new = {}
              /\ c # NULL => /\ DOMAIN new = 1 .. 5 /\ Leaves(new, c) /\ Leaving(c)
                             /\ Parent[c] = NULL /\ RegionOf[c] = r
<1>. PICK r, c : r = todo[1].region /\ c = region_active[r]
  OBVIOUS
<1>1. /\ ~Idle /\ Head(todo) = todo[1] /\ todo[1].op = "exit_region" /\ todo[1] \in Frame
      /\ 1 \in DOMAIN todo /\ TypesRight
  BY HeadOf DEF exit_one_region
<1>2. /\ todo' = (IF c = NULL THEN <<>> ELSE Append(exit_state(c), detach(c))) \o Tail(todo)
      /\ UNCHANGED <<life, active, seated, stamp>>
  BY <1>1 DEF exit_one_region, configVars
<1>3. /\ r \in Region /\ life = "dying" /\ stamp[r] = tick
      /\ \A j \in DOMAIN todo : todo[j].op \in ChainOps => RegionOf[todo[j].state] # r
  <2>1. r \in Region
    BY <1>1, FrameFacts
  <2>2. /\ life = "dying"
        /\ \A j \in DOMAIN todo : todo[j].op \in ChainOps => RegionOf[todo[j].state] # r
    BY <1>1 DEF ChartInv, PlacesRight
  <2>. QED BY <2>1, <2>2 DEF ChartInv, LifeRight
<1>4. /\ c \in State \cup {NULL} /\ NULL \notin State
      /\ c # NULL => Parent[c] = NULL /\ Link(c) = c /\ RegionOf[c] = r
  <2>1. c \in State \cup {NULL} /\ NULL \notin State
    BY <1>1, <1>3, ChartAssumption DEF TypesRight
  <2>2. c # NULL => Parent[c] = NULL /\ RegionOf[c] = r
    BY <1>3 DEF ChartInv, LinksRight
  <2>. QED BY <2>1, <2>2 DEF Link, Below
<1>5. c # NULL => Leaving(c)
  <2>1. c # NULL => ~After(0, "detach", c)
    BY <1>3, <1>4 DEF After, Holds, ChainOps
  <2>2. c # NULL => c \in active
    BY <1>4, <2>1, Linked
  <2>. QED BY <1>3, <1>4, <2>2 DEF Leaving, Holds, IsHook, ChainOps
<1>6. PICK new \in Seq(Frame) :
        /\ new = IF c = NULL THEN <<>> ELSE Append(exit_state(c), detach(c))
        /\ c = NULL => DOMAIN new = {}
        /\ c # NULL => DOMAIN new = 1 .. 5 /\ Leaves(new, c)
  BY <1>4, LeavesFrames
<1>7. Moves(new, 1)
  BY <1>1, <1>2, <1>6, MovesHead
<1>. QED BY <1>1, <1>2, <1>3, <1>4, <1>5, <1>6, <1>7

LEMMA HookExitRegion ==
  ASSUME ChartInv, HookInv, exit_one_region
  PROVE  HookInv'
<1>1. /\ ~Idle /\ todo[1].op = "exit_region" /\ life = "dying"
      /\ UNCHANGED <<life, active, seated, stamp>>
  BY ExitRegionShape
<1>2. PICK r \in Region, c \in State \cup {NULL}, new \in Seq(Frame) :
        /\ stamp[r] = tick
        /\ \A j \in DOMAIN todo : todo[j].op \in ChainOps => RegionOf[todo[j].state] # r
        /\ Moves(new, 1)
        /\ c = NULL => DOMAIN new = {}
        /\ c # NULL => DOMAIN new = 1 .. 5 /\ Leaves(new, c) /\ RegionOf[c] = r
  BY ExitRegionShape
<1>3. ASSUME NEW k \in DOMAIN new
      PROVE  /\ ~IsHook(new[k]) /\ new[k].op \notin EnterOps /\ SeatRight(new[k])
             /\ RegionOf[new[k].state] = r /\ new[k].op # "initial_entry"
  <2>1. c # NULL /\ k \in 1 .. 5 /\ Leaves(new, c)
    BY <1>2
  <2>2. ExitFrames(new, c)
    BY <2>1 DEF Leaves
  <2>. QED BY <1>2, <2>1, <2>2, ExitFrameOps DEF Leaves
<1>4. InFlight' \subseteq InFlight \cup {q \in Region : stamp[q] # kNeverTicked}
  <2>1. stamp[r] # kNeverTicked
    BY <1>2 DEF ChartInv, TypesRight, kNeverTicked
  <2>2. \A k \in DOMAIN new : new[k].op \in ChainOps => RegionOf[new[k].state] \in InFlight \cup {r}
    BY <1>3
  <2>3. InFlight' \subseteq InFlight \cup {r}
    BY <1>2, <2>2, FlightKept
  <2>. QED BY <2>1, <2>3
<1>5. todo[1].op \notin EnterOps /\ life \in {"live", "dying"}
  BY <1>1 DEF EnterOps
<1>. QED BY <1>1, <1>2, <1>3, <1>4, <1>5, HookPlain

\* deactivate_state: the state that sleeps is up, and nothing is up below it.
LEMMA SleepShape ==
  ASSUME ChartInv, HookInv, deactivate_state, NEW s, s = todo[1].state
  PROVE  /\ ~Idle /\ Holds(todo[1], "sleep", s) /\ 1 \in DOMAIN todo /\ life \in {"live", "dying"}
         /\ s \in active /\ s \in State
         /\ stamp[RegionOf[s]] = tick /\ stamp[RegionOf[s]] # kNeverTicked
         /\ \A c \in active : Parent[c] # s
         /\ active' = active \ {s} /\ seated' = seated \ {s} /\ UNCHANGED <<life, stamp>>
         /\ \E new \in Seq(Frame) : DOMAIN new = {} /\ Moves(new, 1)
<1>1. /\ ~Idle /\ Head(todo) = todo[1] /\ todo[1].op = "sleep" /\ todo[1] \in Frame
      /\ 1 \in DOMAIN todo /\ Right(1) /\ StampRight(1) /\ life \in {"live", "dying"} /\ TypesRight
  BY HeadOf DEF deactivate_state
<1>2. s \in State /\ stamp[RegionOf[s]] = tick /\ tick # kNeverTicked
  <2>1. s \in State
    BY <1>1, FrameFacts DEF ChainOps
  <2>. QED BY <1>1, <2>1 DEF StampRight, ChainOps, ExitOps, TypesRight, kNeverTicked
<1>3. s \in active /\ \A c \in active : Parent[c] # s
  <2>1. \A op, c : ~Before(1, op, c)
    <3>1. \A k \in DOMAIN todo : ~(k < 1)
      BY <1>1, Popped
    <3>. QED BY <3>1 DEF Before
  <2>. QED BY <1>1, <2>1 DEF Right, SleepRight
<1>4. todo' = Tail(todo) /\ active' = active \ {s} /\ seated' = seated \ {s} /\ UNCHANGED <<life, stamp>>
  <2>1. s \notin deactivated
    BY <1>1, <1>3 DEF ChartInv, LifeRight
  <2>. QED BY <1>1, <2>1 DEF deactivate_state
<1>5. \E new \in Seq(Frame) : DOMAIN new = {} /\ Moves(new, 1)
  BY <1>1, <1>4, PopMoves
<1>. QED BY <1>1, <1>2, <1>3, <1>4, <1>5 DEF Holds

LEMMA HookSleep ==
  ASSUME ChartInv, HookInv, deactivate_state
  PROVE  HookInv'
<1>1. PICK s : s = todo[1].state
  OBVIOUS
<1>2. /\ ~Idle /\ Holds(todo[1], "sleep", s) /\ 1 \in DOMAIN todo /\ life \in {"live", "dying"}
      /\ s \in active /\ s \in State
      /\ stamp[RegionOf[s]] = tick /\ stamp[RegionOf[s]] # kNeverTicked
      /\ \A c \in active : Parent[c] # s
      /\ active' = active \ {s} /\ seated' = seated \ {s} /\ UNCHANGED <<life, stamp>>
  BY <1>1, SleepShape
<1>3. PICK new \in Seq(Frame) : DOMAIN new = {} /\ Moves(new, 1)
  BY <1>1, SleepShape
<1>4. HooksInRow'
  BY <1>3, HookOrderKept DEF HookInv
<1>5. ASSUME NEW f, NEW j \in DOMAIN todo, j > 1, todo[j] = f PROVE SeatRight(f)'
  <2>1. SeatRight(f) /\ f \in Frame /\ HookOrder(todo[1], f) /\ StampRight(j)
    BY <1>2, <1>5, BehindHead DEF ChartInv, FramesRight
  <2>2. IsHook(f) => f.state # s
    BY <1>2, <2>1 DEF HookOrder, IsHook, Holds, ExitOps, ChainOps
  <2>3. f.op \in EnterOps /\ f.first => f.state \in State /\ RegionOf[f.state] # RegionOf[s]
    BY <1>2, <1>5, <2>1, FrameFacts DEF StampRight, EnterOps, ChainOps
  <2>4. f.op = "enter_child" /\ f.first /\ InitialChild[f.state] # NULL => InitialChild[f.state] # s
    BY <2>3, ChartAssumption DEF EnterOps
  <2>5. f.op \in EnterOps /\ f.first => f.state # s
    BY <2>3
  <2>. QED BY <1>2, <2>1, <2>2, <2>4, <2>5 DEF SeatRight, EnterOps
<1>6. SeatsRight'
  <2>1. \A f : (\E j \in DOMAIN todo : j > 1 /\ todo[j] = f) => SeatRight(f)'
    BY <1>5
  <2>2. \A f : (\E k \in DOMAIN new : new[k] = f) => SeatRight(f)'
    BY <1>3
  <2>. QED BY <1>3, <2>1, <2>2, SeatsRightKept
<1>7. seated \subseteq active
  BY DEF ChartInv, TypesRight
<1>8. SeatsEnter'
  <2>1. \A c \in seated' : Parent[c] \in seated => Parent[c] \in seated'
    BY <1>2, <1>7
  <2>2. todo[1].op # "wake" /\ todo[1].op # "enter_child"
    BY <1>2 DEF Holds
  <2>. QED BY <1>2, <1>3, <2>1, <2>2, SeatsEnterKept DEF HookInv
<1>9. EntryAhead'
  <2>1. PICK Q : Q = {}
    OBVIOUS
  <2>2. InFlight' \subseteq InFlight \cup Q /\ \A q \in Q : stamp'[q] # kNeverTicked
    BY <2>1, SleepKeeps
  <2>3. life' \in {"live", "dying"} /\ EntryAhead
    BY <1>2 DEF HookInv
  <2>4. \A c \in active' : stamp[RegionOf[c]] = kNeverTicked /\ RegionOf[c] \notin InFlight =>
          c \in active /\ (c \in seated => c \in seated')
    BY <1>2
  <2>5. \A r \in Region : stamp'[r] = kNeverTicked => stamp[r] = kNeverTicked
    BY <1>2
  <2>6. Moves(new, 1) /\ \A k \in DOMAIN new : new[k].op # "initial_entry"
    BY <1>3
  <2>. QED BY <2>2, <2>3, <2>4, <2>5, <2>6, EntryAheadKept, SMTT(40)
<1>10. SeatsWhole'
  BY <1>2, <1>7 DEF HookInv, SeatsWhole
<1>. QED BY <1>4, <1>6, <1>8, <1>9, <1>10 DEF HookInv

\* The frames with which a state enters: its script comes last.
Enters(new, s, b) ==
  /\ DOMAIN new = 1 .. 3 /\ \A k \in 1 .. 3 : new[k].state = s
  /\ new[1].op = "slot" /\ ~IsHook(new[1])
  /\ new[2].op = "enter_child" /\ new[2].first = b
  /\ IsHook(new[3])

LEMMA EntersFrames ==
  ASSUME NEW s \in State, NEW t \in State \cup {NULL}, NEW b \in BOOLEAN
  PROVE  \E x \in Seq(Frame) : x = enter_state(s, t, b) /\ Enters(x, s, b)
<1>1. /\ slot("component_enter", s) \in Frame /\ slot("script_enter", s) \in Frame
      /\ enter_child(s, t, b) \in Frame
  BY FrameTypes DEF Slots
<1> DEFINE f == slot("component_enter", s)
           g == enter_child(s, t, b)
           h == slot("script_enter", s)
<1>2. /\ f.op = "slot" /\ f.state = s /\ ~IsHook(f) /\ h.state = s /\ IsHook(h)
      /\ g.op = "enter_child" /\ g.state = s /\ g.first = b
  BY DEF slot, IsHook, enter_child
<1>3. <<f, g, h>> = enter_state(s, t, b)
  BY DEF enter_state
<1>4. f \in Frame /\ g \in Frame /\ h \in Frame
  BY <1>1
<1>. HIDE DEF f, g, h
<1>5. PICK x \in Seq(Frame) : x = <<f, g, h>> /\ DOMAIN x = 1 .. 3 /\ x[1] = f /\ x[2] = g /\ x[3] = h
  <2> DEFINE y == <<f, g, h>>
  <2>1. y \in Seq(Frame) /\ DOMAIN y = 1 .. 3 /\ y[1] = f /\ y[2] = g /\ y[3] = h
    BY <1>4
  <2>2. y = <<f, g, h>>
    OBVIOUS
  <2>. HIDE DEF y
  <2>. QED BY <2>1, <2>2
<1>6. \A k \in 1 .. 3 : x[k].state = s
  <2>1. \A k \in 1 .. 3 : k = 1 \/ k = 2 \/ k = 3
    OBVIOUS
  <2>. QED BY <1>2, <1>5, <2>1
<1>7. Enters(x, s, b)
  BY <1>2, <1>5, <1>6 DEF Enters
<1>. QED BY <1>3, <1>5, <1>7

\* activate_state: what a state that wakes finds.
LEMMA EnterShape ==
  ASSUME ChartInv, HookInv, activate_state, NEW s, s = todo[1].state, NEW b, b = todo[1].first
  PROVE  /\ ~Idle /\ Holds(todo[1], "wake", s) /\ 1 \in DOMAIN todo /\ life = "live"
         /\ s \in State /\ b \in BOOLEAN
         /\ b => s \in active /\ s \in seated /\ (Parent[s] = NULL \/ Parent[s] \notin seated)
         /\ ~b => s \notin active
         /\ Parent[s] = NULL \/ Parent[s] \in active
         /\ \A c \in active : Beside(c, s) => c = s
         /\ \A c \in active : Parent[c] = s => b
         /\ RegionOf[s] \in InFlight /\ RegionOf[s] \in Region
         /\ stamp[RegionOf[s]] = kNeverTicked <=> b
         /\ \A j \in DOMAIN todo : todo[j].op \in ChainOps /\ RegionOf[todo[j].state] = RegionOf[s] =>
              j = 1 \/ (IsHook(todo[j]) /\ Parent[s] # NULL /\ todo[j].state \in Up[Parent[s]])
         /\ active' = active \cup {s} /\ seated' = seated \ {s} /\ UNCHANGED <<life, stamp>>
         /\ \E new \in Seq(Frame) : Moves(new, 1) /\ Enters(new, s, b)
<1>1. /\ ~Idle /\ Head(todo) = todo[1] /\ todo[1].op = "wake" /\ todo[1] \in Frame
      /\ 1 \in DOMAIN todo /\ TypesRight /\ Next_frame("wake")
  BY HeadOf DEF activate_state
<1>2. PICK t : t = todo[1].target
  OBVIOUS
<1>3. /\ s \in State /\ t \in State \cup {NULL} /\ b \in BOOLEAN
      /\ b => s \in active
      /\ ~b => s \notin active
      /\ Parent[s] = NULL \/ Parent[s] \in active
      /\ \A c \in active : Beside(c, s) => c = s
      /\ \A c \in active : Parent[c] = s => b
      /\ RegionOf[s] \in InFlight /\ RegionOf[s] \in Region /\ life = "live"
      /\ stamp[RegionOf[s]] = kNeverTicked <=> b
  BY <1>1, <1>2, WakeShape
<1>4. b => s \in seated /\ (Parent[s] = NULL \/ Parent[s] \notin seated)
  BY <1>1, BehindHead DEF SeatRight
<1>5. ASSUME NEW j \in DOMAIN todo, todo[j].op \in ChainOps, RegionOf[todo[j].state] = RegionOf[s], j # 1
      PROVE  IsHook(todo[j]) /\ Parent[s] # NULL /\ todo[j].state \in Up[Parent[s]]
  <2>1. HookOrder(todo[1], todo[j])
    BY <1>1, <1>5, BehindHead
  <2>. QED BY <1>1, <1>5, <2>1 DEF HookOrder, EnterOps, ChainOps
<1>6. /\ active' = active \cup {s} /\ seated' = seated \ {s} /\ UNCHANGED <<life, stamp>>
      /\ todo' = enter_state(s, t, b) \o Tail(todo)
  <2>1. deactivated = State \ active
    BY <1>3 DEF ChartInv, LifeRight
  <2>2. ~(~b /\ s \notin deactivated)
    BY <1>3, <2>1
  <2>. QED BY <1>1, <1>2, <2>2 DEF activate_state
<1>7. PICK new \in Seq(Frame) : new = enter_state(s, t, b) /\ Enters(new, s, b)
  BY <1>3, EntersFrames
<1>8. Moves(new, 1)
  BY <1>1, <1>6, <1>7, MovesHead
<1>9. \E x \in Seq(Frame) : Moves(x, 1) /\ Enters(x, s, b)
  BY <1>7, <1>8
<1>10. \A j \in DOMAIN todo : todo[j].op \in ChainOps /\ RegionOf[todo[j].state] = RegionOf[s] =>
         j = 1 \/ (IsHook(todo[j]) /\ Parent[s] # NULL /\ todo[j].state \in Up[Parent[s]])
  BY <1>5
<1>11. Holds(todo[1], "wake", s)
  BY <1>1 DEF Holds
<1>. QED BY <1>1, <1>3, <1>4, <1>6, <1>9, <1>10, <1>11

LEMMA HookWake ==
  ASSUME ChartInv, HookInv, activate_state
  PROVE  HookInv'
<1>1. PICK s, b : s = todo[1].state /\ b = todo[1].first
  OBVIOUS
<1>2. /\ ~Idle /\ Holds(todo[1], "wake", s) /\ 1 \in DOMAIN todo /\ life = "live"
      /\ s \in State /\ b \in BOOLEAN
      /\ b => s \in active /\ s \in seated /\ (Parent[s] = NULL \/ Parent[s] \notin seated)
      /\ ~b => s \notin active
      /\ \A c \in active : Parent[c] = s => b
      /\ RegionOf[s] \in InFlight /\ RegionOf[s] \in Region
      /\ stamp[RegionOf[s]] = kNeverTicked <=> b
      /\ \A j \in DOMAIN todo : todo[j].op \in ChainOps /\ RegionOf[todo[j].state] = RegionOf[s] =>
           j = 1 \/ (IsHook(todo[j]) /\ Parent[s] # NULL /\ todo[j].state \in Up[Parent[s]])
      /\ active' = active \cup {s} /\ seated' = seated \ {s} /\ UNCHANGED <<life, stamp>>
  BY <1>1, EnterShape
<1>3. PICK new \in Seq(Frame) : Moves(new, 1) /\ Enters(new, s, b)
  BY <1>1, EnterShape
<1>4. /\ DOMAIN new = 1 .. 3 /\ \A k \in 1 .. 3 : k = 1 \/ k = 2 \/ k = 3
      /\ s \in Up[s] /\ NULL \notin State /\ seated \subseteq active
      /\ Parent[s] # NULL => Up[Parent[s]] \subseteq Up[s] /\ s \notin Up[Parent[s]]
  BY <1>2, <1>3, UpDef, UpClosed, UpAcyclic, ParentType DEF Enters, ChartInv, TypesRight
<1>5. \A i, j \in DOMAIN new : i < j => HookOrder(new[i], new[j])
  <2>1. ASSUME NEW i \in DOMAIN new, NEW j \in DOMAIN new, i < j PROVE HookOrder(new[i], new[j])
    <3>1. (i = 1 /\ j = 2) \/ (i = 1 /\ j = 3) \/ (i = 2 /\ j = 3)
      BY <1>4, <2>1
    <3>. QED BY <1>3, <1>4, <3>1 DEF Enters, HookOrder, IsHook, EnterOps, ExitOps
  <2>. QED BY <2>1
<1>6. \A i \in DOMAIN new, j \in DOMAIN todo : j > 1 => HookOrder(new[i], todo[j])
  <2>1. ASSUME NEW i \in DOMAIN new, NEW j \in DOMAIN todo, j > 1,
               todo[j].op \in ChainOps, RegionOf[todo[j].state] = RegionOf[s]
        PROVE  HookOrder(new[i], todo[j])
    <3>1. IsHook(todo[j]) /\ todo[j].state \in Up[s] /\ todo[j].state # s
      BY <1>2, <1>4, <2>1
    <3>2. i = 1 \/ i = 2 \/ i = 3
      BY <1>4
    <3>3. new[i].state = s /\ new[i].op \notin ExitOps /\ new[i].op # "wake"
      BY <1>3, <1>4, <3>2 DEF Enters, IsHook, ExitOps
    <3>. QED BY <3>1, <3>3 DEF HookOrder
  <2>2. \A i \in DOMAIN new : new[i].state = s
    BY <1>3, <1>4 DEF Enters
  <2>. QED BY <2>1, <2>2 DEF HookOrder
<1>7. HooksInRow'
  BY <1>3, <1>5, <1>6, HookOrderKept DEF HookInv
<1>8. ASSUME NEW f, NEW j \in DOMAIN todo, j > 1, todo[j] = f PROVE SeatRight(f)'
  <2>1. SeatRight(f) /\ f \in Frame
    BY <1>2, <1>8, BehindHead
  <2>2. f.op \in EnterOps => f.state \in State /\ RegionOf[f.state] # RegionOf[s]
    BY <1>2, <1>8, <2>1, FrameFacts DEF EnterOps, ChainOps, IsHook
  <2>3. f.op = "enter_child" /\ InitialChild[f.state] # NULL => InitialChild[f.state] # s
    BY <2>2, ChartAssumption DEF EnterOps
  <2>4. f.op \in EnterOps => f.state # s
    BY <2>2
  <2>. QED BY <1>2, <2>1, <2>3, <2>4 DEF SeatRight, EnterOps
<1>9. ASSUME NEW f, NEW k \in DOMAIN new, new[k] = f PROVE SeatRight(f)'
  <2>1. b /\ InitialChild[s] # NULL => InitialChild[s] \in seated /\ InitialChild[s] # s
    <3>1. SUFFICES ASSUME b, InitialChild[s] # NULL
                   PROVE  InitialChild[s] \in seated /\ InitialChild[s] # s
      OBVIOUS
    <3>2. /\ Parent[InitialChild[s]] = s /\ InitialChild[s] \in State /\ s # NULL
      BY <1>2, <1>4, <3>1, ChartAssumption
    <3>3. RegionOf[InitialChild[s]] = RegionOf[s] /\ InitialChild[s] # s
      BY <3>2, ParentType, UpAcyclic, UpClosed
    <3>4. InitialChild[s] \in active
      BY <1>2, <3>1 DEF ChartInv, UnmarkedRight
    <3>. QED BY <1>2, <3>1, <3>2, <3>3, <3>4 DEF HookInv, SeatsWhole
  <2>2. CASE k = 1
    BY <1>3, <1>9, <2>2 DEF Enters, SeatRight
  <2>3. CASE k = 2
    BY <1>2, <1>3, <1>9, <2>1, <2>3 DEF Enters, SeatRight, IsHook
  <2>4. CASE k = 3
    BY <1>2, <1>3, <1>9, <2>4 DEF Enters, SeatRight, IsHook
  <2>. QED BY <1>4, <2>2, <2>3, <2>4
<1>10. SeatsRight'
  <2>1. \A f : (\E j \in DOMAIN todo : j > 1 /\ todo[j] = f) => SeatRight(f)'
    BY <1>8
  <2>2. \A f : (\E k \in DOMAIN new : new[k] = f) => SeatRight(f)'
    BY <1>9
  <2>. QED BY <1>3, <2>1, <2>2, SeatsRightKept
<1>11. SeatsEnter'
  <2>1. \A c \in seated' : Parent[c] \in seated /\ Parent[c] \notin seated' =>
          \E k \in DOMAIN new : Holds(new[k], "enter_child", Parent[c])
    <3>1. \A c \in seated' : Parent[c] \in seated /\ Parent[c] \notin seated' => Parent[c] = s
      BY <1>2
    <3>2. 2 \in DOMAIN new /\ Holds(new[2], "enter_child", s)
      BY <1>3, <1>4 DEF Enters, Holds
    <3>. QED BY <3>1, <3>2
  <2>2. seated' \subseteq seated /\ todo[1].op # "enter_child" /\ todo[1].state \notin seated'
    BY <1>1, <1>2 DEF Holds
  <2>. QED BY <1>3, <2>1, <2>2, SeatsEnterKept DEF HookInv
<1>12. EntryAhead'
  <2>1. PICK Q : Q = {}
    OBVIOUS
  <2>2. InFlight' \subseteq InFlight \cup Q /\ \A q \in Q : stamp'[q] # kNeverTicked
    BY <2>1, WakeKeeps
  <2>3. life' \in {"live", "dying"} /\ EntryAhead
    BY <1>2 DEF HookInv
  <2>4. \A c \in active' : stamp[RegionOf[c]] = kNeverTicked /\ RegionOf[c] \notin InFlight =>
          c \in active /\ (c \in seated => c \in seated')
    BY <1>2
  <2>5. \A r \in Region : stamp'[r] = kNeverTicked => stamp[r] = kNeverTicked
    BY <1>2
  <2>6. \A k \in DOMAIN new : new[k].op # "initial_entry"
    BY <1>3, <1>4 DEF Enters, IsHook
  <2>. QED BY <1>3, <2>2, <2>3, <2>4, <2>5, <2>6, EntryAheadKept
<1>13. SeatsWhole'
  BY <1>2, <1>4 DEF HookInv, SeatsWhole
<1>. QED BY <1>7, <1>10, <1>11, <1>12, <1>13 DEF HookInv

\* enter_substate puts the substate that is to wake on the stack.
LEMMA EnterChildShape ==
  ASSUME ChartInv, enter_substate, NEW f, f = todo[1], NEW s, s = f.state
  PROVE  /\ ~Idle /\ f.op = "enter_child" /\ 1 \in DOMAIN todo /\ life \in {"live", "dying"}
         /\ s \in State /\ f.first \in BOOLEAN /\ RegionOf[s] \in Region /\ s \in active
         /\ stamp[RegionOf[s]] = kNeverTicked <=> f.first
         /\ ~f.first => \A c \in active : Parent[c] # s
         /\ UNCHANGED <<life, active, seated, stamp>>
         /\ \E next \in State \cup {NULL}, new \in Seq(Frame) :
              /\ Moves(new, 1)
              /\ next # NULL => /\ Parent[next] = s /\ RegionOf[next] = RegionOf[s]
                                /\ 1 \in DOMAIN new
              /\ f.first => next = InitialChild[s]
              /\ \A k \in DOMAIN new : /\ k = 1 /\ next # NULL /\ new[k].op = "wake"
                                        /\ new[k].state = next /\ new[k].first = f.first
<1>1. /\ ~Idle /\ Head(todo) = todo[1] /\ todo[1].op = "enter_child" /\ todo[1] \in Frame
      /\ 1 \in DOMAIN todo /\ Right(1) /\ StampRight(1) /\ life \in {"live", "dying"} /\ TypesRight
  BY HeadOf DEF enter_substate
<1>2. PICK next :
        /\ next = IF f.target # NULL /\ f.target # s /\ s \in Up[f.target] THEN Toward(s, f.target)
                  ELSE IF s \in History /\ history_child[s] # NULL THEN history_child[s]
                  ELSE InitialChild[s]
        /\ todo' = (IF next = NULL THEN <<>> ELSE <<wake(next, f.target, f.first)>>) \o Tail(todo)
        /\ UNCHANGED <<life, active, seated, stamp>>
  BY <1>1 DEF enter_substate, configVars
<1>3. /\ s \in State /\ f.target \in State \cup {NULL} /\ f.first \in BOOLEAN /\ NULL \notin State
      /\ RegionOf[s] \in Region /\ (stamp[RegionOf[s]] = kNeverTicked <=> f.first) /\ s \in active
      /\ f.first => f.target = NULL
      /\ ~f.first => \A c \in active : Parent[c] # s
  <2>1. s \in State /\ f.target \in State \cup {NULL} /\ f.first \in BOOLEAN
    BY <1>1, FrameFacts DEF ChainOps, EnterOps
  <2>2. stamp[RegionOf[s]] = kNeverTicked <=> f.first
    BY <1>1 DEF StampRight, ChainOps, EnterOps
  <2>3. /\ ~f.first => s \in active /\ \A c \in active : Parent[c] # s
        /\ f.first => s \in active /\ f.target = NULL
    BY <1>1 DEF Right, EnterRight, FirstRight, EnterOps
  <2>. QED BY <2>1, <2>2, <2>3, ParentType
<1>4. /\ next # NULL => next \in State /\ Parent[next] = s /\ RegionOf[next] = RegionOf[s]
      /\ f.first => next = InitialChild[s]
  <2>1. CASE f.target # NULL /\ f.target # s /\ s \in Up[f.target]
    <3>1. /\ Toward(s, f.target) \in State /\ Parent[Toward(s, f.target)] = s
          /\ RegionOf[Toward(s, f.target)] = RegionOf[f.target] /\ RegionOf[s] = RegionOf[f.target]
      BY <1>3, <2>1, TowardRight, UpClosed
    <3>. QED BY <1>2, <1>3, <2>1, <3>1
  <2>2. CASE ~(f.target # NULL /\ f.target # s /\ s \in Up[f.target])
    <3>1. InitialChild[s] \in State \cup {NULL} /\ (InitialChild[s] # NULL => Parent[InitialChild[s]] = s)
      BY <1>3, ChartAssumption
    <3>2. history_child[s] \in State \cup {NULL} /\ (history_child[s] # NULL => Parent[history_child[s]] = s)
      BY <1>1, <1>3 DEF TypesRight, ChartInv, LinksRight
    <3>3. f.first => history_child[s] = NULL
      BY <1>1, <1>3 DEF ChartInv, UnmarkedRight
    <3>4. next \in {history_child[s], InitialChild[s]} /\ (f.first => next = InitialChild[s])
      BY <1>2, <2>2, <3>3
    <3>. QED BY <1>3, <3>1, <3>2, <3>4, ParentType
  <2>. QED BY <2>1, <2>2
<1>5. PICK new \in Seq(Frame) :
        /\ todo' = new \o Tail(todo)
        /\ next = NULL => DOMAIN new = {}
        /\ next # NULL => DOMAIN new = {1} /\ new[1] = wake(next, f.target, f.first)
  <2>1. next # NULL => wake(next, f.target, f.first) \in Frame
    BY <1>3, <1>4, FrameTypes
  <2>. QED BY <1>2, <2>1, None0, One
<1>6. Moves(new, 1)
  BY <1>1, <1>5, MovesHead
<1>7. \A k \in DOMAIN new : /\ k = 1 /\ next # NULL /\ new[k].op = "wake" /\ new[k].state = next
                            /\ new[k].first = f.first
  BY <1>5 DEF wake
<1>8. next \in State \cup {NULL} /\ (next # NULL => 1 \in DOMAIN new)
  BY <1>4, <1>5
<1>. QED BY <1>1, <1>2, <1>3, <1>4, <1>6, <1>7, <1>8

LEMMA HookEnterChild ==
  ASSUME ChartInv, HookInv, enter_substate
  PROVE  HookInv'
<1>. PICK f, s : f = todo[1] /\ s = todo[1].state
  OBVIOUS
<1>1. /\ ~Idle /\ todo[1].op = "enter_child" /\ 1 \in DOMAIN todo /\ life \in {"live", "dying"}
  BY EnterChildShape
<1>2. UNCHANGED <<life, active, seated, stamp>> /\ TypesRight
  BY EnterChildShape DEF ChartInv
<1>3. /\ s \in State /\ f.first \in BOOLEAN /\ NULL \notin State
      /\ RegionOf[s] \in Region /\ (stamp[RegionOf[s]] = kNeverTicked <=> f.first) /\ s \in active
      /\ ~f.first => \A c \in active : Parent[c] # s
  BY EnterChildShape, ChartAssumption
<1>4. PICK next \in State \cup {NULL}, new \in Seq(Frame) :
        /\ Moves(new, 1)
        /\ next # NULL => Parent[next] = s /\ RegionOf[next] = RegionOf[s] /\ 1 \in DOMAIN new
        /\ f.first => next = InitialChild[s]
        /\ \A k \in DOMAIN new : /\ k = 1 /\ next # NULL /\ new[k].op = "wake"
                                  /\ new[k].state = next /\ new[k].first = f.first
  BY EnterChildShape
<1>5. next # NULL => 1 \in DOMAIN new
  BY <1>4
<1>6. Moves(new, 1)
  BY <1>4
<1>7. \A k \in DOMAIN new : /\ k = 1 /\ next # NULL /\ new[k].op = "wake" /\ new[k].state = next
                            /\ new[k].first = f.first
  BY <1>4
<1>8. \A i, j \in DOMAIN new : i < j => HookOrder(new[i], new[j])
  BY <1>7
<1>9. ASSUME NEW k \in DOMAIN new, NEW j \in DOMAIN todo, j > 1 PROVE HookOrder(new[k], todo[j])
  <2>1. HookOrder(todo[1], todo[j])
    BY <1>1, <1>9, BehindHead
  <2>2. new[k].op = "wake" /\ Parent[new[k].state] = s /\ RegionOf[new[k].state] = RegionOf[s]
    BY <1>4, <1>7, <1>9
  <2>. QED BY <1>1, <1>3, <2>1, <2>2 DEF HookOrder, EnterOps, ExitOps, ChainOps, IsHook
<1>10. SeatRight(todo[1])
  BY <1>1, BehindHead
<1>11. ASSUME NEW k \in DOMAIN new PROVE SeatRight(new[k])
  <2>1. f.first => next \in seated /\ s \notin seated
    BY <1>1, <1>4, <1>7, <1>10, <1>11 DEF SeatRight
  <2>. QED BY <1>4, <1>7, <1>11, <2>1 DEF SeatRight, IsHook
<1>12. ASSUME NEW c \in seated, Parent[c] = s PROVE \E k \in DOMAIN new : Holds(new[k], "wake", c)
  <2>1. c \in active /\ f.first /\ c \in State
    BY <1>2, <1>3, <1>12 DEF TypesRight
  <2>2. InitialChild[s] # NULL /\ InitialChild[s] \in State /\ Parent[InitialChild[s]] = s
    BY <1>3, <1>12, <2>1, ChartAssumption
  <2>3. InitialChild[s] \in active
    <3>1. UnmarkedRight /\ life # "none" /\ stamp[RegionOf[s]] = kNeverTicked
      BY <1>1, <1>3, <2>1 DEF ChartInv
    <3>. QED BY <1>3, <2>2, <3>1 DEF UnmarkedRight
  <2>4. Link(c) = c /\ Link(InitialChild[s]) = InitialChild[s]
    BY <2>1, <2>3 DEF ChartInv, LinksRight
  <2>5. c = InitialChild[s]
    BY <1>3, <1>12, <2>2, <2>4 DEF Link, Below
  <2>6. next = c /\ next # NULL
    BY <1>4, <2>1, <2>2, <2>5
  <2>. QED BY <1>5, <1>7, <2>6 DEF Holds
<1>13. EntryAhead'
  <2>1. PICK Q : Q = {}
    OBVIOUS
  <2>2. InFlight' \subseteq InFlight \cup Q /\ \A q \in Q : stamp'[q] # kNeverTicked
    BY <2>1, EnterChildKeeps
  <2>3. life' \in {"live", "dying"} /\ EntryAhead
    BY <1>1, <1>2 DEF HookInv
  <2>4. \A c \in active' : c \in active /\ (c \in seated => c \in seated')
    BY <1>2
  <2>5. \A r \in Region : stamp'[r] = kNeverTicked => stamp[r] = kNeverTicked
    BY <1>2
  <2>6. \A k \in DOMAIN new : new[k].op # "initial_entry"
    BY <1>7
  <2>. QED BY <1>6, <2>2, <2>3, <2>4, <2>5, <2>6, EntryAheadKept
<1>14. todo[1].op # "wake" /\ \A r \in Region : stamp'[r] = kNeverTicked => stamp[r] = kNeverTicked
  BY <1>1, <1>2
<1>15. \A i \in DOMAIN new, j \in DOMAIN todo : j > 1 => HookOrder(new[i], todo[j])
  BY <1>9
<1>16. UNCHANGED <<life, active, seated>> /\ \A k \in DOMAIN new : SeatRight(new[k])
  BY <1>2, <1>11
<1>. QED BY <1>6, <1>8, <1>12, <1>13, <1>14, <1>15, <1>16, HookPush

\* The region r, the n-th, wakes, then the next one is looked at.
BeginsWith(f, r, n) ==
  \/ stamp[r] = kNeverTicked /\ f.op = "wake" /\ f.state = Initial[r] /\ f.first = TRUE
  \/ f.op = "initial_entry" /\ f.at = n + 1

Begins(new, r, n) ==
  \A k \in DOMAIN new : BeginsWith(new[k], r, n) /\ (new[k].op = "wake" => k = 1)

\* run_initial_entry wakes the region that is next, unless it was marked.
LEMMA InitialEntryShape ==
  ASSUME ChartInv, run_initial_entry, NEW n, n = todo[1].at, NEW r, r = Regions[n]
  PROVE  /\ ~Idle /\ todo[1].op = "initial_entry" /\ 1 \in DOMAIN todo /\ life \in {"live", "dying"}
         /\ UNCHANGED <<life, active, seated, stamp>>
         /\ n \in 1 .. Len(Regions) /\ Len(Regions) \in Nat /\ DOMAIN Regions = 1 .. Len(Regions) /\ r \in Region
         /\ Initial[r] \in State /\ RegionOf[Initial[r]] = r /\ Parent[Initial[r]] = NULL
         /\ \A j \in DOMAIN todo : ~(j > 1)
         /\ \E new \in Seq(Frame) : Moves(new, 1) /\ Begins(new, r, n)
<1>. PICK w, e : w = wake(Initial[r], NULL, TRUE) /\ e = initial_entry(n + 1)
  OBVIOUS
<1>1. /\ ~Idle /\ Head(todo) = todo[1] /\ todo[1].op = "initial_entry" /\ todo[1] \in Frame
      /\ 1 \in DOMAIN todo /\ TypesRight /\ life \in {"live", "dying"}
  BY HeadOf DEF run_initial_entry
<1>2. /\ todo' = (IF stamp[r] = kNeverTicked THEN <<wake(Initial[r], NULL, TRUE)>> ELSE <<>>)
                   \o (IF n < Len(Regions) THEN <<initial_entry(n + 1)>> ELSE <<>>) \o Tail(todo)
      /\ UNCHANGED <<life, active, seated, stamp>>
  BY <1>1 DEF run_initial_entry, configVars
<1>3. /\ n \in 1 .. Len(Regions) /\ Len(Regions) \in Nat /\ DOMAIN Regions = 1 .. Len(Regions) /\ r \in Region
      /\ Initial[r] \in State /\ RegionOf[Initial[r]] = r /\ Parent[Initial[r]] = NULL
  <2>1. n \in DOMAIN Regions /\ Regions \in Seq(Region)
    BY <1>1, FrameFacts, ChartAssumption
  <2>2. r \in Region
    BY <2>1, SeqElement
  <2>3. Initial[r] \in State /\ RegionOf[Initial[r]] = r /\ Parent[Initial[r]] = NULL
    BY <2>2, ChartAssumption
  <2>4. DOMAIN Regions = 1 .. Len(Regions) /\ Len(Regions) \in Nat
    BY <2>1
  <2>. QED BY <2>1, <2>2, <2>3, <2>4
<1>4. \A j \in DOMAIN todo : ~(j > 1)
  <2>1. Len(todo) = 1
    BY <1>1 DEF ChartInv, PlacesRight
  <2>2. DOMAIN todo = 1 .. Len(todo)
    BY <1>1, Popped
  <2>. QED BY <2>1, <2>2
<1>5. w \in Frame /\ w.op = "wake" /\ w.state = Initial[r] /\ w.first = TRUE
  BY <1>3, FrameTypes DEF wake
<1>6. e.op = "initial_entry" /\ e.at = n + 1 /\ (n < Len(Regions) => e \in Frame)
  <2>1. n < Len(Regions) => n + 1 \in DOMAIN Regions
    BY <1>3
  <2>. QED BY <2>1 DEF initial_entry, Frame
<1>7. PICK new \in Seq(Frame) :
        /\ todo' = new \o Tail(todo)
        /\ \A k \in DOMAIN new : \/ k = 1 /\ new[k] = w /\ stamp[r] = kNeverTicked
                                 \/ k = Len(new) /\ new[k] = e
  <2>1. PICK chain : Optional(chain, stamp[r] = kNeverTicked, w)
                     /\ chain = IF stamp[r] = kNeverTicked THEN <<w>> ELSE <<>>
    BY <1>5, OneOrNone
  <2>2. PICK rest : Optional(rest, n < Len(Regions), e)
                    /\ rest = IF n < Len(Regions) THEN <<e>> ELSE <<>>
    <3>1. CASE n < Len(Regions)
      <4>1. PICK x : x = <<e>> /\ x \in Seq(Frame) /\ Len(x) = 1 /\ x[1] = e
        BY <1>6, <3>1, One
      <4>2. Optional(x, n < Len(Regions), e)
        BY <3>1, <4>1 DEF Optional
      <4>. QED BY <3>1, <4>1, <4>2
    <3>2. CASE ~(n < Len(Regions))
      <4>1. PICK x : x = <<>> /\ x \in Seq(Frame) /\ Len(x) = 0
        BY None0
      <4>2. Optional(x, n < Len(Regions), e)
        BY <3>2, <4>1 DEF Optional
      <4>. QED BY <3>2, <4>1, <4>2
    <3>. QED BY <3>1, <3>2
  <2>3. todo' = (chain \o rest) \o Tail(todo)
    BY <1>2, <2>1, <2>2
  <2>4. PICK new : new = chain \o rest
    OBVIOUS
  <2>5. /\ new \in Seq(Frame) /\ Len(new) = Len(chain) + Len(rest) /\ DOMAIN new = 1 .. Len(chain) + Len(rest)
        /\ \A k \in 1 .. Len(chain) : new[k] = chain[k]
        /\ \A k \in Len(chain) + 1 .. Len(chain) + Len(rest) : new[k] = rest[k - Len(chain)]
    <3>1. chain \in Seq(Frame) /\ rest \in Seq(Frame)
      BY <2>1, <2>2 DEF Optional
    <3>. QED BY <2>4, <3>1, Pushed
  <2>6. ASSUME NEW k \in DOMAIN new
        PROVE  \/ k = 1 /\ new[k] = w /\ stamp[r] = kNeverTicked
               \/ k = Len(new) /\ new[k] = e
    <3>1. CASE k \in 1 .. Len(chain)
      BY <2>1, <2>5, <3>1 DEF Optional
    <3>2. CASE k \notin 1 .. Len(chain)
      <4>1. k \in Len(chain) + 1 .. Len(chain) + Len(rest) /\ Len(chain) \in {0, 1} /\ Len(rest) \in {0, 1}
        <5>1. Len(chain) \in {0, 1} /\ Len(rest) \in {0, 1}
          BY <2>1, <2>2 DEF Optional
        <5>2. k \in 1 .. Len(chain) + Len(rest)
          BY <2>5, <2>6
        <5>3. PICK i, j : i = Len(chain) /\ j = Len(rest)
          OBVIOUS
        <5>4. i \in {0, 1} /\ j \in {0, 1} /\ k \in 1 .. i + j /\ k \notin 1 .. i
          BY <3>2, <5>1, <5>2, <5>3
        <5>5. k \in i + 1 .. i + j
          BY <5>4
        <5>. QED BY <5>1, <5>3, <5>5
      <4>2. PICK i, j : i = Len(chain) /\ j = Len(rest)
        OBVIOUS
      <4>3. k - i \in 1 .. j /\ k = i + j
        BY <4>1, <4>2
      <4>. QED BY <2>2, <2>5, <4>1, <4>2, <4>3 DEF Optional
    <3>. QED BY <3>1, <3>2
  <2>. QED BY <2>3, <2>4, <2>5, <2>6
<1>8. Moves(new, 1)
  BY <1>1, <1>7, MovesHead
<1>9. Begins(new, r, n)
  BY <1>5, <1>6, <1>7 DEF Begins, BeginsWith
<1>. QED BY <1>1, <1>2, <1>3, <1>4, <1>8, <1>9

\* The region is seated as a whole, and no chain is in it.
LEMMA HookInitialEntry ==
  ASSUME ChartInv, HookInv, run_initial_entry
  PROVE  HookInv'
<1>. PICK n, r : n = todo[1].at /\ r = Regions[n]
  OBVIOUS
<1>1. /\ ~Idle /\ todo[1].op = "initial_entry" /\ 1 \in DOMAIN todo /\ life \in {"live", "dying"}
  BY InitialEntryShape
<1>2. UNCHANGED <<life, active, seated, stamp>>
  BY InitialEntryShape
<1>3. /\ n \in 1 .. Len(Regions) /\ Len(Regions) \in Nat /\ DOMAIN Regions = 1 .. Len(Regions) /\ r \in Region
      /\ Initial[r] \in State /\ RegionOf[Initial[r]] = r /\ Parent[Initial[r]] = NULL
  BY InitialEntryShape
<1>4. \A j \in DOMAIN todo : ~(j > 1)
  BY InitialEntryShape
<1>5. PICK new \in Seq(Frame) : Moves(new, 1) /\ Begins(new, r, n)
  BY InitialEntryShape
<1>6. \A k \in DOMAIN new : BeginsWith(new[k], r, n) /\ (k # 1 => new[k].op \notin ChainOps)
  BY <1>5 DEF Begins, ChainOps, BeginsWith
<1>7. Moves(new, 1)
  BY <1>5
<1>9. stamp[r] = kNeverTicked =>
        /\ r \notin InFlight /\ \A s \in active : RegionOf[s] = r => s \in seated
        /\ Initial[r] \in seated
  <2>1. SUFFICES ASSUME stamp[r] = kNeverTicked
                 PROVE  /\ r \notin InFlight /\ \A s \in active : RegionOf[s] = r => s \in seated
                        /\ Initial[r] \in seated
    OBVIOUS
  <2>2. r \notin InFlight /\ \A s \in active : RegionOf[s] = r => s \in seated
    BY <1>1, <1>3, <2>1 DEF HookInv, EntryAhead
  <2>3. Initial[r] \in active
    BY <1>1, <1>3, <2>1 DEF ChartInv, UnmarkedRight
  <2>. QED BY <1>3, <2>2, <2>3
<1>10. \A i, j \in DOMAIN new : i < j => HookOrder(new[i], new[j])
  <2>1. ASSUME NEW i \in DOMAIN new, NEW j \in DOMAIN new, i < j PROVE HookOrder(new[i], new[j])
    <3>1. new[j].op \notin ChainOps
      <4>1. j # 1
        BY <1>7, <2>1 DEF Moves
      <4>. QED BY <1>6, <4>1
    <3>. QED BY <3>1 DEF HookOrder
  <2>. QED BY <2>1
<1>11. \A i \in DOMAIN new, j \in DOMAIN todo : j > 1 => HookOrder(new[i], todo[j])
  BY <1>4
<1>12. \A k \in DOMAIN new : SeatRight(new[k])
  BY <1>3, <1>6, <1>9 DEF SeatRight, IsHook, BeginsWith
<1>13. \A i \in DOMAIN todo' : BeginsWith(todo'[i], r, n)
  <2>1. \A i \in DOMAIN todo' : i \in DOMAIN new
    BY <1>4, <1>7, Origin
  <2>. QED BY <1>6, <1>7, <2>1 DEF Moves
<1>14. EntryAhead'
  <2>1. SUFFICES ASSUME NEW i \in DOMAIN todo', todo'[i].op = "initial_entry", NEW m \in DOMAIN Regions,
                        todo'[i].at <= m, stamp[Regions[m]] = kNeverTicked
                 PROVE  /\ Regions[m] \notin InFlight'
                        /\ \A s \in active : RegionOf[s] = Regions[m] => s \in seated
    BY <1>1, <1>2 DEF EntryAhead
  <2>2. n + 1 <= m
    BY <1>13, <2>1 DEF BeginsWith
  <2>3. todo[1].at <= m
    BY <1>3, <2>2
  <2>4. Regions[m] # r
    BY <1>3, <2>2, ChartAssumption DEF IsInjective
  <2>5. \A s \in active : RegionOf[s] = Regions[m] => s \in seated
    BY <1>1, <2>1, <2>3 DEF HookInv, EntryAhead
  <2>6. ASSUME NEW j \in DOMAIN todo', todo'[j].op \in ChainOps PROVE RegionOf[todo'[j].state] = r
    BY <1>3, <1>13, <2>6 DEF ChainOps, BeginsWith
  <2>7. Regions[m] \notin InFlight'
    BY <2>4, <2>6 DEF InFlight
  <2>. QED BY <2>5, <2>7
<1>15. todo[1].op # "wake" /\ todo[1].op # "enter_child"
  BY <1>1
<1>. QED BY <1>2, <1>7, <1>10, <1>11, <1>12, <1>14, <1>15, HookPush

\* x leaves with the first m frames, then the target's side enters.
Transits(new, x, m, r) ==
  /\ Moves(new, 1) /\ DOMAIN new = 1 .. m + 2
  /\ x = NULL => m = 0
  /\ x # NULL => m = 5 /\ Leaves(new, x) /\ Leaving(x) /\ RegionOf[x] = r
  /\ x # NULL => Parent[x] = NULL \/ Parent[x] \in active
  /\ new[m + 1].op = "wake" /\ new[m + 1].first = FALSE /\ RegionOf[new[m + 1].state] = r
  /\ new[m + 2].op = "deliver"

\* execute_transition: the old side leaves, the target's side enters, and no
\* chain is in the region yet.
LEMMA ExecuteShape ==
  ASSUME ChartInv, HookInv, ~ReentrantEntry, NextRegion, NEW r \in Region, ~marked(r),
         NEW n \in DOMAIN Transitions,
         Transitions[n].event = todo[1].event, RegionOf[Transitions[n].target] = r,
         execute_transition(r, Transitions[n].target, rest_of_delivery),
         UNCHANGED <<life, tick, poisoned, configVars, watcherVars>>
  PROVE  /\ ~Idle /\ todo[1].op = "deliver" /\ r \notin InFlight /\ life = "live"
         /\ UNCHANGED <<life, active, seated>>
         /\ stamp'[r] # kNeverTicked /\ \A q \in Region : q # r => stamp'[q] = stamp[q]
         /\ \E x \in State \cup {NULL}, m \in {0, 5}, new \in Seq(Frame) : Transits(new, x, m, r)
<1>. PICK t, a, x, y : /\ t = Transitions[n].target /\ a = Deepest((Chain(r) \cap Up[t]) \ {t})
                       /\ x = Below(r, a) /\ y = Toward(a, t)
  OBVIOUS
<1>1. r \notin InFlight /\ life = "live"
  BY UnmarkedIdle
<1>2. t \in State /\ RegionOf[t] = r /\ NULL \notin State
  BY PairFacts, ChartAssumption
<1>3. /\ a = NULL \/ a \in active
      /\ x = NULL \/ (x \in active /\ x \in State /\ Link(x) = x /\ Parent[x] = a /\ RegionOf[x] = r)
      /\ y \in State /\ RegionOf[y] = r
  BY <1>1, <1>2, TransitionShape
<1>4. UNCHANGED <<life, active, seated>> /\ stamp' = [stamp EXCEPT ![r] = tick]
  BY DEF configVars, execute_transition
<1>5. /\ TypesRight /\ todo[1].op = "deliver" /\ todo[1] \in Frame /\ ~Idle /\ 1 \in DOMAIN todo
      /\ stamp \in [Region -> kNeverTicked .. MaxTick] /\ tick \in 0 .. MaxTick
  BY RestOfDelivery DEF ChartInv, TypesRight
<1>6. stamp'[r] # kNeverTicked /\ \A q \in Region : q # r => stamp'[q] = stamp[q]
  BY <1>4, <1>5 DEF kNeverTicked
<1>7. PICK w, e, rest :
        /\ w = wake(y, t, FALSE) /\ e = deliver(todo[1].event, todo[1].at + 1) /\ rest = Tail(todo)
        /\ w \in Frame /\ e \in Frame /\ rest \in Seq(Frame)
        /\ w.op = "wake" /\ w.state = y /\ w.first = FALSE /\ e.op = "deliver"
        /\ rest_of_delivery = <<e>> \o rest
  <2>1. wake(y, t, FALSE) \in Frame
    BY <1>2, <1>3, FrameTypes
  <2>2. Tail(todo) \in Seq(Frame)
    BY <1>5, Popped
  <2>3. /\ deliver(todo[1].event, todo[1].at + 1) \in Frame
        /\ rest_of_delivery = <<deliver(todo[1].event, todo[1].at + 1)>> \o Tail(todo)
    BY RestOfDelivery
  <2>4. PICK w, e, rest : /\ w = wake(y, t, FALSE) /\ e = deliver(todo[1].event, todo[1].at + 1)
                          /\ rest = Tail(todo)
    OBVIOUS
  <2>5. w.op = "wake" /\ w.state = y /\ w.first = FALSE /\ e.op = "deliver"
    BY <2>4 DEF wake, deliver
  <2>. QED BY <2>1, <2>2, <2>3, <2>4, <2>5
<1>8. PICK exits \in Seq(Frame) :
        /\ exits = IF x = NULL THEN <<>> ELSE Append(exit_state(x), detach(x))
        /\ x = NULL => Len(exits) = 0
        /\ x # NULL => Len(exits) = 5 /\ DOMAIN exits = 1 .. 5 /\ Leaves(exits, x)
  BY <1>3, LeavesFrames
<1>9. todo' = (exits \o <<w>>) \o (<<e>> \o rest)
  <2>1. todo' = (IF x = NULL THEN <<>> ELSE Append(exit_state(x), detach(x))) \o <<w>> \o rest_of_delivery
    BY <1>7 DEF execute_transition
  <2>. QED BY <1>7, <1>8, <2>1
<1>10. PICK new : Joins(new, exits, w, e, rest)
  BY <1>7, Joined
<1>11. PICK m : m = Len(exits)
  OBVIOUS
<1>12. /\ new \in Seq(Frame) /\ DOMAIN new = 1 .. m + 2 /\ new[m + 1] = w /\ new[m + 2] = e
       /\ \A k \in 1 .. m : new[k] = exits[k]
       /\ todo' = new \o Tail(todo) /\ m \in Nat
  BY <1>7, <1>9, <1>10, <1>11 DEF Joins
<1>13. m \in {0, 5} /\ (x = NULL => m = 0) /\ (x # NULL => m = 5 /\ Leaves(new, x))
  <2>1. CASE x = NULL
    BY <1>8, <1>11, <2>1
  <2>2. CASE x # NULL
    <3>1. m = 5 /\ Leaves(exits, x)
      BY <1>8, <1>11, <2>2
    <3>2. 1 .. 5 \subseteq DOMAIN new /\ \A k \in 1 .. 5 : new[k] = exits[k]
      BY <1>12, <3>1
    <3>3. ExitFrames(new, x)
      BY <3>1, <3>2 DEF Leaves, ExitFrames
    <3>4. \A k \in 1 .. 5 : ~IsHook(new[k]) /\ new[k].op \notin EnterOps /\ SeatRight(new[k])
      BY <3>1, <3>2 DEF Leaves
    <3>. QED BY <2>2, <3>1, <3>3, <3>4 DEF Leaves
  <2>. QED BY <2>1, <2>2
<1>14. Moves(new, 1)
  BY <1>5, <1>12, MovesHead
<1>15. x # NULL => Leaving(x)
  <2>1. SUFFICES ASSUME x # NULL, NEW j \in DOMAIN todo, todo[j].op \in ChainOps, todo[j].state = x
                 PROVE  FALSE
    BY <1>3 DEF Leaving, Holds, IsHook, ChainOps
  <2>. QED BY <1>1, <1>3, <2>1 DEF InFlight
<1>16. x # NULL => Parent[x] = NULL \/ Parent[x] \in active
  BY <1>3
<1>17. Transits(new, x, m, r)
  BY <1>3, <1>7, <1>12, <1>13, <1>14, <1>15, <1>16 DEF Transits
<1>. QED BY <1>1, <1>3, <1>4, <1>5, <1>6, <1>12, <1>13, <1>17

LEMMA HookExecute ==
  ASSUME ChartInv, HookInv, ~ReentrantEntry, NextRegion, NEW r \in Region, ~marked(r),
         NEW n \in DOMAIN Transitions,
         Transitions[n].event = todo[1].event, RegionOf[Transitions[n].target] = r,
         execute_transition(r, Transitions[n].target, rest_of_delivery),
         UNCHANGED <<life, tick, poisoned, configVars, watcherVars>>
  PROVE  HookInv'
<1>1. /\ ~Idle /\ todo[1].op = "deliver" /\ r \notin InFlight /\ life = "live"
      /\ UNCHANGED <<life, active, seated>>
      /\ stamp'[r] # kNeverTicked /\ \A q \in Region : q # r => stamp'[q] = stamp[q]
  BY ExecuteShape
<1>2. PICK x \in State \cup {NULL}, m \in {0, 5}, new \in Seq(Frame) : Transits(new, x, m, r)
  BY ExecuteShape
<1>3. /\ Moves(new, 1) /\ DOMAIN new = 1 .. m + 2
      /\ x = NULL => m = 0
      /\ x # NULL => m = 5 /\ Leaves(new, x) /\ RegionOf[x] = r
      /\ new[m + 1].op = "wake" /\ new[m + 1].first = FALSE /\ RegionOf[new[m + 1].state] = r
      /\ new[m + 2].op = "deliver"
  BY <1>2 DEF Transits
<1>4. ASSUME NEW k \in DOMAIN new
      PROVE  /\ \/ k <= m /\ new[k].op \notin EnterOps /\ RegionOf[new[k].state] = r /\ new[k].op # "deliver"
                \/ k = m + 1 /\ new[k].op = "wake" /\ RegionOf[new[k].state] = r
                \/ k = m + 2 /\ new[k].op = "deliver"
             /\ ~IsHook(new[k]) /\ SeatRight(new[k]) /\ new[k].op # "initial_entry"
  <2>1. CASE k = m + 1
    BY <1>3, <2>1 DEF SeatRight, IsHook
  <2>2. CASE k = m + 2
    BY <1>3, <2>2 DEF SeatRight, IsHook
  <2>3. CASE k # m + 1 /\ k # m + 2
    <3>1. k <= m /\ m = 5 /\ k \in 1 .. 5 /\ x # NULL
      BY <1>3, <2>3
    <3>2. Leaves(new, x) /\ ExitFrames(new, x)
      BY <1>3, <3>1 DEF Leaves
    <3>. QED BY <1>3, <3>1, <3>2, ExitFrameOps DEF Leaves
  <2>. QED BY <2>1, <2>2, <2>3
<1>5. \A i, j \in DOMAIN new : i < j => HookOrder(new[i], new[j])
  <2>1. ASSUME NEW i \in DOMAIN new, NEW j \in DOMAIN new, i < j PROVE HookOrder(new[i], new[j])
    <3>1. CASE new[j].op = "deliver"
      BY <3>1 DEF HookOrder, ChainOps
    <3>2. CASE new[j].op # "deliver"
      <4>1. i < m + 1
        BY <1>3, <1>4, <2>1, <3>2
      <4>2. new[i].op \notin EnterOps /\ ~IsHook(new[i]) /\ ~IsHook(new[j])
        BY <1>3, <1>4, <4>1
      <4>. QED BY <4>2 DEF HookOrder
    <3>. QED BY <3>1, <3>2
  <2>. QED BY <2>1
<1>6. \A i \in DOMAIN new, j \in DOMAIN todo : j > 1 => HookOrder(new[i], todo[j])
  <2>1. ASSUME NEW i \in DOMAIN new, new[i].op \in ChainOps PROVE RegionOf[new[i].state] = r
    BY <1>4, <2>1 DEF ChainOps
  <2>2. \A j \in DOMAIN todo : todo[j].op \in ChainOps => RegionOf[todo[j].state] # r
    BY <1>1 DEF InFlight
  <2>. QED BY <2>1, <2>2 DEF HookOrder
<1>7. EntryAhead'
  <2>1. PICK Q : Q = {r}
    OBVIOUS
  <2>2. \A k \in DOMAIN new : new[k].op \in ChainOps => RegionOf[new[k].state] \in InFlight \cup Q
    BY <1>4, <2>1 DEF ChainOps
  <2>3. InFlight' \subseteq InFlight \cup Q /\ \A q \in Q : stamp'[q] # kNeverTicked
    BY <1>1, <1>3, <2>1, <2>2, FlightKept
  <2>4. life' \in {"live", "dying"} /\ EntryAhead
    BY <1>1 DEF HookInv
  <2>5. \A c \in active' : c \in active /\ (c \in seated => c \in seated')
    BY <1>1
  <2>6. \A q \in Region : stamp'[q] = kNeverTicked => stamp[q] = kNeverTicked
    BY <1>1
  <2>. QED BY <1>3, <1>4, <2>3, <2>4, <2>5, <2>6, EntryAheadKept
<1>8. /\ todo[1].op # "wake" /\ todo[1].op # "enter_child"
      /\ \A q \in Region : stamp'[q] = kNeverTicked => stamp[q] = kNeverTicked
  BY <1>1
<1>. QED BY <1>1, <1>3, <1>4, <1>5, <1>6, <1>7, <1>8, HookPush

\* What evaluate_region comes to: nothing, or the transition of a pair.
LEMMA EvaluateShape ==
  ASSUME ChartInv, evaluate_region
  PROVE  /\ NextRegion /\ UNCHANGED <<life, tick, poisoned, configVars, watcherVars>>
         /\ \/ todo' = rest_of_delivery /\ UNCHANGED stamp
            \/ \E r \in Region, n \in DOMAIN Transitions :
                 /\ ~marked(r)
                 /\ Transitions[n].event = todo[1].event /\ RegionOf[Transitions[n].target] = r
                 /\ execute_transition(r, Transitions[n].target, rest_of_delivery)
<1>. PICK e, r, all : e = todo[1].event /\ r = Regions[todo[1].at] /\ all = Candidates(r, e)
  OBVIOUS
<1>1. NextRegion /\ Head(todo) = todo[1]
  BY RestOfDelivery DEF evaluate_region
<1>2. PICK C \in SUBSET all :
        /\ ~marked(r)
        /\ IF C = {} \/ poisoned THEN todo' = rest_of_delivery /\ UNCHANGED stamp
           ELSE execute_transition(r, Transitions[Winner(C)].target, rest_of_delivery)
  BY <1>1 DEF evaluate_region
<1>3. UNCHANGED <<life, tick, poisoned, configVars, watcherVars>>
  BY DEF evaluate_region
<1>4. CASE C = {} \/ poisoned
  BY <1>1, <1>2, <1>3, <1>4
<1>5. CASE ~(C = {} \/ poisoned)
  <2>1. /\ C \in SUBSET DOMAIN Transitions /\ C # {}
        /\ \A n \in C : Transitions[n].event = e /\ RegionOf[Transitions[n].target] = r
    BY <1>5 DEF Candidates, Matching
  <2>2. PICK n : n = Winner(C)
    OBVIOUS
  <2>3. n \in C
    BY <2>1, <2>2, WinnerIn
  <2>4. n \in DOMAIN Transitions /\ Transitions[n].event = todo[1].event /\ RegionOf[Transitions[n].target] = r
    BY <2>1, <2>3
  <2>5. r \in Region
    BY <2>4, PairFacts, ParentType
  <2>6. execute_transition(r, Transitions[n].target, rest_of_delivery)
    BY <1>2, <1>5, <2>2
  <2>. QED BY <1>1, <1>2, <1>3, <2>4, <2>5, <2>6
<1>. QED BY <1>4, <1>5

LEMMA HookEvaluate ==
  ASSUME ChartInv, HookInv, ~ReentrantEntry, evaluate_region
  PROVE  HookInv'
<1>1. NextRegion /\ UNCHANGED <<life, tick, poisoned, configVars, watcherVars>>
  BY EvaluateShape
<1>2. CASE todo' = rest_of_delivery /\ UNCHANGED stamp
  BY <1>1, <1>2, HookNextRegion
<1>3. CASE ~(todo' = rest_of_delivery /\ UNCHANGED stamp)
  <2>1. PICK r \in Region, n \in DOMAIN Transitions :
          /\ ~marked(r)
          /\ Transitions[n].event = todo[1].event /\ RegionOf[Transitions[n].target] = r
          /\ execute_transition(r, Transitions[n].target, rest_of_delivery)
    BY <1>3, EvaluateShape
  <2>. QED BY <1>1, <2>1, HookExecute
<1>. QED BY <1>2, <1>3

\* The steps taken while nothing is on the stack, but for the first.
IdleSteps == start_initial_entry \/ run_watchers \/ exit_host_machines \/ flush_despawn \/ next_tick

LEMMA IdleShape ==
  ASSUME ChartInv, IdleSteps
  PROVE  /\ Idle /\ life # "none" /\ life' # "none" /\ UNCHANGED <<active, seated>>
         /\ \A i \in DOMAIN todo' : todo'[i].op \in EmptyOps
         /\ \A r \in Region : stamp'[r] = kNeverTicked => stamp[r] = kNeverTicked
         /\ start_initial_entry \/
              (/\ life' = "deferred" => life = "deferred"
               /\ \A i \in DOMAIN todo' : todo'[i].op # "initial_entry")
<1>1. CASE start_initial_entry
  <2>1. /\ Idle /\ life = "deferred" /\ life' = "live" /\ todo' = <<initial_entry(1)>>
        /\ UNCHANGED <<active, seated, stamp>>
    BY <1>1 DEF start_initial_entry, configVars
  <2>2. initial_entry(1).op = "initial_entry"
    BY DEF initial_entry
  <2>3. \A i \in DOMAIN todo' : todo'[i].op = "initial_entry"
    BY <2>1, <2>2
  <2>. QED BY <1>1, <2>1, <2>3 DEF EmptyOps
<1>2. CASE run_watchers
  <2>1. /\ Idle /\ life = "live" /\ life' = "live" /\ UNCHANGED <<active, seated, stamp>>
        /\ todo' = [i \in 1 .. Cardinality(Due) |-> watch(Nth(Due, i))]
    BY <1>2 DEF run_watchers, configVars
  <2>2. \A i \in DOMAIN todo' : todo'[i].op = "watch"
    BY <2>1 DEF watch
  <2>. QED BY <2>1, <2>2 DEF EmptyOps
<1>3. CASE exit_host_machines
  <2>1. /\ Idle /\ life \in {"live", "dying"} /\ life' = "dying" /\ UNCHANGED <<active, seated>>
        /\ stamp' = [r \in Region |-> tick]
        /\ todo' = [i \in DOMAIN Regions |-> exit_region(Regions[Len(Regions) - i + 1])]
    BY <1>3 DEF exit_host_machines, configVars
  <2>2. \A i \in DOMAIN todo' : todo'[i].op = "exit_region"
    BY <2>1 DEF exit_region
  <2>3. tick # kNeverTicked
    BY DEF ChartInv, TypesRight, kNeverTicked
  <2>. QED BY <2>1, <2>2, <2>3 DEF EmptyOps
<1>4. CASE flush_despawn \/ next_tick
  <2>1. /\ Idle /\ life \in {"live", "dying"} /\ life' \in {"live", "dead"}
        /\ UNCHANGED <<active, seated, stamp, todo>>
    BY <1>4 DEF flush_despawn, next_tick, configVars
  <2>2. DOMAIN todo' = {}
    BY <2>1 DEF Idle
  <2>. QED BY <2>1, <2>2
<1>. QED BY <1>1, <1>2, <1>3, <1>4 DEF IdleSteps

LEMMA HookIdleSteps ==
  ASSUME ChartInv, HookInv, IdleSteps
  PROVE  HookInv'
<1>1. /\ Idle /\ UNCHANGED <<active, seated>>
      /\ \A i \in DOMAIN todo' : todo'[i].op \in EmptyOps
      /\ \A r \in Region : stamp'[r] = kNeverTicked => stamp[r] = kNeverTicked
  BY IdleShape
<1>2. CASE start_initial_entry
  <2>1. life = "deferred" /\ life' = "live"
    BY <1>2 DEF start_initial_entry
  <2>2. active \subseteq seated
    BY <2>1 DEF HookInv, EntryAhead
  <2>3. InFlight' = {}
    BY <1>1 DEF InFlight, EmptyOps, ChainOps
  <2>4. EntryAhead'
    BY <1>1, <2>1, <2>2, <2>3 DEF EntryAhead
  <2>. QED BY <1>1, <2>4, HookIdle
<1>3. CASE ~start_initial_entry
  BY <1>1, <1>3, IdleShape, HookIdleQuiet
<1>. QED BY <1>2, <1>3

\* instantiate seats whole chains.
LEMMA SeatShape ==
  ASSUME ChartInv, NEW deferred \in BOOLEAN, instantiate(deferred)
  PROVE  /\ Idle /\ life = "none" /\ life' \in {"deferred", "live"} /\ active = {}
         /\ active' = InitialChain /\ seated' = InitialChain
         /\ \A i \in DOMAIN todo' : todo'[i].op = "initial_entry"
<1>1. /\ Idle /\ life = "none" /\ life' \in {"deferred", "live"}
      /\ active' = InitialChain /\ seated' = InitialChain
      /\ todo' = (IF deferred THEN <<>> ELSE <<initial_entry(1)>>)
  BY DEF instantiate
<1>2. active = {}
  BY <1>1 DEF ChartInv, LifeRight
<1>3. initial_entry(1).op = "initial_entry"
  BY DEF initial_entry
<1>4. \A i \in DOMAIN todo' : todo'[i].op = "initial_entry"
  <2>1. CASE deferred
    BY <1>1, <2>1
  <2>2. CASE ~deferred
    BY <1>1, <1>3, <2>2
  <2>. QED BY <2>1, <2>2
<1>. QED BY <1>1, <1>2, <1>4

LEMMA HookInstantiate ==
  ASSUME ChartInv, NEW deferred \in BOOLEAN, instantiate(deferred)
  PROVE  HookInv'
<1>1. /\ active' = InitialChain /\ seated' = InitialChain
      /\ \A i \in DOMAIN todo' : todo'[i].op = "initial_entry"
  BY SeatShape
<1>2. \A i \in DOMAIN todo' : todo'[i].op \notin ChainOps
  BY <1>1 DEF ChainOps
<1>3. HooksInRow'
  BY <1>2 DEF HooksInRow, HookOrder
<1>4. SeatsRight'
  BY <1>2 DEF SeatsRight, SeatRight, IsHook, ChainOps
<1>5. SeatsEnter'
  BY <1>1, InitialChainDown DEF SeatsEnter
<1>6. InFlight' = {}
  BY <1>2 DEF InFlight
<1>7. EntryAhead' /\ SeatsWhole'
  BY <1>1, <1>6 DEF EntryAhead, SeatsWhole
<1>. QED BY <1>3, <1>4, <1>5, <1>7 DEF HookInv

LEMMA HookAside ==
  ASSUME HookInv, UNCHANGED <<life, active, seated, stamp, todo>>
  PROVE  HookInv'
<1>1. InFlight' = InFlight
  BY DEF InFlight
<1>2. HooksInRow' /\ SeatsRight' /\ SeatsEnter'
  BY DEF HookInv, HooksInRow, SeatsRight, SeatsEnter, After, Holds, SeatRight
<1>3. EntryAhead' /\ SeatsWhole'
  BY <1>1 DEF HookInv, EntryAhead, SeatsWhole
<1>. QED BY <1>2, <1>3 DEF HookInv

LEMMA HookStep ==
  ASSUME ChartInv, HookInv, ~ReentrantEntry, [ChartNext]_chartVars
  PROVE  HookInv'
<1>1. CASE \E deferred \in BOOLEAN : instantiate(deferred)
  BY <1>1, HookInstantiate
<1>2. CASE \E e \in Event : trigger(e)
  BY <1>2, HookTrigger
<1>3. CASE hook_return
  BY <1>3, HookReturn
<1>4. CASE Running
  <2>1. CASE void_marked_region
    BY <2>1, HookNextRegion DEF void_marked_region
  <2>. QED BY <1>4, <2>1, HookInitialEntry, HookEvaluate, HookEndDelivery, HookExitChild, HookSleep,
              HookUnlink, HookWake, HookEnterChild, HookExitRegion, HookWatcher DEF Running
<1>5. CASE IdleSteps
  BY <1>5, HookIdleSteps
<1>6. CASE poison \/ UNCHANGED chartVars
  BY <1>6, HookAside DEF poison, chartVars, configVars
<1>. QED BY <1>1, <1>2, <1>3, <1>4, <1>5, <1>6 DEF ChartNext, IdleSteps

LEMMA HooksStay ==
  ASSUME ~ReentrantEntry
  PROVE  ChartSpec => [](ChartInv /\ HookInv)
<1>1. ChartInit => HookInv
  <2>1. SUFFICES ASSUME ChartInit PROVE HookInv
    OBVIOUS
  <2>2. DOMAIN todo = {} /\ active = {} /\ seated = {} /\ life = "none"
    BY <2>1 DEF ChartInit
  <2>. QED BY <2>2 DEF HookInv, HooksInRow, SeatsRight, SeatsEnter, EntryAhead, SeatsWhole
<1>2. ChartInv /\ HookInv /\ [ChartNext]_chartVars => HookInv'
  BY HookStep
<1>. QED BY <1>1, <1>2, StackRight, PTL DEF ChartSpec

-----------------------------------------------------------------------------
\* The phase of a state, read off the frames.
Hooked(s) == \E k \in DOMAIN todo : IsHook(todo[k]) /\ todo[k].state = s

PhaseNow(s) ==
  IF s \notin active THEN "out"
  ELSE IF After(0, "sleep", s) THEN "leaving"
  ELSE IF Hooked(s) THEN "waking"
  ELSE IF s \in seated THEN "seated" ELSE "in"

LEMMA PhaseIs == TypesRight => \A s \in State : Phase(s) = PhaseNow(s)
<1>1. SUFFICES ASSUME TypesRight, NEW s \in State PROVE Phase(s) = PhaseNow(s)
  OBVIOUS
<1>2. /\ todo \in Seq(Frame) /\ DOMAIN todo = 1 .. Len(todo) /\ Len(todo) \in Nat
      /\ \A k \in DOMAIN todo : todo[k] \in Frame /\ 0 < k
  BY <1>1, SeqElement DEF TypesRight
<1>3. ASSUME NEW k \in DOMAIN todo PROVE todo[k] = sleep(s) <=> Holds(todo[k], "sleep", s)
  <2>1. todo[k] = sleep(s) => Holds(todo[k], "sleep", s)
    BY DEF sleep, Holds
  <2>2. ASSUME NEW f \in Frame, f.op = "sleep", f.state = s PROVE f = sleep(s)
    BY <2>2 DEF Frame, sleep, ExitOps, EnterOps
  <2>. QED BY <1>2, <2>1, <2>2 DEF Holds
<1>4. ASSUME NEW k \in DOMAIN todo
      PROVE  todo[k] = slot("script_enter", s) <=> (IsHook(todo[k]) /\ todo[k].state = s)
  <2>1. todo[k] = slot("script_enter", s) => IsHook(todo[k]) /\ todo[k].state = s
    BY DEF slot, IsHook
  <2>2. ASSUME NEW f \in Frame, f.op = "slot", f.name = "script_enter", f.state = s
        PROVE  f = slot("script_enter", s)
    BY <2>2 DEF Frame, slot, ExitOps, EnterOps
  <2>. QED BY <1>2, <2>1, <2>2 DEF IsHook
<1>5. Contains(todo, sleep(s)) <=> After(0, "sleep", s)
  BY <1>2, <1>3 DEF Contains, After
<1>6. Contains(todo, slot("script_enter", s)) <=> Hooked(s)
  BY <1>2, <1>4 DEF Contains, Hooked
<1>. QED BY <1>5, <1>6 DEF Phase, PhaseNow

LEMMA PhaseNext ==
  ASSUME TypesRight'
  PROVE  \A s \in State : Phase(s)' = PhaseNow(s)'
<1>1. (TypesRight => \A s \in State : Phase(s) = PhaseNow(s))'
  BY PhaseIs, PTL
<1>. QED BY <1>1

\* A state keeps its phase when no frame of it comes or goes.
Untouched(f, s) == ~Holds(f, "sleep", s) /\ ~(IsHook(f) /\ f.state = s)

LEMMA PhaseMoves ==
  ASSUME TypesRight, TypesRight', NEW new, NEW d, Moves(new, d), NEW s \in State,
         s \in active' <=> s \in active, s \in seated' <=> s \in seated,
         d = 1 => Untouched(todo[1], s),
         \A k \in DOMAIN new : Untouched(new[k], s)
  PROVE  Phase(s)' = Phase(s)
<1>1. After(0, "sleep", s)' <=> After(0, "sleep", s)
  <2>1. ASSUME After(0, "sleep", s) PROVE After(0, "sleep", s)'
    BY <2>1, Shifted DEF Untouched
  <2>2. ASSUME After(0, "sleep", s)' PROVE After(0, "sleep", s)
    <3>1. PICK q \in DOMAIN todo' : 0 < q /\ Holds(todo'[q], "sleep", s)
      BY <2>2 DEF After, Holds
    <3>2. q \notin DOMAIN new
      BY <3>1 DEF Moves, Untouched
    <3>3. PICK j \in DOMAIN todo : j > d /\ q = j + Len(new) - d
      BY <3>2, Origin
    <3>4. todo[j] = todo'[q] /\ 0 < j
      BY <3>3 DEF Moves
    <3>. QED BY <3>1, <3>4 DEF After
  <2>. QED BY <2>1, <2>2
<1>2. Hooked(s)' <=> Hooked(s)
  <2>1. ASSUME Hooked(s) PROVE Hooked(s)'
    <3>1. PICK j \in DOMAIN todo : IsHook(todo[j]) /\ todo[j].state = s
      BY <2>1 DEF Hooked
    <3>2. j > d
      <4>1. j \in 1 .. Len(todo) /\ d \in {0, 1} /\ ~(d = 1 /\ j = 1)
        BY <3>1 DEF Moves, Untouched
      <4>. QED BY <4>1
    <3>3. j + Len(new) - d \in DOMAIN todo' /\ todo'[j + Len(new) - d] = todo[j]
      BY <3>2 DEF Moves
    <3>. QED BY <3>1, <3>3 DEF Hooked, IsHook
  <2>2. ASSUME Hooked(s)' PROVE Hooked(s)
    <3>1. PICK q \in DOMAIN todo' : IsHook(todo'[q]) /\ todo'[q].state = s
      BY <2>2 DEF Hooked, IsHook
    <3>2. q \notin DOMAIN new
      BY <3>1 DEF Moves, Untouched
    <3>3. PICK j \in DOMAIN todo : j > d /\ q = j + Len(new) - d
      BY <3>2, Origin
    <3>4. todo[j] = todo'[q]
      BY <3>3 DEF Moves
    <3>. QED BY <3>1, <3>4 DEF Hooked
  <2>. QED BY <2>1, <2>2
<1>3. PhaseNow(s)' = PhaseNow(s)
  BY <1>1, <1>2 DEF PhaseNow
<1>. QED BY <1>3, PhaseIs, PhaseNext

\* The steps of the life cycle, in the words of the chart.
CycleStep == [Cycle!Next]_(Cycle!vars)

LEMMA Stands ==
  ASSUME \A s \in State : Phase(s)' = Phase(s), life # "none" <=> life' # "none"
  PROVE  CycleStep
<1>1. [s \in State |-> Phase(s)]' = [s \in State |-> Phase(s)]
  OBVIOUS
<1>2. (life # "none")' = (life # "none")
  OBVIOUS
<1>. QED BY <1>1, <1>2 DEF CycleStep, Cycle!vars

LEMMA Becomes ==
  ASSUME NEW s \in State, NEW p, Phase(s)' = p,
         \A u \in State \ {s} : Phase(u)' = Phase(u), life # "none" <=> life' # "none"
  PROVE  Cycle!Become(s, p)
<1>1. [u \in State |-> Phase(u)]' = [[u \in State |-> Phase(u)] EXCEPT ![s] = p]
  OBVIOUS
<1>2. (life # "none")' = (life # "none")
  OBVIOUS
<1>. QED BY <1>1, <1>2 DEF Cycle!Become

\* A step that touches no state's frames.
LEMMA Quiet ==
  ASSUME TypesRight, TypesRight', NEW new, NEW d, Moves(new, d), UNCHANGED <<life, active, seated>>,
         \A s \in State : /\ d = 1 => Untouched(todo[1], s)
                          /\ \A k \in DOMAIN new : Untouched(new[k], s)
  PROVE  CycleStep
<1>1. \A s \in State : Phase(s)' = Phase(s)
  BY PhaseMoves
<1>. QED BY <1>1, Stands

\* A state leaves: what is pushed is its own exit, maybe with an entry behind it.
LEMMA Left ==
  ASSUME TypesRight, TypesRight', NEW new, Moves(new, 1), UNCHANGED <<life, active, seated>>,
         \A s \in State : Untouched(todo[1], s),
         NEW c \in State, Leaves(new, c), Leaving(c),
         \A k \in DOMAIN new : k \in 1 .. 5 \/ new[k].op \in {"wake", "deliver"},
         Parent[c] = NULL \/ (Parent[c] \in active /\ ~Hooked(Parent[c]))
  PROVE  CycleStep
<1>1. ExitFrames(new, c)
  BY DEF Leaves
<1>2. ASSUME NEW u \in State \ {c} PROVE Phase(u)' = Phase(u)
  <2>1. ASSUME NEW k \in DOMAIN new PROVE Untouched(new[k], u)
    <3>1. CASE k \in 1 .. 5
      <4>1. new[k].state = c
        BY <1>1, <3>1, ExitFrameOps
      <4>. QED BY <4>1 DEF Untouched, Holds
    <3>2. CASE k \notin 1 .. 5
      BY <3>2 DEF Untouched, Holds, IsHook
    <3>. QED BY <3>1, <3>2
  <2>. QED BY <2>1, PhaseMoves
<1>3. Phase(c)' = "leaving"
  <2>1. After(0, "sleep", c)'
    <3>1. 4 \in DOMAIN new /\ Holds(new[4], "sleep", c)
      BY <1>1 DEF ExitFrames, Holds
    <3>. QED BY <3>1, Shifted
  <2>. QED BY <2>1, PhaseNext DEF PhaseNow, Leaving
<1>4. Phase(c) \in {"in", "seated"}
  <2>1. ~After(0, "sleep", c) /\ ~Hooked(c) /\ c \in active
    BY DEF Leaving, After, Hooked
  <2>. QED BY <2>1, PhaseIs DEF PhaseNow
<1>5. Parent[c] = NULL \/ (Parent[c] \in State /\ Phase(Parent[c]) \in {"seated", "in", "leaving"})
  <2>1. SUFFICES ASSUME Parent[c] # NULL PROVE Phase(Parent[c]) \in {"seated", "in", "leaving"}
    BY ParentType
  <2>. QED BY <2>1, ParentType, PhaseIs DEF PhaseNow
<1>6. Cycle!Become(c, "leaving")
  BY <1>2, <1>3, Becomes
<1>7. Cycle!Leave(c)
  BY <1>4, <1>5, <1>6 DEF Cycle!Leave, Cycle!ParentIn
<1>. QED BY <1>7 DEF CycleStep, Cycle!Next

-----------------------------------------------------------------------------
\* Step by step, what a chart does to its states is what their life cycle
\* allows.  First the steps that are none of its business.
LEMMA QuietOps ==
  ASSUME TypesRight, TypesRight', NEW new, NEW d, Moves(new, d), UNCHANGED <<life, active, seated>>,
         d = 1 => todo[1].op # "sleep" /\ ~IsHook(todo[1]),
         \A k \in DOMAIN new : new[k].op \notin {"sleep", "slot"}
  PROVE  CycleStep
  BY Quiet DEF Untouched, Holds, IsHook

LEMMA CyclePop ==
  ASSUME TypesRight, TypesRight', ~Idle, todo' = Tail(todo), UNCHANGED <<life, active, seated>>,
         todo[1].op # "sleep", ~IsHook(todo[1])
  PROVE  CycleStep
<1>1. PICK new \in Seq(Frame) : DOMAIN new = {} /\ Moves(new, 1)
  BY PopMoves
<1>. QED BY <1>1, QuietOps

LEMMA CycleNextRegion ==
  ASSUME ChartInv, TypesRight', NextRegion, todo' = rest_of_delivery, UNCHANGED <<life, active, seated>>
  PROVE  CycleStep
<1>1. /\ ~Idle /\ todo[1].op = "deliver"
      /\ deliver(todo[1].event, todo[1].at + 1) \in Frame
      /\ todo' = <<deliver(todo[1].event, todo[1].at + 1)>> \o Tail(todo)
  BY RestOfDelivery
<1>2. PICK new \in Seq(Frame) : /\ todo' = new \o Tail(todo) /\ DOMAIN new = {1}
                                /\ new[1] = deliver(todo[1].event, todo[1].at + 1)
  BY <1>1, One
<1>3. Moves(new, 1)
  BY <1>1, <1>2, MovesHead DEF ChartInv
<1>4. \A k \in DOMAIN new : new[k].op = "deliver"
  BY <1>2 DEF deliver
<1>5. TypesRight
  BY DEF ChartInv
<1>. QED BY <1>1, <1>3, <1>4, <1>5, QuietOps DEF IsHook

LEMMA CycleTrigger ==
  ASSUME TypesRight, TypesRight', NEW e \in Event, trigger(e)
  PROVE  CycleStep
<1>1. todo' = <<deliver(e, 1)>> \o todo /\ UNCHANGED <<life, active, seated>>
  BY DEF trigger, configVars
<1>2. deliver(e, 1) \in Frame
  BY DEF deliver, Frame
<1>3. PICK new \in Seq(Frame) : todo' = new \o todo /\ DOMAIN new = {1} /\ new[1] = deliver(e, 1)
  BY <1>1, <1>2, One
<1>4. Moves(new, 0)
  BY <1>1, <1>3, MovesFront
<1>5. \A k \in DOMAIN new : new[k].op = "deliver"
  BY <1>3 DEF deliver
<1>. QED BY <1>1, <1>4, <1>5, QuietOps

LEMMA CycleQuiet ==
  ASSUME ChartInv, HookInv, TypesRight',
         evaluate_watcher \/ end_delivery \/ unlink_state \/ enter_substate \/ run_initial_entry
  PROVE  CycleStep
<1>. TypesRight
  BY DEF ChartInv
<1>1. CASE evaluate_watcher
  <2>1. ~Idle /\ todo[1].op = "watch" /\ UNCHANGED <<life, active, seated>>
    BY <1>1, WatcherShape
  <2>2. PICK new \in Seq(Frame) : Moves(new, 1) /\ \A k \in DOMAIN new : new[k].op = "deliver"
    BY <1>1, WatcherShape
  <2>. QED BY <2>1, <2>2, QuietOps DEF IsHook
<1>2. CASE end_delivery
  <2>1. /\ ~Idle /\ todo[1].op = "deliver" /\ todo' = Tail(todo) /\ UNCHANGED <<life, active, seated>>
    BY <1>2, HeadOf DEF end_delivery, configVars
  <2>. QED BY <2>1, CyclePop DEF IsHook
<1>3. CASE unlink_state
  <2>1. /\ ~Idle /\ todo[1].op = "detach" /\ todo' = Tail(todo) /\ UNCHANGED <<life, active, seated>>
    BY <1>3, HeadOf DEF unlink_state
  <2>. QED BY <2>1, CyclePop DEF IsHook
<1>4. CASE enter_substate
  <2>1. ~Idle /\ todo[1].op = "enter_child" /\ UNCHANGED <<life, active, seated>>
    BY <1>4, EnterChildShape
  <2>2. PICK new \in Seq(Frame) : Moves(new, 1) /\ \A k \in DOMAIN new : new[k].op = "wake"
    BY <1>4, EnterChildShape
  <2>. QED BY <2>1, <2>2, QuietOps DEF IsHook
<1>5. CASE run_initial_entry
  <2>1. ~Idle /\ todo[1].op = "initial_entry" /\ UNCHANGED <<life, active, seated>>
    BY <1>5, InitialEntryShape
  <2>2. PICK n, r : n = todo[1].at /\ r = Regions[n]
    OBVIOUS
  <2>3. PICK new \in Seq(Frame) : Moves(new, 1) /\ Begins(new, r, n)
    BY <1>5, <2>2, InitialEntryShape
  <2>4. \A k \in DOMAIN new : new[k].op \in {"wake", "initial_entry"}
    BY <2>3 DEF Begins, BeginsWith
  <2>. QED BY <2>1, <2>3, <2>4, QuietOps DEF IsHook
<1>. QED BY <1>1, <1>2, <1>3, <1>4, <1>5

\* With nothing of a chain on the stack the phases are those of the configuration.
LEMMA PhaseIdle ==
  ASSUME TypesRight, \A i \in DOMAIN todo : todo[i].op \notin ChainOps, NEW s \in State
  PROVE  Phase(s) = IF s \notin active THEN "out" ELSE IF s \in seated THEN "seated" ELSE "in"
<1>1. ~After(0, "sleep", s) /\ ~Hooked(s)
  BY DEF After, Holds, Hooked, IsHook, ChainOps
<1>. QED BY <1>1, PhaseIs DEF PhaseNow

LEMMA PhaseIdleNext ==
  ASSUME TypesRight', \A i \in DOMAIN todo' : todo'[i].op \notin ChainOps, NEW s \in State
  PROVE  Phase(s)' = IF s \notin active' THEN "out" ELSE IF s \in seated' THEN "seated" ELSE "in"
<1>1. ~After(0, "sleep", s)' /\ ~Hooked(s)'
  BY DEF After, Holds, Hooked, IsHook, ChainOps
<1>. QED BY <1>1, PhaseNext DEF PhaseNow

LEMMA CycleIdle ==
  ASSUME ChartInv, TypesRight', IdleSteps
  PROVE  CycleStep
<1>1. /\ Idle /\ life # "none" /\ life' # "none" /\ UNCHANGED <<active, seated>>
      /\ \A i \in DOMAIN todo' : todo'[i].op \in EmptyOps
  BY IdleShape
<1>2. \A i \in DOMAIN todo : todo[i].op \notin ChainOps
  BY <1>1 DEF Idle
<1>3. \A i \in DOMAIN todo' : todo'[i].op \notin ChainOps
  BY <1>1 DEF EmptyOps, ChainOps
<1>4. TypesRight
  BY DEF ChartInv
<1>5. \A s \in State : Phase(s)' = Phase(s)
  BY <1>1, <1>2, <1>3, <1>4, PhaseIdle, PhaseIdleNext
<1>. QED BY <1>1, <1>5, Stands

LEMMA CycleAside ==
  ASSUME UNCHANGED <<life, active, seated, todo>>
  PROVE  CycleStep
<1>1. \A s \in State : Phase(s)' = Phase(s)
  BY DEF Phase
<1>. QED BY <1>1, Stands

\* exit_state begins with the script of the state that leaves.
LEMMA CycleExitChild ==
  ASSUME ChartInv, HookInv, TypesRight', exit_active_child
  PROVE  CycleStep
<1>1. PICK s : s = todo[1].state
  OBVIOUS
<1>2. /\ ~Idle /\ todo[1].op = "exit_child" /\ s \in State /\ UNCHANGED <<life, active, seated>>
      /\ \A j \in DOMAIN todo : j > 1 /\ todo[j].op \in ChainOps /\ RegionOf[todo[j].state] = RegionOf[s] =>
           ~IsHook(todo[j])
      /\ s \in active /\ TypesRight
  BY <1>1, ExitChildShape DEF ChartInv
<1>3. PICK c \in State \cup {NULL}, new \in Seq(Frame) :
        /\ Moves(new, 1)
        /\ c = NULL => DOMAIN new = {}
        /\ c # NULL => DOMAIN new = 1 .. 5 /\ Leaves(new, c) /\ Leaving(c) /\ Parent[c] = s
  BY <1>1, ExitChildShape
<1>4. CASE c = NULL
  BY <1>2, <1>3, <1>4, QuietOps DEF IsHook
<1>5. CASE c # NULL
  <2>1. ~Hooked(s)
    <3>1. SUFFICES ASSUME NEW j \in DOMAIN todo, IsHook(todo[j]), todo[j].state = s PROVE FALSE
      BY DEF Hooked
    <3>2. todo[j].op \in ChainOps /\ j # 1
      BY <1>2, <3>1 DEF IsHook, ChainOps
    <3>. QED BY <1>2, <3>1, <3>2, BehindHead
  <2>2. \A u \in State : Untouched(todo[1], u)
    BY <1>2 DEF Untouched, Holds, IsHook
  <2>. QED BY <1>2, <1>3, <1>5, <2>1, <2>2, Left
<1>. QED BY <1>4, <1>5

LEMMA CycleExitRegion ==
  ASSUME ChartInv, HookInv, TypesRight', exit_one_region
  PROVE  CycleStep
<1>1. ~Idle /\ todo[1].op = "exit_region" /\ UNCHANGED <<life, active, seated>> /\ TypesRight
  BY ExitRegionShape DEF ChartInv
<1>2. PICK c \in State \cup {NULL}, new \in Seq(Frame) :
        /\ Moves(new, 1)
        /\ c = NULL => DOMAIN new = {}
        /\ c # NULL => DOMAIN new = 1 .. 5 /\ Leaves(new, c) /\ Leaving(c) /\ Parent[c] = NULL
  BY ExitRegionShape
<1>3. CASE c = NULL
  BY <1>1, <1>2, <1>3, QuietOps DEF IsHook
<1>4. CASE c # NULL
  <2>1. \A u \in State : Untouched(todo[1], u)
    BY <1>1 DEF Untouched, Holds, IsHook
  <2>. QED BY <1>1, <1>2, <1>4, <2>1, Left
<1>. QED BY <1>3, <1>4

LEMMA CycleExecute ==
  ASSUME ChartInv, HookInv, TypesRight', ~ReentrantEntry, NextRegion, NEW r \in Region, ~marked(r),
         NEW n \in DOMAIN Transitions,
         Transitions[n].event = todo[1].event, RegionOf[Transitions[n].target] = r,
         execute_transition(r, Transitions[n].target, rest_of_delivery),
         UNCHANGED <<life, tick, poisoned, configVars, watcherVars>>
  PROVE  CycleStep
<1>1. /\ ~Idle /\ todo[1].op = "deliver" /\ r \notin InFlight /\ UNCHANGED <<life, active, seated>> /\ TypesRight
  BY ExecuteShape DEF ChartInv
<1>2. PICK x \in State \cup {NULL}, m \in {0, 5}, new \in Seq(Frame) : Transits(new, x, m, r)
  BY ExecuteShape
<1>3. /\ Moves(new, 1) /\ DOMAIN new = 1 .. m + 2
      /\ x = NULL => m = 0
      /\ x # NULL => m = 5 /\ Leaves(new, x) /\ Leaving(x) /\ RegionOf[x] = r
      /\ x # NULL => Parent[x] = NULL \/ Parent[x] \in active
      /\ new[m + 1].op = "wake" /\ new[m + 2].op = "deliver"
  BY <1>2 DEF Transits
<1>4. CASE x = NULL
  <2>1. \A k \in DOMAIN new : new[k].op \in {"wake", "deliver"}
    <3>1. \A k \in DOMAIN new : k = m + 1 \/ k = m + 2
      BY <1>3, <1>4
    <3>. QED BY <1>3, <3>1
  <2>. QED BY <1>1, <1>3, <2>1, QuietOps DEF IsHook
<1>5. CASE x # NULL
  <2>1. \A k \in DOMAIN new : k \in 1 .. 5 \/ new[k].op \in {"wake", "deliver"}
    <3>1. \A k \in DOMAIN new : k \in 1 .. 5 \/ k = m + 1 \/ k = m + 2
      BY <1>3, <1>5
    <3>. QED BY <1>3, <3>1
  <2>2. \A u \in State : Untouched(todo[1], u)
    BY <1>1 DEF Untouched, Holds, IsHook
  <2>3. Parent[x] # NULL => ~Hooked(Parent[x])
    <3>1. SUFFICES ASSUME Parent[x] # NULL, NEW j \in DOMAIN todo, IsHook(todo[j]), todo[j].state = Parent[x]
                   PROVE  FALSE
      BY DEF Hooked
    <3>2. RegionOf[todo[j].state] = r /\ todo[j].op \in ChainOps
      BY <1>3, <1>5, <3>1, ParentType DEF IsHook, ChainOps, Leaving
    <3>. QED BY <1>1, <3>2 DEF InFlight
  <2>4. Parent[x] = NULL \/ (Parent[x] \in active /\ ~Hooked(Parent[x]))
    BY <1>3, <1>5, <2>3
  <2>. QED BY <1>1, <1>3, <1>5, <2>1, <2>2, <2>4, Left
<1>. QED BY <1>4, <1>5

LEMMA CycleEvaluate ==
  ASSUME ChartInv, HookInv, TypesRight', ~ReentrantEntry, evaluate_region
  PROVE  CycleStep
<1>1. NextRegion /\ UNCHANGED <<life, tick, poisoned, configVars, watcherVars>>
  BY EvaluateShape
<1>2. CASE todo' = rest_of_delivery /\ UNCHANGED stamp
  BY <1>1, <1>2, CycleNextRegion DEF configVars
<1>3. CASE ~(todo' = rest_of_delivery /\ UNCHANGED stamp)
  <2>1. PICK r \in Region, n \in DOMAIN Transitions :
          /\ ~marked(r)
          /\ Transitions[n].event = todo[1].event /\ RegionOf[Transitions[n].target] = r
          /\ execute_transition(r, Transitions[n].target, rest_of_delivery)
    BY <1>3, EvaluateShape
  <2>. QED BY <1>1, <2>1, CycleExecute
<1>. QED BY <1>2, <1>3

\* deactivate_state: what leaves is out once everything below it is.
LEMMA CycleSleep ==
  ASSUME ChartInv, HookInv, TypesRight', deactivate_state
  PROVE  CycleStep
<1>1. PICK s : s = todo[1].state
  OBVIOUS
<1>2. /\ ~Idle /\ Holds(todo[1], "sleep", s) /\ 1 \in DOMAIN todo
      /\ s \in active /\ s \in State /\ TypesRight
      /\ \A c \in active : Parent[c] # s
      /\ active' = active \ {s} /\ seated' = seated \ {s} /\ UNCHANGED life
  BY <1>1, SleepShape DEF ChartInv
<1>3. PICK new \in Seq(Frame) : DOMAIN new = {} /\ Moves(new, 1)
  BY <1>1, SleepShape
<1>4. ASSUME NEW u \in State \ {s} PROVE Phase(u)' = Phase(u)
  <2>1. Untouched(todo[1], u)
    BY <1>2, <1>4 DEF Untouched, Holds, IsHook
  <2>2. (u \in active' <=> u \in active) /\ (u \in seated' <=> u \in seated)
    BY <1>2, <1>4
  <2>. QED BY <1>2, <1>3, <2>1, <2>2, PhaseMoves
<1>5. Phase(s) = "leaving"
  <2>1. After(0, "sleep", s)
    BY <1>2 DEF After
  <2>. QED BY <1>2, <2>1, PhaseIs DEF PhaseNow
<1>6. Phase(s)' = "out"
  BY <1>2, PhaseNext DEF PhaseNow
<1>7. \A c \in State : Parent[c] = s => Phase(c) = "out"
  BY <1>2, PhaseIs DEF PhaseNow
<1>8. Cycle!Become(s, "out")
  BY <1>2, <1>4, <1>6, Becomes
<1>9. Cycle!Sleep(s)
  BY <1>2, <1>5, <1>7, <1>8 DEF Cycle!Sleep, Cycle!Children
<1>. QED BY <1>2, <1>9 DEF CycleStep, Cycle!Next

\* activate_state: under a parent that is up, beside no other substate.
LEMMA CycleWake ==
  ASSUME ChartInv, HookInv, TypesRight', activate_state
  PROVE  CycleStep
<1>1. PICK s, b : s = todo[1].state /\ b = todo[1].first
  OBVIOUS
<1>2. /\ ~Idle /\ Holds(todo[1], "wake", s) /\ 1 \in DOMAIN todo
      /\ s \in State /\ b \in BOOLEAN
      /\ b => s \in active /\ s \in seated
      /\ ~b => s \notin active
      /\ Parent[s] = NULL \/ Parent[s] \in active
      /\ \A c \in active : Beside(c, s) => c = s
      /\ \A j \in DOMAIN todo : todo[j].op \in ChainOps /\ RegionOf[todo[j].state] = RegionOf[s] =>
           j = 1 \/ (IsHook(todo[j]) /\ Parent[s] # NULL /\ todo[j].state \in Up[Parent[s]])
      /\ active' = active \cup {s} /\ seated' = seated \ {s} /\ UNCHANGED life
      /\ TypesRight
  BY <1>1, EnterShape DEF ChartInv
<1>3. PICK new \in Seq(Frame) : Moves(new, 1) /\ Enters(new, s, b)
  BY <1>1, EnterShape
<1>4. \A k \in DOMAIN new : new[k].state = s /\ new[k].op # "sleep"
  <2>1. \A k \in 1 .. 3 : k = 1 \/ k = 2 \/ k = 3
    OBVIOUS
  <2>. QED BY <1>3, <2>1 DEF Enters, IsHook
<1>5. ASSUME NEW u \in State \ {s} PROVE Phase(u)' = Phase(u)
  <2>1. Untouched(todo[1], u) /\ \A k \in DOMAIN new : Untouched(new[k], u)
    BY <1>2, <1>4, <1>5 DEF Untouched, Holds, IsHook
  <2>2. (u \in active' <=> u \in active) /\ (u \in seated' <=> u \in seated)
    BY <1>2, <1>5
  <2>. QED BY <1>2, <1>3, <2>1, <2>2, PhaseMoves
<1>6. ASSUME NEW u \in State, RegionOf[u] = RegionOf[s] PROVE ~After(0, "sleep", u)
  <2>1. SUFFICES ASSUME NEW j \in DOMAIN todo, Holds(todo[j], "sleep", u) PROVE FALSE
    BY DEF After
  <2>. QED BY <1>2, <1>6, <2>1 DEF Holds, IsHook, ChainOps
<1>7. Phase(s) \in {"out", "seated"}
  <2>1. ~Hooked(s)
    <3>1. SUFFICES ASSUME NEW j \in DOMAIN todo, IsHook(todo[j]), todo[j].state = s PROVE FALSE
      BY DEF Hooked
    <3>2. Parent[s] # NULL /\ s \in Up[Parent[s]]
      BY <1>2, <3>1 DEF Holds, IsHook, ChainOps
    <3>. QED BY <1>2, <3>2, UpAcyclic
  <2>2. CASE b
    BY <1>2, <1>6, <2>1, <2>2, PhaseIs DEF PhaseNow
  <2>3. CASE ~b
    BY <1>2, <2>3, PhaseIs DEF PhaseNow
  <2>. QED BY <1>2, <2>2, <2>3
<1>8. Parent[s] # NULL => Parent[s] \in State /\ Phase(Parent[s]) \in {"seated", "waking", "in"}
  <2>1. SUFFICES ASSUME Parent[s] # NULL
                 PROVE  Parent[s] \in State /\ Phase(Parent[s]) \in {"seated", "waking", "in"}
    OBVIOUS
  <2>2. Parent[s] \in State /\ RegionOf[Parent[s]] = RegionOf[s]
    BY <1>2, <2>1, ParentType
  <2>3. ~After(0, "sleep", Parent[s]) /\ Parent[s] \in active
    BY <1>2, <1>6, <2>1, <2>2
  <2>. QED BY <1>2, <2>2, <2>3, PhaseIs DEF PhaseNow
<1>9. \A u \in State \ {s} : Parent[u] = Parent[s] /\ RegionOf[u] = RegionOf[s] => Phase(u) = "out"
  BY <1>2, PhaseIs DEF PhaseNow, Beside
<1>10. Phase(s)' = "waking"
  <2>1. ~After(0, "sleep", s)'
    <3>1. SUFFICES ASSUME NEW q \in DOMAIN todo', Holds(todo'[q], "sleep", s) PROVE FALSE
      BY DEF After, Holds
    <3>2. q \notin DOMAIN new
      BY <1>3, <1>4, <3>1 DEF Moves, Holds
    <3>3. PICK j \in DOMAIN todo : j > 1 /\ q = j + Len(new) - 1
      BY <1>3, <3>2, Origin
    <3>4. todo[j] = todo'[q] /\ j > 0
      BY <1>3, <3>3 DEF Moves
    <3>. QED BY <1>2, <1>6, <3>1, <3>4 DEF After
  <2>2. Hooked(s)'
    <3>1. 3 \in DOMAIN new /\ IsHook(new[3]) /\ new[3].state = s
      BY <1>3, <1>4 DEF Enters
    <3>2. 3 \in DOMAIN todo' /\ todo'[3] = new[3]
      BY <1>3, <3>1 DEF Moves
    <3>. QED BY <3>1, <3>2 DEF Hooked, IsHook
  <2>3. s \in active'
    BY <1>2
  <2>. QED BY <1>2, <2>1, <2>2, <2>3, PhaseNext DEF PhaseNow
<1>11. Cycle!Become(s, "waking")
  BY <1>2, <1>5, <1>10, Becomes
<1>12. Cycle!Wake(s)
  BY <1>2, <1>7, <1>8, <1>9, <1>11 DEF Cycle!Wake, Cycle!ParentIn, Cycle!Siblings
<1>. QED BY <1>2, <1>12 DEF CycleStep, Cycle!Next

\* The script of a state enters when its substate is in.
LEMMA CycleSettle ==
  ASSUME ChartInv, HookInv, TypesRight', hook_return, IsHook(todo[1])
  PROVE  CycleStep
<1>1. PICK s : s = todo[1].state
  OBVIOUS
<1>2. /\ ~Idle /\ todo[1].op = "slot" /\ todo' = Tail(todo) /\ TypesRight
      /\ UNCHANGED <<life, active, seated>> /\ life \in {"live", "dying"}
  BY HeadOf DEF hook_return, configVars
<1>3. PICK new \in Seq(Frame) : DOMAIN new = {} /\ Moves(new, 1)
  BY <1>2, PopMoves
<1>4. /\ 1 \in DOMAIN todo /\ s \in State /\ s \in active /\ s \notin seated
      /\ \A j \in DOMAIN todo : j = 1 \/ j > 1
  <2>1. todo[1] \in Frame /\ SeatRight(todo[1]) /\ 1 \in DOMAIN todo /\ \A j \in DOMAIN todo : j = 1 \/ j > 1
    BY <1>2, BehindHead
  <2>. QED BY <1>1, <1>2, <2>1, FrameFacts DEF SeatRight, ChainOps
<1>5. ASSUME NEW j \in DOMAIN todo, todo[j].op \in ChainOps, RegionOf[todo[j].state] = RegionOf[s], j # 1
      PROVE  IsHook(todo[j]) /\ todo[j].state \in Up[s] /\ todo[j].state # s
  <2>1. HookOrder(todo[1], todo[j])
    BY <1>2, <1>4, <1>5, BehindHead
  <2>. QED BY <1>1, <1>2, <1>5, <2>1 DEF HookOrder, ChainOps
<1>6. ASSUME NEW op \in {"sleep", "wake", "enter_child"}, NEW u \in State, RegionOf[u] = RegionOf[s]
      PROVE  ~After(0, op, u)
  <2>1. SUFFICES ASSUME NEW j \in DOMAIN todo, Holds(todo[j], op, u) PROVE FALSE
    BY DEF After
  <2>. QED BY <1>2, <1>5, <1>6, <2>1 DEF Holds, IsHook, ChainOps
<1>7. ASSUME NEW c \in State, Parent[c] = s
      PROVE  /\ Phase(c) \in {"out", "in"}
             /\ c \in active => Phase(c) = "in"
  <2>1. RegionOf[c] = RegionOf[s] /\ c \notin Up[s] /\ s # NULL
    BY <1>4, <1>7, ParentType, UpAcyclic
  <2>2. ~After(0, "sleep", c) /\ ~After(0, "wake", c) /\ ~After(0, "enter_child", s)
    BY <1>4, <1>6, <2>1
  <2>3. ~Hooked(c)
    <3>1. SUFFICES ASSUME NEW j \in DOMAIN todo, IsHook(todo[j]), todo[j].state = c PROVE FALSE
      BY DEF Hooked
    <3>2. j # 1
      BY <1>1, <1>4, <2>1, <3>1, UpClosed
    <3>. QED BY <1>5, <2>1, <3>1, <3>2 DEF IsHook, ChainOps
  <2>4. c \notin seated
    BY <1>4, <1>7, <2>1, <2>2 DEF HookInv, SeatsEnter
  <2>. QED BY <1>2, <2>2, <2>3, <2>4, PhaseIs DEF PhaseNow
<1>8. (\E c \in State : Parent[c] = s) => \E c \in State : Parent[c] = s /\ Phase(c) = "in"
  <2>1. SUFFICES ASSUME NEW u \in State, Parent[u] = s
                 PROVE  \E c \in State : Parent[c] = s /\ Phase(c) = "in"
    OBVIOUS
  <2>2. InitialChild[s] # NULL
    BY <1>4, <2>1, ChartAssumption
  <2>3. ~After(0, "sleep", s) /\ ~After(0, "enter_child", s)
    BY <1>4, <1>6
  <2>4. ASSUME NEW k \in DOMAIN todo, todo[k].op = "wake", Parent[todo[k].state] = s PROVE FALSE
    <3>0. todo[k] \in Frame
      BY <1>2, BehindHead
    <3>1. todo[k].state \in State
      BY <2>4, <3>0, FrameFacts DEF ChainOps
    <3>2. RegionOf[todo[k].state] = RegionOf[s]
      BY <1>4, <2>4, <3>1, ParentType
    <3>. QED BY <1>6, <2>4, <3>1, <3>2, <1>2, <1>5 DEF ChainOps, IsHook
  <2>5. PICK c \in active : Parent[c] = s
    BY <1>4, <2>2, <2>3, <2>4 DEF ChartInv, Lacking
  <2>6. c \in State
    BY <1>2, <2>5 DEF TypesRight
  <2>. QED BY <1>7, <2>5, <2>6
<1>9. Phase(s) = "waking"
  <2>1. ~After(0, "sleep", s) /\ Hooked(s)
    BY <1>1, <1>4, <1>6 DEF Hooked
  <2>. QED BY <1>2, <1>4, <2>1, PhaseIs DEF PhaseNow
<1>10. Phase(s)' = "in"
  <2>1. ASSUME NEW q \in DOMAIN todo' PROVE \E j \in DOMAIN todo : j > 1 /\ todo'[q] = todo[j]
    <3>0. q \notin DOMAIN new /\ Moves(new, 1)
      BY <1>3
    <3>1. PICK j \in DOMAIN todo : j > 1 /\ q = j + Len(new) - 1
      BY <3>0, Origin
    <3>. QED BY <3>0, <3>1 DEF Moves
  <2>2. ASSUME NEW q \in DOMAIN todo', Holds(todo'[q], "sleep", s) PROVE FALSE
    <3>1. PICK j \in DOMAIN todo : j > 1 /\ todo'[q] = todo[j]
      BY <2>1
    <3>. QED BY <1>5, <2>2, <3>1 DEF Holds, IsHook, ChainOps
  <2>3. ASSUME NEW q \in DOMAIN todo', IsHook(todo'[q]), todo'[q].state = s PROVE FALSE
    <3>1. PICK j \in DOMAIN todo : j > 1 /\ todo'[q] = todo[j]
      BY <2>1
    <3>. QED BY <1>5, <2>3, <3>1 DEF IsHook, ChainOps
  <2>4. ~After(0, "sleep", s)'
    BY <2>2 DEF After, Holds
  <2>5. ~Hooked(s)'
    BY <2>3 DEF Hooked, IsHook
  <2>. QED BY <1>2, <1>4, <2>4, <2>5, PhaseNext DEF PhaseNow
<1>11. ASSUME NEW u \in State \ {s} PROVE Phase(u)' = Phase(u)
  <2>1. Untouched(todo[1], u)
    BY <1>1, <1>2, <1>11 DEF Untouched, Holds
  <2>. QED BY <1>2, <1>3, <2>1, PhaseMoves
<1>12. Cycle!Become(s, "in")
  BY <1>2, <1>4, <1>10, <1>11, Becomes
<1>13. Cycle!Settle(s)
  BY <1>4, <1>7, <1>8, <1>9, <1>12 DEF Cycle!Settle, Cycle!Children
<1>. QED BY <1>4, <1>13 DEF CycleStep, Cycle!Next

LEMMA CycleReturn ==
  ASSUME ChartInv, HookInv, TypesRight', hook_return
  PROVE  CycleStep
<1>1. /\ ~Idle /\ todo[1].op = "slot" /\ todo' = Tail(todo) /\ TypesRight
      /\ UNCHANGED <<life, active, seated>>
  BY HeadOf DEF hook_return, configVars, ChartInv
<1>2. CASE IsHook(todo[1])
  BY <1>2, CycleSettle
<1>3. CASE ~IsHook(todo[1])
  BY <1>1, <1>3, CyclePop
<1>. QED BY <1>2, <1>3

\* instantiate seats the initial chain of every region.
LEMMA CycleSeat ==
  ASSUME ChartInv, TypesRight', NEW deferred \in BOOLEAN, instantiate(deferred)
  PROVE  CycleStep
<1>1. /\ life = "none" /\ life' # "none" /\ active' = InitialChain /\ seated' = InitialChain
      /\ \A i \in DOMAIN todo' : todo'[i].op = "initial_entry"
  BY SeatShape
<1>2. \A i \in DOMAIN todo' : todo'[i].op \notin ChainOps
  BY <1>1 DEF ChainOps
<1>3. \A s \in State : Phase(s)' = IF s \in InitialChain THEN "seated" ELSE "out"
  BY <1>1, <1>2, PhaseIdleNext
<1>4. ASSUME NEW s \in InitialChain
      PROVE  /\ Parent[s] = NULL \/ (Parent[s] \in State /\ Parent[s] \in InitialChain)
             /\ \A u \in State \ {s} : Parent[u] = Parent[s] /\ RegionOf[u] = RegionOf[s] => u \notin InitialChain
  BY InitialChainDown
<1>5. InitialChain \in SUBSET State
  BY InitialChainDown
<1>6. [s \in State |-> Phase(s)]' = [s \in State |-> IF s \in InitialChain THEN "seated" ELSE "out"]
  BY <1>3
<1>7. Cycle!Seat
  BY <1>1, <1>4, <1>5, <1>6 DEF Cycle!Seat, Cycle!Siblings
<1>. QED BY <1>7 DEF CycleStep, Cycle!Next

LEMMA CycleInit == ChartInit => Cycle!Init
<1>1. SUFFICES ASSUME ChartInit PROVE Cycle!Init
  OBVIOUS
<1>2. life = "none" /\ active = {}
  BY <1>1 DEF ChartInit
<1>3. \A s \in State : Phase(s) = "out"
  BY <1>2 DEF Phase
<1>. QED BY <1>2, <1>3 DEF Cycle!Init

LEMMA CycleKeeps ==
  ASSUME ChartInv, HookInv, TypesRight', ~ReentrantEntry, [ChartNext]_chartVars
  PROVE  CycleStep
<1>1. CASE \E deferred \in BOOLEAN : instantiate(deferred)
  BY <1>1, CycleSeat
<1>2. CASE \E e \in Event : trigger(e)
  BY <1>2, CycleTrigger DEF ChartInv
<1>3. CASE hook_return
  BY <1>3, CycleReturn
<1>4. CASE Running
  <2>1. CASE void_marked_region
    BY <2>1, CycleNextRegion DEF void_marked_region, configVars
  <2>. QED BY <1>4, <2>1, CycleQuiet, CycleEvaluate, CycleExitChild, CycleSleep, CycleWake,
              CycleExitRegion DEF Running
<1>5. CASE IdleSteps
  BY <1>5, CycleIdle
<1>6. CASE poison \/ UNCHANGED chartVars
  BY <1>6, CycleAside DEF poison, chartVars, configVars
<1>. QED BY <1>1, <1>2, <1>3, <1>4, <1>5, <1>6 DEF ChartNext, IdleSteps

\* The order of the hooks (A.2.1): whatever a hook triggers, and however deep
\* the cascade, exit_state and enter_state take every state through its life
\* cycle; its script enters once its substate is in, and it leaves the
\* configuration after everything below it, under a parent that is up, beside
\* no other active substate.
THEOREM HooksRight ==
  ASSUME ~ReentrantEntry
  PROVE  ChartSpec => HooksInOrder
<1>1. ChartInit => Cycle!Init
  BY CycleInit
<1>2. ChartInv /\ HookInv /\ ChartInv' /\ [ChartNext]_chartVars => [Cycle!Next]_(Cycle!vars)
  BY CycleKeeps DEF ChartInv, CycleStep
<1>3. ChartSpec => [](ChartInv /\ HookInv)
  BY HooksStay
<1>. QED BY <1>1, <1>2, <1>3, PTL DEF ChartSpec, HooksInOrder, Cycle!Spec

=============================================================================
