------------------------------ MODULE Hierarchy ------------------------------
(***************************************************************************)
(* hierarchy::Hierarchy (core/hierarchy): the entity tree as intrusive     *)
(* sibling lists, its cached depth-first order, transform propagation and  *)
(* subtree dormancy.                                                       *)
(*                                                                         *)
(* An entity handle never names two entities (HandlesCorrect, proved in    *)
(* WorldProofs), so an entity is a model value that lives once, and its    *)
(* rows are a function of the entity (RowsKept in Pool).  The handlers     *)
(* run to completion except the despawn cascade, which re-enters           *)
(* World::despawn for every child: `despawning` is that recursion.         *)
(***************************************************************************)
EXTENDS Integers, Sequences, SequencesExt, FiniteSets

CONSTANTS
  Entity,     \* entities ever spawned
  NULL,       \* the null handle
  Component,  \* the component types registered beside the hierarchy's own
  Local,      \* authored local transforms
  identity_local  \* the local a fresh LocalTransform holds

ASSUME HierarchyAssumption ==
  NULL \notin Entity /\ IsFiniteSet(Entity) /\ identity_local \in Local

VARIABLES
  life,                 \* unborn, alive or dead
  adopted,              \* the entities with a Node row
  node,                 \* the Node rows; node[NULL] holds the root list
  row,                  \* per entity and component: absent, off or on
  local,                \* LocalTransform
  world,                \* WorldTransform
  any_transform_dirty,  \* any_transform_dirty_
  order,                \* the cached order indices, <<>> when order_dirty_
  despawning            \* World::despawn calls in flight, outermost first

treeVars == <<life, adopted, node>>
transformVars == <<local, world, any_transform_dirty>>
hierarchyVars == <<treeVars, row, transformVars, order, despawning>>

RowState == {"absent", "off", "on"}
NoRows == [c \in Component |-> "absent"]

\* Node{}: unlinked, awake, clean.
BlankNode ==
  [parent |-> NULL, first_child |-> NULL, last_child |-> NULL,
   prev_sibling |-> NULL, next_sibling |-> NULL,
   dormant_depth |-> 0, deactivated |-> FALSE, saved |-> NoRows,
   transform_dirty |-> FALSE, transform_dirty_below |-> FALSE]

\* A world matrix is the product of the locals on the path from the root, kept
\* as that path: two matrices agree exactly when they come from equal factors.
Identity == <<>>
Compose(matrix, l) == Append(matrix, l)

HierarchyInit ==
  /\ life = [e \in Entity |-> "unborn"]
  /\ adopted = {}
  /\ node = [e \in Entity \cup {NULL} |-> BlankNode]
  /\ row = [e \in Entity |-> NoRows]
  /\ local = [e \in Entity |-> identity_local]
  /\ world = [e \in Entity |-> Identity]
  /\ any_transform_dirty = FALSE
  /\ order = <<>>
  /\ despawning = <<>>

Idle == despawning = <<>>
Alive == {e \in Entity : life[e] = "alive"}

-----------------------------------------------------------------------------
\* What a walk along links visits: the least set that holds its starts and is
\* closed under its step.
Reach(starts, Step(_)) ==
  {e \in Entity : \A S \in SUBSET Entity :
     starts \ {NULL} \subseteq S /\ (\A d \in S : Step(d) \ {NULL} \subseteq S) => e \in S}

AncestorsOrSelf(n, e) == Reach({e}, LAMBDA d : {n[d].parent})
subtree_contains(n, root, e) == root \in AncestorsOrSelf(n, e)
collect_subtree(n, root) ==
  Reach({root}, LAMBDA d : {n[d].last_child} \cup (IF d = root THEN {} ELSE {n[d].prev_sibling}))

\* The children of e (the roots for NULL), oldest first, from the newest back.
children(n, e) ==
  LET list[k \in 0 .. Cardinality(Entity)] ==
        IF k = 0 THEN [at |-> n[e].last_child, out |-> <<>>]
        ELSE LET l == list[k - 1]
             IN  IF l.at = NULL THEN l
                 ELSE [at |-> n[l.at].prev_sibling, out |-> <<l.at>> \o l.out]
  IN  list[Cardinality(Entity)].out

\* rebuild_order's stack: pop an entity, push its children, oldest on top.
depth_first(n) ==
  LET walk[k \in 0 .. Cardinality(Entity)] ==
        IF k = 0 THEN [stack |-> children(n, NULL), out |-> <<>>]
        ELSE LET w == walk[k - 1]
             IN  IF w.stack = <<>> THEN w
                 ELSE [stack |-> children(n, Head(w.stack)) \o Tail(w.stack),
                       out |-> Append(w.out, Head(w.stack))]
  IN  walk[Cardinality(Entity)].out

-----------------------------------------------------------------------------
\* Mutant: the newcomer becomes the oldest sibling.
link_first(n, e, p) ==
  LET first == n[p].first_child
      linked == [n EXCEPT ![e].parent = p, ![e].next_sibling = first,
                          ![e].prev_sibling = NULL, ![p].first_child = e]
  IN  IF first # NULL THEN [linked EXCEPT ![first].prev_sibling = e]
                      ELSE [linked EXCEPT ![p].last_child = e]

\* Link surgery.  node[NULL] stands for first_root_ and last_root_, so the
\* root list is the list of one more parent, as components.h says.
link_last(n, e, p) ==
  LET last == n[p].last_child
      linked == [n EXCEPT ![e].parent = p, ![e].prev_sibling = last,
                          ![e].next_sibling = NULL, ![p].last_child = e]
  IN  IF last # NULL THEN [linked EXCEPT ![last].next_sibling = e]
                     ELSE [linked EXCEPT ![p].first_child = e]

\* Mutant: the next sibling keeps its back link.
unlink_one_sided(n, e) ==
  LET p == n[e].parent  prev == n[e].prev_sibling  next == n[e].next_sibling
      forward == IF prev # NULL THEN [n EXCEPT ![prev].next_sibling = next]
                                ELSE [n EXCEPT ![p].first_child = next]
      back == IF next # NULL THEN forward
                             ELSE [forward EXCEPT ![p].last_child = prev]
  IN  [back EXCEPT ![e].parent = NULL, ![e].prev_sibling = NULL, ![e].next_sibling = NULL]

unlink(n, e) ==
  LET p == n[e].parent  prev == n[e].prev_sibling  next == n[e].next_sibling
      forward == IF prev # NULL THEN [n EXCEPT ![prev].next_sibling = next]
                                ELSE [n EXCEPT ![p].first_child = next]
      back == IF next # NULL THEN [forward EXCEPT ![next].prev_sibling = prev]
                             ELSE [forward EXCEPT ![p].last_child = prev]
  IN  [back EXCEPT ![e].parent = NULL, ![e].prev_sibling = NULL, ![e].next_sibling = NULL]

\* mark_transform_dirty: up the path until it is marked already.
mark_transform_dirty(n, e) ==
  LET Unmarked(p) == {a \in {p} \ {NULL} : ~n[a].transform_dirty_below}
      path == Reach(Unmarked(n[e].parent), LAMBDA d : Unmarked(n[d].parent))
  IN  [d \in DOMAIN n |-> [n[d] EXCEPT !.transform_dirty = @ \/ d = e,
                                       !.transform_dirty_below = @ \/ d \in path]]

adopt_node(n, e) == [link_last(n, e, NULL) EXCEPT ![e].transform_dirty = TRUE]

-----------------------------------------------------------------------------
\* apply_dormancy_delta: capture_and_clear on 0 -> covered, restore_activity on
\* covered -> 0, for every entity of the subtree.
Sleeps(n, e, delta) == n[e].dormant_depth = 0 /\ n[e].dormant_depth + delta > 0
Wakes(n, e, delta) == n[e].dormant_depth > 0 /\ n[e].dormant_depth + delta = 0

\* Mutant: every deactivation captures, the nested ones the cleared pattern.
covered_again(n, S, delta) ==
  [e \in DOMAIN n |->
     IF e \notin S THEN n[e]
     ELSE [n[e] EXCEPT !.dormant_depth = @ + delta,
                       !.saved = IF delta > 0 THEN row[e]
                                 ELSE IF Wakes(n, e, delta) THEN NoRows ELSE @]]

covered(n, S, delta) ==
  [e \in DOMAIN n |->
     IF e \notin S THEN n[e]
     ELSE [n[e] EXCEPT !.dormant_depth = @ + delta,
                       !.saved = IF Sleeps(n, e, delta) THEN row[e]
                                 ELSE IF Wakes(n, e, delta) THEN NoRows ELSE @]]

toggled(n, S, delta) ==
  [e \in Entity |->
     [c \in Component |->
        CASE e \in S /\ Sleeps(n, e, delta) /\ row[e][c] # "absent" -> "off"
          [] e \in S /\ Wakes(n, e, delta) /\ n[e].saved[c] # "absent" -> n[e].saved[c]
          [] OTHER -> row[e][c]]]

-----------------------------------------------------------------------------
\* The world, as far as the hierarchy sees it: a flush or a caller spawns,
\* emplaces rows and toggles their bits.
spawn(e) ==
  /\ Idle /\ life[e] = "unborn"
  /\ life' = [life EXCEPT ![e] = "alive"]
  /\ UNCHANGED <<adopted, node, row, transformVars, order, despawning>>

emplace(e, c, bit) ==
  /\ Idle /\ e \in Alive /\ row[e][c] = "absent"
  /\ row' = [row EXCEPT ![e][c] = bit]
  /\ UNCHANGED <<treeVars, transformVars, order, despawning>>

set_active(e, c, bit) ==
  /\ Idle /\ e \in Alive /\ row[e][c] # "absent"
  /\ row' = [row EXCEPT ![e][c] = bit]
  /\ UNCHANGED <<treeVars, transformVars, order, despawning>>

\* adopt: a live stranger becomes the last root.
adopt(e) ==
  /\ Idle /\ e \in Alive \ adopted
  /\ adopted' = adopted \cup {e}
  /\ node' = adopt_node(node, e)
  /\ any_transform_dirty' = TRUE
  /\ order' = <<>>
  /\ UNCHANGED <<life, row, local, world, despawning>>

\* Mutant: the cover of the new parent is not compared with the old one.
reparent_keeping_cover(n, child, p) ==
  /\ node' = mark_transform_dirty(link_last(unlink(n, child), child, p), child)
  /\ UNCHANGED row

\* apply_reparent, called by the flush with a live child and a null or live
\* parent: strangers are adopted first, a cycle is a no-op, a move appends.
reparent_to(n, child, p) ==
  LET delta == n[p].dormant_depth - n[n[child].parent].dormant_depth
      moved == link_last(unlink(n, child), child, p)
      S == IF delta = 0 THEN {} ELSE collect_subtree(moved, child)
  IN  /\ node' = mark_transform_dirty(covered(moved, S, delta), child)
      /\ row' = toggled(moved, S, delta)

\* Mutant: the order indices survive a move within the tree.
apply_reparent_ordered(child, p) ==
  LET strangers == {child, p} \ (adopted \cup {NULL})
      entered == IF child \in strangers THEN adopt_node(node, child) ELSE node
      n == IF p \in strangers \ {child} THEN adopt_node(entered, p) ELSE entered
      cycle == p # NULL /\ subtree_contains(n, child, p)
  IN  /\ Idle /\ child \in Alive /\ p \in Alive \cup {NULL}
      /\ adopted' = adopted \cup strangers
      /\ IF cycle THEN node' = n /\ UNCHANGED row ELSE reparent_to(n, child, p)
      /\ any_transform_dirty' = (any_transform_dirty \/ strangers # {} \/ ~cycle)
      /\ order' = IF strangers = {} THEN order ELSE <<>>
      /\ UNCHANGED <<life, local, world, despawning>>

apply_reparent(child, p) ==
  LET strangers == {child, p} \ (adopted \cup {NULL})
      entered == IF child \in strangers THEN adopt_node(node, child) ELSE node
      n == IF p \in strangers \ {child} THEN adopt_node(entered, p) ELSE entered
      cycle == p # NULL /\ subtree_contains(n, child, p)
  IN  /\ Idle /\ child \in Alive /\ p \in Alive \cup {NULL}
      /\ adopted' = adopted \cup strangers
      /\ IF cycle THEN node' = n /\ UNCHANGED row ELSE reparent_to(n, child, p)
      /\ any_transform_dirty' = (any_transform_dirty \/ strangers # {} \/ ~cycle)
      /\ order' = IF cycle /\ strangers = {} THEN order ELSE <<>>
      /\ UNCHANGED <<life, local, world, despawning>>

-----------------------------------------------------------------------------
\* Activation scopes: refused when already (not) a scope root.
scope(e, delta) ==
  LET flagged == [node EXCEPT ![e].deactivated = delta > 0]
      S == collect_subtree(flagged, e)
  IN  /\ node' = covered(flagged, S, delta)
      /\ row' = toggled(flagged, S, delta)
      /\ UNCHANGED <<life, adopted, transformVars, order, despawning>>

deactivate(e) == Idle /\ e \in adopted /\ ~node[e].deactivated /\ scope(e, 1)
activate(e) == Idle /\ e \in adopted /\ node[e].deactivated /\ scope(e, -1)

-----------------------------------------------------------------------------
set_local(e, l) ==
  /\ Idle /\ e \in adopted
  /\ local' = [local EXCEPT ![e] = l]
  /\ node' = mark_transform_dirty(node, e)
  /\ any_transform_dirty' = TRUE
  /\ UNCHANGED <<life, adopted, row, world, order, despawning>>

\* Mutant: a clean child of a recomputed parent keeps its matrix.
visit_dirty_only(acc, e) ==
  LET p == node[e].parent
      recompute == node[e].transform_dirty
      parent_world == IF p = NULL THEN Identity ELSE acc.world[p]
  IN  IF p \notin acc.open THEN acc
      ELSE [world |-> IF recompute
                      THEN [acc.world EXCEPT ![e] = Compose(parent_world, local[e])]
                      ELSE acc.world,
            fresh |-> IF recompute THEN acc.fresh \cup {e} ELSE acc.fresh,
            open |-> IF recompute \/ node[e].transform_dirty_below
                     THEN acc.open \cup {e} ELSE acc.open]

\* One item of propagate's walk: visited when its parent's children are open;
\* recomputed when dirty itself or under a recomputed parent.
visit(acc, e) ==
  LET p == node[e].parent
      recompute == p \in acc.fresh \/ node[e].transform_dirty
      parent_world == IF p = NULL THEN Identity ELSE acc.world[p]
  IN  IF p \notin acc.open THEN acc
      ELSE [world |-> IF recompute
                      THEN [acc.world EXCEPT ![e] = Compose(parent_world, local[e])]
                      ELSE acc.world,
            fresh |-> IF recompute THEN acc.fresh \cup {e} ELSE acc.fresh,
            open |-> IF recompute \/ node[e].transform_dirty_below
                     THEN acc.open \cup {e} ELSE acc.open]

Propagated ==
  LET items == depth_first(node)
      walk[k \in 0 .. Len(items)] ==
        IF k = 0 THEN [world |-> world, fresh |-> {}, open |-> {NULL}] ELSE visit(walk[k - 1], items[k])
  IN  walk[Len(items)]

propagate ==
  LET done == Propagated
  IN  /\ Idle /\ any_transform_dirty
      /\ world' = done.world
      /\ node' = [e \in DOMAIN node |->
                    [node[e] EXCEPT !.transform_dirty = @ /\ e \notin done.fresh,
                                    !.transform_dirty_below = @ /\ e \notin done.open]]
      /\ any_transform_dirty' = FALSE
      /\ UNCHANGED <<life, adopted, row, local, order, despawning>>

\* order_index and compare rebuild the order when it is stale.
rebuild_order ==
  /\ Idle /\ adopted # {} /\ order = <<>>
  /\ order' = depth_first(node)
  /\ UNCHANGED <<treeVars, row, transformVars, despawning>>

-----------------------------------------------------------------------------
\* World::despawn and the observer on_despawn: children first, then the entity
\* leaves its list, its rows drop and its handle goes stale.
despawn(e) ==
  /\ Idle /\ e \in Alive
  /\ despawning' = <<e>>
  /\ UNCHANGED <<treeVars, row, transformVars, order>>

Victim == Last(despawning)
HasChild == Victim \in adopted /\ node[Victim].first_child # NULL

cascade ==
  /\ ~Idle /\ HasChild
  /\ node[Victim].first_child \in Alive
  /\ despawning' = Append(despawning, node[Victim].first_child)
  /\ UNCHANGED <<treeVars, row, transformVars, order>>

\* Mutant: the dead entity stays in its parent's list.
finish_despawn_linked ==
  /\ ~Idle /\ ~HasChild
  /\ node' = [node EXCEPT ![Victim] = BlankNode]
  /\ adopted' = adopted \ {Victim}
  /\ order' = IF Victim \in adopted THEN <<>> ELSE order
  /\ life' = [life EXCEPT ![Victim] = "dead"]
  /\ row' = [row EXCEPT ![Victim] = NoRows]
  /\ despawning' = Front(despawning)
  /\ UNCHANGED transformVars

finish_despawn ==
  /\ ~Idle /\ ~HasChild
  /\ node' = IF Victim \in adopted THEN [unlink(node, Victim) EXCEPT ![Victim] = BlankNode] ELSE node
  /\ adopted' = adopted \ {Victim}
  /\ order' = IF Victim \in adopted THEN <<>> ELSE order
  /\ life' = [life EXCEPT ![Victim] = "dead"]
  /\ row' = [row EXCEPT ![Victim] = NoRows]
  /\ despawning' = Front(despawning)
  /\ UNCHANGED transformVars

-----------------------------------------------------------------------------
Cascading == cascade \/ finish_despawn

HierarchyNext ==
  \/ \E e \in Entity : spawn(e) \/ adopt(e) \/ activate(e) \/ deactivate(e) \/ despawn(e)
  \/ \E e \in Entity, c \in Component, bit \in {"off", "on"} : emplace(e, c, bit) \/ set_active(e, c, bit)
  \/ \E child \in Entity, p \in Entity \cup {NULL} : apply_reparent(child, p)
  \/ \E e \in Entity, l \in Local : set_local(e, l)
  \/ propagate \/ rebuild_order
  \/ Cascading

HierarchySpec == HierarchyInit /\ [][HierarchyNext]_hierarchyVars

-----------------------------------------------------------------------------
\* Type invariant.
HierarchyTypeOK ==
  /\ life \in [Entity -> {"unborn", "alive", "dead"}]
  /\ adopted \subseteq Alive
  /\ DOMAIN node = Entity \cup {NULL}
  /\ \A e \in DOMAIN node :
       /\ {node[e].parent, node[e].first_child, node[e].last_child,
           node[e].prev_sibling, node[e].next_sibling} \subseteq adopted \cup {NULL}
       /\ node[e].dormant_depth \in Nat
       /\ e \notin adopted \cup {NULL} => node[e] = BlankNode
  /\ row \in [Entity -> [Component -> RowState]]
  /\ local \in [Entity -> Local]
  /\ Range(despawning) \subseteq Alive

\* The links are one forest: first/last and next/prev mirror each other under
\* every parent, and a walk from the roots meets every adopted entity once
\* (no cycle, no orphan), also in the middle of a despawn cascade.
TreeWellFormed ==
  /\ HierarchyTypeOK
  /\ \A e \in adopted :
       LET n == node[e]  p == node[n.parent]
       IN  /\ IF n.next_sibling = NULL THEN p.last_child = e
              ELSE node[n.next_sibling].prev_sibling = e /\ node[n.next_sibling].parent = n.parent
           /\ IF n.prev_sibling = NULL THEN p.first_child = e
              ELSE node[n.prev_sibling].next_sibling = e
  /\ \A e \in adopted \cup {NULL} : (node[e].first_child = NULL) = (node[e].last_child = NULL)
  /\ Range(depth_first(node)) = adopted
  /\ Len(depth_first(node)) = Cardinality(adopted)

\* Each step of the hierarchy is one step of the ordered forest it promises:
\* a new last root, a move to the end of a list, or the removal of a leaf.
Shape == INSTANCE Forest WITH offspring <- [p \in Entity \cup {NULL} |-> children(node, p)]
ForestKept == Shape!Spec

\* "Number of deactivation scopes covering this entity (its own flag plus
\* every flagged ancestor)" (components.h): along every parent link the count
\* grows by exactly the entity's own flag, whatever moved since it was set.
DormancyCover ==
  /\ node[NULL].dormant_depth = 0
  /\ \A e \in adopted :
       node[e].dormant_depth =
         node[node[e].parent].dormant_depth + (IF node[e].deactivated THEN 1 ELSE 0)

\* The activity an entity has awake: its rows, or while dormant the captured
\* pattern, with rows emplaced since as they are.
Pattern(e) ==
  [c \in Component |-> IF node[e].saved[c] # "absent" THEN node[e].saved[c] ELSE row[e][c]]

\* Activation, moves, adoption and other entities' despawns never change an
\* entity's pattern ("restores that pattern bit-for-bit"), an awake entity
\* shows it, and an entity that falls asleep falls asleep in every row.
ActivityFollowsCover ==
  [][\A e \in adopted \cap adopted' :
       /\ node' # node => Pattern(e)' = Pattern(e)
       /\ node'[e].dormant_depth = 0 => row'[e] = Pattern(e)'
       /\ node[e].dormant_depth = 0 /\ node'[e].dormant_depth > 0 =>
            \A c \in Component : row'[e][c] # "on"]_hierarchyVars

\* Every clean entity's matrix is its parent's composed with its own local,
\* and every dirty one is on a path propagate will take: after propagate the
\* whole tree is exact, dormant parts included.
TransformsFresh ==
  \A e \in adopted :
    LET p == node[e].parent
    IN  IF node[e].transform_dirty
        THEN /\ any_transform_dirty
             /\ \A a \in AncestorsOrSelf(node, e) \ {e} : node[a].transform_dirty_below
        ELSE world[e] = Compose(IF p = NULL THEN Identity ELSE world[p], local[e])

\* Tree order: parents before children, and of two siblings' subtrees the
\* older one's first.  The cached indices are this order whenever they are read.
Precedes(a, b) ==
  \/ a # b /\ subtree_contains(node, a, b)
  \/ \E p \in Entity \cup {NULL} : \E i, j \in DOMAIN children(node, p) :
       /\ i < j
       /\ subtree_contains(node, children(node, p)[i], a)
       /\ subtree_contains(node, children(node, p)[j], b)
OrderFresh ==
  order # <<>> =>
    /\ Range(order) = adopted
    /\ \A i, j \in DOMAIN order : i < j <=> Precedes(order[i], order[j])

\* on_despawn keeps the contract World has with its observer: the calls in
\* flight are a path down the tree from the first victim, so no entity is
\* despawned twice, and a child met is alive and not in flight ("alive by tree
\* invariant"): the cascade only ever goes down or returns, and so it ends.
CascadeContract ==
  /\ \A k \in DOMAIN despawning :
       k > 1 => node[despawning[k]].parent = despawning[k - 1]
  /\ Cardinality(Range(despawning)) = Len(despawning)
  /\ ~Idle /\ HasChild =>
       node[Victim].first_child \in Alive \ Range(despawning)
=============================================================================
