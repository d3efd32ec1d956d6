----------------------------- MODULE MCHierarchy -----------------------------
(***************************************************************************)
(* The hierarchy runs.  Dormancy and transforms share the links and touch  *)
(* nothing of each other, in no guard and no assignment, so each run looks *)
(* at the links and its own half: two states that differ in the other half *)
(* have the same futures there.                                            *)
(***************************************************************************)
EXTENDS Hierarchy, TLC

Links(n) == <<n.parent, n.first_child, n.last_child, n.prev_sibling, n.next_sibling>>

DormancyView ==
  <<life, adopted, row, despawning,
    [e \in DOMAIN node |->
       <<Links(node[e]), node[e].dormant_depth, node[e].deactivated, node[e].saved>>]>>

TransformView ==
  <<life, adopted, local, world, any_transform_dirty, order, despawning,
    [e \in DOMAIN node |->
       <<Links(node[e]), node[e].transform_dirty, node[e].transform_dirty_below>>]>>

Interchangeable == Permutations(Entity)
=============================================================================
