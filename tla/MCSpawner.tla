------------------------------ MODULE MCSpawner ------------------------------
(* Spawner for TLC: a prefab with a machine and a state child, and one with  *)
(* neither.                                                                  *)
EXTENDS Spawner

CONSTANTS Troll, Club, Bolt

Prefabs == {Troll, Bolt}
Parts == {Club}
PartOf == [c \in Parts |-> Troll]
=============================================================================
