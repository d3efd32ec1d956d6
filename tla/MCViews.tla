------------------------------- MODULE MCViews -------------------------------
(* Views for TLC: entities and components are interchangeable, and every    *)
(* property is an invariant, so permuting them is sound.                    *)
EXTENDS Views, TLC

Interchangeable == Permutations(Entity) \cup Permutations(Component)
=============================================================================
