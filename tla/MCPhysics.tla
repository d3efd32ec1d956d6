------------------------------ MODULE MCPhysics ------------------------------
(* Physics for TLC: the values of the PhysicsBody pool are the body ids.     *)
EXTENDS Physics, TLC

BodyIds == [index : 1 .. MaxBodies, sequence : 1 .. MaxSequence] \cup {NoBody}
Interchangeable == Permutations(Entity)
=============================================================================
