------------------------------ MODULE Lifetime ------------------------------
(***************************************************************************)
(* What the prefab spawner promises each entity (core/loader/              *)
(* prefab_spawn.h): it is reserved, goes up, is built and entered, leaves  *)
(* through its exit hooks while it is still alive, children before their   *)
(* parent, is gone only after it left, and is mourned only after it is     *)
(* gone.  An entity that left with its parent and was moved away from it   *)
(* before the removal is spared: its end is noted, and it lives on.        *)
(***************************************************************************)
CONSTANTS
  Entity,
  Machined     \* the entities that host a machine

VARIABLES
  stage,       \* how far the life of each entity has come
  parent,      \* its parent
  moving,      \* the entities a queued reparent is about to move
  condemned,   \* the entities a queued removal names
  refused      \* the journal refuses records

lifetimeVars == <<stage, parent, moving, condemned, refused>>

Born ==
  {<<"none", "reserved">>, <<"reserved", "up">>, <<"reserved", "gone">>, <<"up", "gone">>,
   <<"left", "gone">>, <<"gone", "noted">>, <<"gone", "told">>, <<"noted", "told">>,
   <<"left", "spared">>, <<"spared", "noted">>}

\* An entity without a machine is entered as soon as it is built.
Edges(e) ==
  Born \cup
    (IF e \in Machined
       THEN {<<"none", "built">>, <<"up", "built">>, <<"built", "entered">>,
             <<"entered", "leaving">>, <<"leaving", "left">>}
       ELSE {<<"none", "entered">>, <<"up", "entered">>, <<"entered", "left">>})

\* Two ways to end without having left: a refused record skips exit hooks, and
\* an entity moved below a dying one in the same flush is not known to it.
Excused(e) ==
  \/ stage'[e] = "gone" /\ (refused \/ e \in moving)
  \/ stage'[e] = "spared" /\ refused

Init ==
  /\ stage = [e \in Entity |-> "none"]
  /\ moving = {}
  /\ condemned = {}
  /\ refused = FALSE

Next ==
  /\ \A e \in Entity :
       stage'[e] # stage[e] => <<stage[e], stage'[e]>> \in Edges(e) \/ Excused(e)
  /\ \A e, c \in Entity :
       /\ parent[c] = e
       /\ stage'[e] = "left" /\ stage[e] # "left"
       => stage[c] \in {"left", "spared"} \/ refused
  /\ \A e \in Entity : stage'[e] = "spared" /\ stage[e] # "spared" => condemned = {}

Spec == Init /\ [][Next]_lifetimeVars
=============================================================================
