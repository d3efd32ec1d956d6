------------------------------- MODULE Handles -------------------------------
(***************************************************************************)
(* What the entity table promises its callers: a handle is issued at most  *)
(* once, is reserved or live from then on until it is retired, and a       *)
(* retired handle never names an entity again (core/ecs/entity.h, header). *)
(***************************************************************************)
CONSTANT Handle      \* every handle a table can issue

VARIABLES
  reserved,   \* issued, not yet live
  live,       \* naming a live entity
  retired     \* stale forever

handleVars == <<reserved, live, retired>>

Issued == reserved \cup live \cup retired

Init == reserved = {} /\ live = {} /\ retired = {}

Reserve(h) ==
  /\ h \in reserved' \ Issued
  /\ reserved' = reserved \cup {h}
  /\ UNCHANGED <<live, retired>>

Issue(h) ==
  /\ h \in live' \ Issued
  /\ live' = live \cup {h}
  /\ UNCHANGED <<reserved, retired>>

GoLive(h) ==
  /\ h \in reserved \cap live'
  /\ reserved' = reserved \ {h}
  /\ live' = live \cup {h}
  /\ UNCHANGED retired

Retire(h) ==
  /\ h \in live \ live'
  /\ live' = live \ {h}
  /\ retired' = retired \cup {h}
  /\ UNCHANGED reserved

Next == \E h \in Handle : Reserve(h) \/ Issue(h) \/ GoLive(h) \/ Retire(h)

Spec == Init /\ [][Next]_handleVars
=============================================================================
