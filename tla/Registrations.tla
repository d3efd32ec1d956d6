---------------------------- MODULE Registrations ----------------------------
(***************************************************************************)
(* What the bus promises about subscriptions (core/bus/bus.h): per channel *)
(* a list of distinct subscribers in registration order.  A call appends a *)
(* subscriber to one channel unless it is there, or takes it out of one;   *)
(* the subscribers of an entity expire together.  Nothing else moves.      *)
(***************************************************************************)
EXTENDS Functions, Sublist

CONSTANTS
  Key, Subscriber,
  Group         \* the sets of subscribers that expire together, one per entity

VARIABLE registered

\* A list without some of its elements; the others keep their order.
Without(list, gone) == Kept(list, {n \in DOMAIN list : list[n] \notin gone})

Init == registered = [k \in Key |-> <<>>]

Subscribe(key, sub) ==
  registered' = [registered EXCEPT ![key] = IF sub \in Range(@) THEN @ ELSE Append(@, sub)]

Unsubscribe(key, sub) ==
  registered' = [registered EXCEPT ![key] = Without(@, {sub})]

\* Every channel loses the same set of subscribers and keeps the others' order.
Expire(gone) ==
  registered' = [k \in Key |-> Without(registered[k], gone)]

Next ==
  \/ \E key \in Key, sub \in Subscriber : Subscribe(key, sub) \/ Unsubscribe(key, sub)
  \/ \E group \in Group : Expire(group)

Spec == Init /\ [][Next]_registered
=============================================================================
