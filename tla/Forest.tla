------------------------------- MODULE Forest -------------------------------
(***************************************************************************)
(* The ordered forest the hierarchy promises (core/hierarchy/hierarchy.h): *)
(* sibling order is attach order, a reparent always appends, a cycle is a  *)
(* no-op, and only leaves leave the tree.                                  *)
(***************************************************************************)
EXTENDS Naturals, Sequences, SequencesExt

CONSTANTS Entity, NULL

VARIABLE offspring   \* per entity its children, oldest first; for NULL the roots

Members == UNION {Range(offspring[p]) : p \in Entity \cup {NULL}}

Init == offspring = [p \in Entity \cup {NULL} |-> <<>>]

\* e enters as the last root.
Enter(ch, e) == IF e \in UNION {Range(ch[p]) : p \in DOMAIN ch} THEN ch
                ELSE [ch EXCEPT ![NULL] = Append(@, e)]
\* e leaves the list it is in and becomes the last child of p.
MoveLast(ch, e, p) ==
  [q \in DOMAIN ch |-> IF q = p THEN Append(RemoveFirst(ch[q], e), e) ELSE RemoveFirst(ch[q], e)]

Under(ch, e) ==
  {d \in Entity : \A S \in SUBSET Entity :
     e \in S /\ (\A s \in S : Range(ch[s]) \subseteq S) => d \in S}

Adopt(e) == e \notin Members /\ offspring' = Enter(offspring, e)

\* An attach enters strangers first; below itself an entity does not go.
Attach(e, p) ==
  LET entered == IF p = NULL THEN Enter(offspring, e) ELSE Enter(Enter(offspring, e), p)
  IN  offspring' = IF p \in Under(entered, e) THEN entered ELSE MoveLast(entered, e, p)

RemoveLeaf(e) ==
  /\ offspring[e] = <<>>
  /\ offspring' = [q \in DOMAIN offspring |-> RemoveFirst(offspring[q], e)]

Next ==
  \/ \E e \in Entity : Adopt(e) \/ RemoveLeaf(e)
  \/ \E e \in Entity, p \in Entity \cup {NULL} : Attach(e, p)

Spec == Init /\ [][Next]_offspring
=============================================================================
