------------------------------ MODULE Physics -------------------------------
(***************************************************************************)
(* physics::PhysicsServer (core/physics/physics_server.cpp) in its phase   *)
(* of the tick: bodies bound to entities, the PhysicsBody pool, the step   *)
(* that reaps the bodies of dead entities, and the contact events, whose   *)
(* listeners are user code again.                                          *)
(*                                                                         *)
(* The solver is external: which bodies touch after a step is any set of   *)
(* pairs, which free index it hands out any of them, and poses are left    *)
(* out.  An entity is a handle, which lives once; its row is in the pool   *)
(* of Pool, whose values are body ids.                                     *)
(***************************************************************************)
EXTENDS Pool, TickLoop, SequencesExt

CONSTANTS
  MaxBodies,       \* PhysicsConfig::max_bodies
  MaxSequence,     \* bound on the uses of one body index
  NoBody,          \* the null PhysicsBodyId
  None,            \* the null handle
  UserPhases,      \* when user code runs, input and physics apart: the phases
                   \* whose hooks call it, 0 for the host between ticks
  ListenersRebind  \* do listeners of contact events create and destroy bodies

Body == [index : 1 .. MaxBodies, sequence : 1 .. MaxSequence]

ASSUME PhysicsAssumption ==
  /\ MaxBodies \in Nat /\ MaxSequence \in Nat /\ ListenersRebind \in BOOLEAN
  /\ UserPhases \subseteq {0} \cup ((kInput + 1 .. kTickEnd - 1) \ {kPhysics})
  /\ NoBody \notin Body /\ Value = Body \cup {NoBody} /\ None \notin Entity

VARIABLES
  alive,      \* the handles of live entities
  bindings,   \* bindings, by body index
  made,       \* the entities each body index was handed out for, in order
  touching,   \* the solver's contact cache
  stepped,    \* the last tick whose physics step ran
  contacts,   \* the contacts of the step, sorted, the one being told first
  telling,    \* which side of the first contact has its event being heard
  event       \* that event

bodyVars == <<alive, set, bindings, made, touching>>
contactVars == <<stepped, contacts, telling, event>>
physicsVars == <<tickVars, bodyVars, contactVars>>

Unbound == [entity |-> None, id |-> NoBody]
NoEvent == [self |-> None, other |-> None]

PhysicsInit ==
  /\ TickInit /\ PoolInit
  /\ alive = Entity
  /\ bindings = [i \in 1 .. MaxBodies |-> Unbound]
  /\ made = [i \in 1 .. MaxBodies |-> <<>>]
  /\ touching = {} /\ stepped = 0
  /\ contacts = <<>> /\ telling = "none" /\ event = NoEvent

\* Mutant: an index is taken for a body.
binding_of_index(id) == bindings[id.index]

\* The binding of a body id; Unbound for one destroyed since.
binding_of(id) == IF bindings[id.index].id = id THEN bindings[id.index] ELSE Unbound

body_of_entity(e) == IF contains(set, e) THEN RowOf(set, e).value ELSE NoBody

\* User code runs between ticks, in the hooks of the open phases and of the
\* structural phase, and in the listeners of inputs and of contacts.
HeardInput == resolved # <<>> /\ Last(resolved).tick = tick
Listening == telling # "none"
UserRuns ==
  \/ phase \in UserPhases
  \/ phase = kInput /\ HeardInput
  \/ phase = kPhysics /\ (Listening \/ contacts = <<>>)
MayRebind == UserRuns /\ (Listening => ListenersRebind)

-----------------------------------------------------------------------------
\* The world: despawns, and the dormancy that toggles rows.
\* The rows go, the body stays until the next step.
despawn(e) ==
  /\ UserRuns /\ e \in alive
  /\ alive' = alive \ {e}
  /\ erase(e) \/ (~contains(set, e) /\ UNCHANGED set)
  /\ UNCHANGED <<tickVars, bindings, made, touching, contactVars>>

set_dormant(e, bit) ==
  /\ UserRuns
  /\ set_active(e, bit)
  /\ UNCHANGED <<tickVars, alive, bindings, made, touching, contactVars>>

\* bind_body, for boxes and for the ground: refused for a dead entity, for one
\* that has a body, and when the solver has none left.  A row left by an
\* earlier body is written and switched on, else one is emplaced.
create_body(e, i) ==
  /\ MayRebind /\ e \in alive
  /\ body_of_entity(e) = NoBody
  /\ bindings[i] = Unbound /\ Len(made[i]) < MaxSequence
  /\ LET id == [index |-> i, sequence |-> Len(made[i]) + 1] IN
     /\ bindings' = [bindings EXCEPT ![i] = [entity |-> e, id |-> id]]
     /\ write(e, id, TRUE) \/ emplace(e, id, TRUE)
  /\ made' = [made EXCEPT ![i] = Append(@, e)]
  /\ UNCHANGED <<tickVars, alive, touching, contactVars>>

\* Mutant: the row keeps the id.
destroy_body_keeps_id(e) ==
  /\ MayRebind /\ e \in alive
  /\ body_of_entity(e) # NoBody /\ binding_of(body_of_entity(e)) # Unbound
  /\ bindings' = [bindings EXCEPT ![body_of_entity(e).index] = Unbound]
  /\ set_active(e, FALSE)
  /\ UNCHANGED <<tickVars, alive, made, touching, contactVars>>

\* The row stays, null and off: there is no way to remove a component.
destroy_body(e) ==
  /\ MayRebind /\ e \in alive
  /\ body_of_entity(e) # NoBody /\ binding_of(body_of_entity(e)) # Unbound
  /\ bindings' = [bindings EXCEPT ![body_of_entity(e).index] = Unbound]
  /\ write(e, NoBody, FALSE)
  /\ UNCHANGED <<tickVars, alive, made, touching, contactVars>>

-----------------------------------------------------------------------------
\* Pairs are told in the order of their ids, the sequence number in the high
\* bits, and so are the two sides of a pair.
Below(a, b) == a.sequence < b.sequence \/ (a.sequence = b.sequence /\ a.index < b.index)
PairBelow(p, q) == Below(p.a, q.a) \/ (p.a = q.a /\ Below(p.b, q.b))

Living == {bindings[i].id : i \in {j \in 1 .. MaxBodies : bindings[j] # Unbound}}
Pairs == {[a |-> a, b |-> b] : a, b \in Living}

Owner(id) == binding_of(id).entity
\* The lists a sort can make of a set of pairs: there is one.
Collected(pairs) ==
  {list \in [1 .. Cardinality(pairs) -> pairs] :
     \A m, n \in DOMAIN list : m < n => PairBelow(list[m], list[n])}

\* on_phase up to the dispatch: the solver steps, and then the bodies of dead
\* entities are destroyed; what was collected before that stays collected.
step ==
  /\ phase = kPhysics /\ stepped < tick
  /\ stepped' = tick
  /\ \E now \in SUBSET {p \in Pairs : Below(p.a, p.b)} :
       /\ touching' = now
       /\ \E began \in Collected(now \ touching), ended \in Collected(touching \ now) :
            contacts' = began \o ended
  /\ bindings' = [i \in DOMAIN bindings |->
                    IF bindings[i] # Unbound /\ bindings[i].entity \notin alive THEN Unbound ELSE bindings[i]]
  /\ UNCHANGED <<tickVars, alive, set, made, telling, event>>

\* trigger_pair: both bindings are looked up before the first event.
Contact == Head(contacts)
Bound == binding_of(Contact.a) # Unbound /\ binding_of(Contact.b) # Unbound

skip_contact ==
  /\ contacts # <<>> /\ ~Listening /\ ~Bound
  /\ contacts' = Tail(contacts)
  /\ UNCHANGED <<tickVars, bodyVars, stepped, telling, event>>

tell_first ==
  /\ contacts # <<>> /\ ~Listening /\ Bound
  /\ telling' = "first"
  /\ event' = [self |-> Owner(Contact.a), other |-> Owner(Contact.b)]
  /\ UNCHANGED <<tickVars, bodyVars, stepped, contacts>>

\* The second event is made of what the two bindings hold by then.
tell_second ==
  /\ telling = "first"
  /\ telling' = "second"
  /\ event' = [self |-> bindings[Contact.b.index].entity, other |-> bindings[Contact.a.index].entity]
  /\ UNCHANGED <<tickVars, bodyVars, stepped, contacts>>

told ==
  /\ telling = "second"
  /\ telling' = "none" /\ event' = NoEvent
  /\ contacts' = Tail(contacts)
  /\ UNCHANGED <<tickVars, bodyVars, stepped>>

Dispatching == skip_contact \/ tell_first \/ tell_second \/ told

-----------------------------------------------------------------------------
\* The loop: its physics phase is over when the server is.
BodyOver == phase = kPhysics => stepped = tick /\ contacts = <<>>

Loop ==
  /\ Ticking \/ (BodyOver /\ next_phase)
  /\ UNCHANGED <<bodyVars, contactVars>>

UserCalls ==
  \/ \E e \in Entity :
       \/ despawn(e) \/ destroy_body(e)
       \/ \E bit \in BOOLEAN : set_dormant(e, bit)
       \/ \E i \in 1 .. MaxBodies : create_body(e, i)
  \/ \E i \in Input : UserRuns /\ inject(i) /\ UNCHANGED <<bodyVars, contactVars>>

PhysicsNext == UserCalls \/ step \/ Dispatching \/ Loop

PhysicsSpec == PhysicsInit /\ [][PhysicsNext]_physicsVars

-----------------------------------------------------------------------------
\* The PhysicsBody rows and the bindings of the server name each other, for
\* every live entity and whatever was despawned, destroyed, reaped or put to
\* sleep: no entity is left with a body it cannot destroy, or without the one
\* that moves it.
BodiesMatchRows ==
  /\ \A i \in 1 .. MaxBodies :
       bindings[i] # Unbound /\ bindings[i].entity \in alive =>
         body_of_entity(bindings[i].entity) = bindings[i].id
  /\ \A e \in Entity :
       body_of_entity(e) # NoBody =>
         e \in alive /\ binding_of(body_of_entity(e)).entity = e

\* "Per pair (a, b) ...: first the trigger on a's entity channel {self: a,
\* other: b}, then on b's" (physics_server.h): each contact event names the two
\* entities whose bodies met, never one that took over the index of a body.
ContactsNameOwners ==
  Listening =>
    LET owner(id) == made[id.index][id.sequence] IN
    event = IF telling = "first"
              THEN [self |-> owner(Contact.a), other |-> owner(Contact.b)]
              ELSE [self |-> owner(Contact.b), other |-> owner(Contact.a)]
=============================================================================
