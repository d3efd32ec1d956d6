------------------------------- MODULE EventBus -------------------------------
(***************************************************************************)
(* bus::Bus (core/bus/bus.h, bus.cpp): keyed channels of subscriptions,    *)
(* synchronous dispatch in registration order, and structure deferred to   *)
(* the end of the outermost dispatch.                                      *)
(*                                                                         *)
(* One thread runs the bus; what interleaves is re-entry.  A listener      *)
(* subscribes, unsubscribes, triggers and despawns from inside on_event,   *)
(* so the calls in flight are the stack `frames`, innermost last, and a    *)
(* call is possible at depth 0 or while the innermost listener runs.       *)
(***************************************************************************)
EXTENDS SequencesExt, Sublist

CONSTANTS
  Key,          \* channel keys (the null key is refused by every call)
  Entity,       \* entity handles
  Plain,        \* plain listeners: no generation gate
  Thunk,        \* (entity, component thunk) subscriptions
  Seat,         \* (entity, listener) subscriptions
  entity_of,    \* the entity of a Thunk or a Seat
  kMaxCascadeDepth,
  MaxDeferred   \* bound on deferred_

Subscriber == Plain \cup Thunk \cup Seat

ASSUME BusAssumption ==
  /\ kMaxCascadeDepth \in Nat \ {0}
  /\ MaxDeferred \in Nat
  /\ Plain \cap (Thunk \cup Seat) = {} /\ Thunk \cap Seat = {}
  /\ entity_of \in [Thunk \cup Seat -> Entity]

VARIABLES
  entries,    \* per key, its channel: subscriptions in registration order
  dirty,      \* dirty_channels_: the keys with dead entries, first marked first
  deferred,   \* deferred_: structure queued during a dispatch
  frames,     \* the dispatches in flight
  life,       \* the world: pending, alive or stale per entity
  awake       \* the thunks whose component is present and active

structureVars == <<entries, dirty, deferred>>
worldVars == <<life, awake>>
busVars == <<structureVars, frames, worldVars>>

Entry == [sub : Subscriber, dead : BOOLEAN]
DeferredOp == [kind : {"subscribe", "unsubscribe"}, key : Key, sub : Subscriber]

\* A dispatch: its channel, the entry it is at, how many it froze, and whether
\* that entry's listener is running.  `roster` and `heard` are history: who was
\* subscribed when it began, who was called.
Frame == [key : Key, at : Nat, count : Nat, running : BOOLEAN,
          roster : Seq(Subscriber), heard : Seq(Subscriber)]

BusInit ==
  /\ entries = [k \in Key |-> <<>>]
  /\ dirty = <<>> /\ deferred = <<>> /\ frames = <<>>
  /\ life \in [Entity -> {"pending", "alive"}]
  /\ awake = Thunk

Depth == Len(frames)
Top == frames[Depth]
SetTop(frame) == [frames EXCEPT ![Depth] = frame]

\* Code outside the bus has control: the caller, or the innermost listener.
Calling == Depth # 0 => Top.running

Live(channel) == {a \in DOMAIN channel : ~channel[a].dead}
LiveIn(channel, sub) == \E a \in Live(channel) : channel[a].sub = sub
SubsAt(channel, positions) ==
  [n \in 1 .. Cardinality(positions) |-> channel[Nth(positions, n)].sub]
LiveSubs(channel) == SubsAt(channel, Live(channel))

-----------------------------------------------------------------------------
\* add_subscription and erase_live on one channel: a duplicate is refused (or
\* dropped, when deferred), an absent one is a counted no-op.
add_entry(channel, sub) ==
  IF LiveIn(channel, sub) THEN channel ELSE Append(channel, [sub |-> sub, dead |-> FALSE])
erase_live(channel, sub) ==
  Kept(channel, {a \in DOMAIN channel : channel[a].dead \/ channel[a].sub # sub})

apply_op(channels, op) ==
  [channels EXCEPT ![op.key] = IF op.kind = "subscribe" THEN add_entry(@, op.sub)
                                                        ELSE erase_live(@, op.sub)]

\* Mutant: the queue is drained from its end.
drain_reversed(channels, queue) ==
  LET after[n \in 0 .. Len(queue)] ==
        IF n = 0 THEN channels ELSE apply_op(after[n - 1], queue[Len(queue) + 1 - n])
  IN  after[Len(queue)]

\* apply_deferred, its first half: the queue in queue order.
drain(channels, queue) ==
  LET after[n \in 0 .. Len(queue)] ==
        IF n = 0 THEN channels ELSE apply_op(after[n - 1], queue[n])
  IN  after[Len(queue)]

\* Mutant: only the first dirty channel is compacted.
compact_first(channels, keys) ==
  [k \in Key |-> IF keys # <<>> /\ k = keys[1] THEN Kept(channels[k], Live(channels[k]))
                                               ELSE channels[k]]

\* Its second half: dead entries leave the dirty channels.
compact(channels, keys) ==
  [k \in Key |-> IF k \in Range(keys) THEN Kept(channels[k], Live(channels[k])) ELSE channels[k]]

-----------------------------------------------------------------------------
\* check_subscribable: alive and pending entities may be subscribed.
check_subscribable(sub) == sub \notin Plain => life[entity_of[sub]] # "stale"

\* subscribe / unsubscribe: at once at depth 0, deferred while dispatching.
change(op) ==
  /\ Calling
  /\ IF Depth = 0
     THEN entries' = apply_op(entries, op) /\ UNCHANGED deferred
     ELSE /\ Len(deferred) < MaxDeferred
          /\ deferred' = Append(deferred, op)
          /\ UNCHANGED entries
  /\ UNCHANGED <<dirty, frames, worldVars>>

subscribe(sub, key) ==
  check_subscribable(sub) /\ change([kind |-> "subscribe", key |-> key, sub |-> sub])
unsubscribe(sub, key) == change([kind |-> "unsubscribe", key |-> key, sub |-> sub])

\* trigger: the call that is accepted.  One past the cap, with a payload its
\* schema refuses, or whose record the journal refuses returns an error before
\* any effect on the bus: a stuttering step.
trigger(key) ==
  /\ Calling /\ Depth < kMaxCascadeDepth
  /\ frames' = IF entries[key] = <<>> THEN frames
               ELSE Append(frames, [key |-> key, at |-> 1, count |-> Len(entries[key]),
                                    running |-> FALSE,
                                    roster |-> LiveSubs(entries[key]), heard |-> <<>>])
  /\ UNCHANGED <<structureVars, worldVars>>

-----------------------------------------------------------------------------
\* dispatch: one entry of the frozen channel per step.
Scanning == Depth # 0 /\ ~Top.running /\ Top.at <= Top.count
Here == entries[Top.key][Top.at]
Gate == IF Here.sub \in Plain THEN "alive" ELSE life[entity_of[Here.sub]]
Advance == frames' = SetTop([Top EXCEPT !.at = @ + 1])

deliver ==
  /\ Scanning /\ ~Here.dead /\ Gate = "alive"
  /\ Here.sub \in Thunk => Here.sub \in awake
  /\ frames' = SetTop([Top EXCEPT !.running = TRUE, !.heard = Append(@, Here.sub)])
  /\ UNCHANGED <<structureVars, worldVars>>

\* Dead already, pending (kept: it wakes at the flush), or a component that is
\* missing or inactive (kept: dormant parts hear nothing).
skip ==
  /\ Scanning
  /\ \/ Here.dead
     \/ Gate = "pending"
     \/ Gate = "alive" /\ Here.sub \in Thunk \ awake
  /\ Advance
  /\ UNCHANGED <<structureVars, worldVars>>

\* Mutant: the entry is dropped from the frozen channel on the spot, and the
\* scan moves on.
drop_stale_now ==
  /\ Scanning /\ ~Here.dead /\ Gate = "stale"
  /\ entries' = [entries EXCEPT ![Top.key] = RemoveAt(@, Top.at)]
  /\ frames' = SetTop([Top EXCEPT !.at = @ + 1, !.count = @ - 1])
  /\ UNCHANGED <<dirty, deferred, worldVars>>

\* A stale entity is unsubscribed: marked dead, removed when depth returns to 0.
drop_stale ==
  /\ Scanning /\ ~Here.dead /\ Gate = "stale"
  /\ entries' = [entries EXCEPT ![Top.key][Top.at].dead = TRUE]
  /\ dirty' = IF Top.key \in Range(dirty) THEN dirty ELSE Append(dirty, Top.key)
  /\ Advance
  /\ UNCHANGED <<deferred, worldVars>>

listener_return ==
  /\ Depth # 0 /\ Top.running
  /\ frames' = SetTop([Top EXCEPT !.running = FALSE, !.at = @ + 1])
  /\ UNCHANGED <<structureVars, worldVars>>

\* Mutant: the applied queue is kept.
end_dispatch_keeps_queue ==
  /\ Depth # 0 /\ ~Top.running /\ Top.at > Top.count
  /\ frames' = Front(frames)
  /\ entries' = IF Depth = 1 THEN compact(drain(entries, deferred), dirty) ELSE entries
  /\ dirty' = IF Depth = 1 THEN <<>> ELSE dirty
  /\ UNCHANGED <<deferred, worldVars>>

\* The level ends; the outermost one applies the queue and compacts.
end_dispatch ==
  /\ Depth # 0 /\ ~Top.running /\ Top.at > Top.count
  /\ frames' = Front(frames)
  /\ IF Depth = 1
     THEN /\ entries' = compact(drain(entries, deferred), dirty)
          /\ deferred' = <<>> /\ dirty' = <<>>
     ELSE UNCHANGED structureVars
  /\ UNCHANGED <<worldVars>>

-----------------------------------------------------------------------------
\* The world and the writer, driven by whoever has control.
despawn(e) ==
  /\ Calling /\ life[e] = "alive"
  /\ life' = [life EXCEPT ![e] = "stale"]
  /\ awake' = awake \ {t \in Thunk : entity_of[t] = e}
  /\ UNCHANGED <<structureVars, frames>>

flush_alive(e) ==
  /\ Calling /\ life[e] = "pending"
  /\ life' = [life EXCEPT ![e] = "alive"]
  /\ UNCHANGED <<structureVars, frames, awake>>

toggle(t) ==
  /\ Calling /\ life[entity_of[t]] = "alive"
  /\ awake' = IF t \in awake THEN awake \ {t} ELSE awake \cup {t}
  /\ UNCHANGED <<structureVars, frames, life>>

Dispatching == deliver \/ skip \/ drop_stale \/ listener_return \/ end_dispatch

BusNext ==
  \/ \E sub \in Subscriber, key \in Key : subscribe(sub, key) \/ unsubscribe(sub, key)
  \/ \E key \in Key : trigger(key)
  \/ Dispatching
  \/ \E e \in Entity : despawn(e) \/ flush_alive(e)
  \/ \E t \in Thunk : toggle(t)

BusSpec == BusInit /\ [][BusNext]_busVars

\* A dispatch runs on, and a listener returns: it does not trigger forever.
FairBusSpec ==
  /\ BusSpec
  /\ WF_busVars(deliver \/ skip \/ drop_stale \/ end_dispatch)
  /\ \A d \in 1 .. kMaxCascadeDepth : SF_busVars(Depth = d /\ listener_return)

-----------------------------------------------------------------------------
\* Type invariant; at most kMaxCascadeDepth dispatches nest.
BusTypeOK ==
  /\ \A k \in Key : \A a \in DOMAIN entries[k] : entries[k][a] \in Entry
  /\ Range(dirty) \subseteq Key /\ Range(deferred) \subseteq DeferredOp
  /\ Len(frames) <= kMaxCascadeDepth
  /\ \A f \in Range(frames) :
       /\ f.key \in Key /\ f.running \in BOOLEAN
       /\ f.at \in 1 .. f.count + 1
  /\ life \in [Entity -> {"pending", "alive", "stale"}] /\ awake \subseteq Thunk

\* No channel holds two live subscriptions of one identity, and a dead entry
\* is always in a channel the outermost dispatch will compact: at depth 0
\* nothing is dead, dirty or queued (apply_deferred, bus.cpp).
StructureSettled ==
  /\ BusTypeOK
  /\ \A k \in Key : \A a, b \in DOMAIN entries[k] :
       ~entries[k][a].dead /\ ~entries[k][b].dead /\ entries[k][a].sub = entries[k][b].sub => a = b
  /\ Range(dirty) = {k \in Key : \E a \in DOMAIN entries[k] : entries[k][a].dead}
  /\ Depth = 0 => deferred = <<>> /\ dirty = <<>>

\* Who hears an event: the subscribers of the channel when it was triggered,
\* each at most once and in registration order, whatever listeners change on
\* the way; a plain listener the dispatch has passed has always heard it
\* ("registration order", "the vector is frozen here").
HeardInOrder ==
  \A f \in Range(frames) :
    /\ IsSublist(f.heard, f.roster) /\ IsInjective(f.roster)
    /\ f.at > f.count => Plain \cap Range(f.roster) \subseteq Range(f.heard)

\* Who is registered once the queue is applied, on each channel; the
\* subscribers of a stale entity no longer count.
Standing(channel) == {a \in Live(channel) : check_subscribable(channel[a].sub)}
Registered ==
  LET settled == drain(entries, deferred)
  IN  [k \in Key |-> SubsAt(settled[k], Standing(settled[k]))]
OwnedBy(e) == {s \in Thunk \cup Seat : entity_of[s] = e}
Registry == INSTANCE Registrations WITH registered <- Registered,
                                        Group <- {OwnedBy(e) : e \in Entity}

\* What each call does to the registrations: what it says, and no more.
CallMeans ==
  /\ \A sub \in Subscriber, key \in Key :
       /\ subscribe(sub, key) => Registry!Subscribe(key, sub)
       /\ unsubscribe(sub, key) => Registry!Unsubscribe(key, sub)
  /\ \A e \in Entity :
       /\ despawn(e) => Registry!Expire(OwnedBy(e))
       /\ flush_alive(e) => UNCHANGED Registered
  /\ \A key \in Key : trigger(key) => UNCHANGED Registered
  /\ \A t \in Thunk : toggle(t) => UNCHANGED Registered
  /\ Dispatching => UNCHANGED Registered

\* A subscription change means the same inside a dispatch and out, in the order
\* of the calls; a despawn expires its own subscribers; delivering, skipping,
\* dropping what is stale and ending a dispatch change no registration.
RegistrationsKept == Registry!Spec /\ [][CallMeans]_busVars

\* A change queued by a listener is applied once the outermost dispatch ends,
\* and it does end.
QueuedChangesApplied == deferred # <<>> ~> deferred = <<>>
=============================================================================
