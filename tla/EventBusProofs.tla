---------------------------- MODULE EventBusProofs ----------------------------
(***************************************************************************)
(* Subscriptions settle when the outermost dispatch ends and an event is   *)
(* heard by its roster in order: for all channels, listeners and depths of *)
(* re-entry.                                                               *)
(***************************************************************************)
EXTENDS EventBus, SublistProofs

\* A channel whose live subscriptions are distinct.
Channel(c) ==
  /\ c \in Seq(Entry)
  /\ \A a, b \in 1 .. Len(c) : ~c[a].dead /\ ~c[b].dead /\ c[a].sub = c[b].sub => a = b

HasDead(c) == \E a \in 1 .. Len(c) : c[a].dead

LEMMA AddEntry ==
  ASSUME NEW c, Channel(c), NEW sub \in Subscriber
  PROVE  Channel(add_entry(c, sub)) /\ (HasDead(add_entry(c, sub)) <=> HasDead(c))
<1>1. CASE LiveIn(c, sub)
  BY <1>1 DEF add_entry
<1>2. CASE ~LiveIn(c, sub)
  <2>1. add_entry(c, sub) = Append(c, [sub |-> sub, dead |-> FALSE]) /\ c \in Seq(Entry)
    BY <1>2 DEF add_entry, Channel
  <2>2. [sub |-> sub, dead |-> FALSE] \in Entry
    BY DEF Entry
  <2>3. \A a \in 1 .. Len(c) : c[a].dead \/ c[a].sub # sub
    BY <1>2 DEF LiveIn, Live, Channel
  <2>4. PICK t : t = add_entry(c, sub)
    OBVIOUS
  <2>5. /\ t \in Seq(Entry) /\ Len(t) = Len(c) + 1 /\ \A a \in 1 .. Len(c) : t[a] = c[a]
        /\ t[Len(c) + 1] = [sub |-> sub, dead |-> FALSE]
    BY <2>1, <2>2, <2>4
  <2>6. \A a \in 1 .. Len(t) : a \in 1 .. Len(c) \/ a = Len(c) + 1
    BY <2>1, <2>5
  <2>7. Channel(t)
    BY <2>3, <2>5, <2>6 DEF Channel
  <2>8. HasDead(t) <=> HasDead(c)
    BY <2>1, <2>5, <2>6 DEF HasDead
  <2>. QED BY <2>4, <2>7, <2>8
<1>. QED BY <1>1, <1>2

\* Erasing entries of a channel leaves a channel.
LEMMA KeptChannel ==
  ASSUME NEW c, Channel(c), NEW S \in SUBSET DOMAIN c
  PROVE  /\ Channel(Kept(c, S))
         /\ HasDead(Kept(c, S)) <=> \E a \in S : c[a].dead
<1>1. c \in Seq(Entry) /\ DOMAIN c = 1 .. Len(c)
  BY DEF Channel
<1>2. PICK t : t = Kept(c, S)
  OBVIOUS
<1>3. /\ t \in Seq(Entry) /\ Len(t) = Cardinality(S)
      /\ \A n \in 1 .. Cardinality(S) : Nth(S, n) \in S /\ t[n] = c[Nth(S, n)]
      /\ \A m, n \in 1 .. Cardinality(S) : m # n => Nth(S, m) # Nth(S, n)
      /\ \A p \in S : \E n \in 1 .. Cardinality(S) : Nth(S, n) = p
  BY <1>1, <1>2, KeptFacts
<1>4. Channel(t)
  BY <1>1, <1>3 DEF Channel
<1>5. HasDead(t) <=> \E a \in S : c[a].dead
  BY <1>3 DEF HasDead
<1>. QED BY <1>2, <1>4, <1>5

LEMMA EraseLive ==
  ASSUME NEW c, Channel(c), NEW sub
  PROVE  Channel(erase_live(c, sub)) /\ (HasDead(erase_live(c, sub)) <=> HasDead(c))
<1> DEFINE S == {a \in DOMAIN c : c[a].dead \/ c[a].sub # sub}
<1>1. Channel(Kept(c, S)) /\ (HasDead(Kept(c, S)) <=> \E a \in S : c[a].dead)
  BY KeptChannel
<1>2. (\E a \in S : c[a].dead) <=> HasDead(c)
  BY DEF HasDead, Channel
<1>. QED BY <1>1, <1>2 DEF erase_live

\* The channels, and the keys of those with dead entries.
Channels(channels) == channels \in [Key -> Seq(Entry)] /\ \A k \in Key : Channel(channels[k])
DeadKeys(channels) == {k \in Key : HasDead(channels[k])}

LEMMA ApplyOp ==
  ASSUME NEW channels, Channels(channels), NEW op \in DeferredOp
  PROVE  Channels(apply_op(channels, op)) /\ DeadKeys(apply_op(channels, op)) = DeadKeys(channels)
<1>1. op.key \in Key /\ op.sub \in Subscriber /\ op.kind \in {"subscribe", "unsubscribe"}
  BY DEF DeferredOp
<1>2. Channel(channels[op.key])
  BY <1>1 DEF Channels
<1>3. PICK c : /\ c = IF op.kind = "subscribe" THEN add_entry(channels[op.key], op.sub)
                                               ELSE erase_live(channels[op.key], op.sub)
               /\ Channel(c) /\ (HasDead(c) <=> HasDead(channels[op.key]))
  BY <1>1, <1>2, AddEntry, EraseLive
<1>4. apply_op(channels, op) = [channels EXCEPT ![op.key] = c]
  BY <1>3 DEF apply_op
<1>5. c \in Seq(Entry)
  BY <1>3 DEF Channel
<1>6. Channels(apply_op(channels, op))
  BY <1>1, <1>3, <1>4, <1>5 DEF Channels
<1>7. DeadKeys(apply_op(channels, op)) = DeadKeys(channels)
  BY <1>1, <1>3, <1>4 DEF Channels, DeadKeys
<1>. QED BY <1>6, <1>7

\* The states of the channels while the queue is drained: there are such, and
\* the last one is what drain returns.
Drained(after, channels, queue, n) ==
  after = [m \in 0 .. n |-> IF m = 0 THEN channels ELSE apply_op(after[m - 1], queue[m])]

LEMMA DrainedExists ==
  ASSUME NEW channels, NEW queue, NEW n \in Nat
  PROVE  \E after : Drained(after, channels, queue, n)
<1> DEFINE Bad == {m \in Nat : ~\E after : Drained(after, channels, queue, m)}
<1>. SUFFICES ASSUME n \in Bad PROVE FALSE
  OBVIOUS
<1>1. PICK m \in Bad : \A l \in Bad : m <= l
  BY LeastOf
<1>2. CASE m = 0
  <2>1. Drained([l \in 0 .. 0 |-> channels], channels, queue, 0)
    BY DEF Drained
  <2>. QED BY <1>2, <2>1
<1>3. CASE m # 0
  <2>1. m - 1 \in Nat /\ m - 1 \notin Bad
    BY <1>1, <1>3
  <2>2. PICK g : Drained(g, channels, queue, m - 1)
    BY <2>1
  <2>. DEFINE h == [l \in 0 .. m |-> IF l = m THEN apply_op(g[m - 1], queue[m]) ELSE g[l]]
  <2>3. ASSUME NEW l \in 0 .. m
        PROVE  h[l] = IF l = 0 THEN channels ELSE apply_op(h[l - 1], queue[l])
    <3>1. CASE l = m
      <4>1. h[l - 1] = g[m - 1] /\ l # 0
        BY <1>3, <3>1
      <4>. QED BY <3>1, <4>1
    <3>2. CASE l # m
      <4>1. l \in 0 .. m - 1 /\ h[l] = g[l] /\ (l # 0 => h[l - 1] = g[l - 1])
        BY <3>2
      <4>2. g[l] = IF l = 0 THEN channels ELSE apply_op(g[l - 1], queue[l])
        BY <2>2, <4>1 DEF Drained
      <4>. QED BY <4>1, <4>2
    <3>. QED BY <3>1, <3>2
  <2>4. h = [l \in 0 .. m |-> h[l]]
    OBVIOUS
  <2>5. Drained(h, channels, queue, m)
    BY <2>3, <2>4, Zenon DEF Drained
  <2>. QED BY <2>5
<1>. QED BY <1>2, <1>3

LEMMA DrainSteps ==
  ASSUME NEW channels, NEW queue, Len(queue) \in Nat
  PROVE  \E after : /\ drain(channels, queue) = after[Len(queue)]
                    /\ after[0] = channels
                    /\ \A m \in 1 .. Len(queue) : after[m] = apply_op(after[m - 1], queue[m])
<1> DEFINE after == CHOOSE g : Drained(g, channels, queue, Len(queue))
<1>1. drain(channels, queue) = after[Len(queue)]
  BY DEF drain, Drained
<1>2. Drained(after, channels, queue, Len(queue))
  BY DrainedExists
<1>. HIDE DEF after
<1>3. after[0] = channels /\ \A m \in 1 .. Len(queue) : after[m] = apply_op(after[m - 1], queue[m])
  BY <1>2 DEF Drained
<1>. QED BY <1>1, <1>3

LEMMA DrainCorrect ==
  ASSUME NEW channels, Channels(channels), NEW queue \in Seq(DeferredOp)
  PROVE  Channels(drain(channels, queue)) /\ DeadKeys(drain(channels, queue)) = DeadKeys(channels)
<1>1. Len(queue) \in Nat /\ \A m \in 1 .. Len(queue) : queue[m] \in DeferredOp
  OBVIOUS
<1>2. PICK after : /\ drain(channels, queue) = after[Len(queue)]
                   /\ after[0] = channels
                   /\ \A m \in 1 .. Len(queue) : after[m] = apply_op(after[m - 1], queue[m])
  BY <1>1, DrainSteps
<1> DEFINE Bad == {m \in 0 .. Len(queue) : ~(Channels(after[m]) /\ DeadKeys(after[m]) = DeadKeys(channels))}
<1>3. Bad = {}
  <2>. SUFFICES ASSUME Bad # {} PROVE FALSE
    OBVIOUS
  <2>1. PICK m \in Bad : \A l \in Bad : m <= l
    <3>1. Bad \in SUBSET Nat
      OBVIOUS
    <3>. QED BY <3>1, LeastOf
  <2>2. m # 0
    BY <1>2
  <2>3. m \in 1 .. Len(queue) /\ m - 1 \in 0 .. Len(queue) /\ m - 1 \notin Bad
    BY <1>1, <2>1, <2>2
  <2>4. Channels(after[m - 1]) /\ DeadKeys(after[m - 1]) = DeadKeys(channels)
    BY <2>3
  <2>5. Channels(after[m]) /\ DeadKeys(after[m]) = DeadKeys(channels)
    BY <1>1, <1>2, <2>3, <2>4, ApplyOp
  <2>. QED BY <2>5
<1>4. Len(queue) \in 0 .. Len(queue)
  BY <1>1
<1>. QED BY <1>2, <1>3, <1>4

\* After the compaction nothing is dead.
LEMMA CompactCorrect ==
  ASSUME NEW channels, Channels(channels), NEW keys, Range(keys) = DeadKeys(channels)
  PROVE  Channels(compact(channels, keys)) /\ DeadKeys(compact(channels, keys)) = {}
<1>1. ASSUME NEW k \in Key
      PROVE  Channel(compact(channels, keys)[k]) /\ ~HasDead(compact(channels, keys)[k])
  <2>1. Channel(channels[k])
    BY DEF Channels
  <2>2. CASE k \in Range(keys)
    <3>1. compact(channels, keys)[k] = Kept(channels[k], Live(channels[k]))
      BY <2>2 DEF compact
    <3>2. Live(channels[k]) \in SUBSET DOMAIN channels[k] /\ \A a \in Live(channels[k]) : ~channels[k][a].dead
      BY DEF Live
    <3>. QED BY <2>1, <3>1, <3>2, KeptChannel
  <2>3. CASE k \notin Range(keys)
    BY <2>1, <2>3 DEF compact, DeadKeys
  <2>. QED BY <2>2, <2>3
<1>2. compact(channels, keys) = [k \in Key |-> compact(channels, keys)[k]]
  BY DEF compact
<1>3. compact(channels, keys) \in [Key -> Seq(Entry)]
  BY <1>1, <1>2 DEF Channel
<1>. QED BY <1>1, <1>3 DEF Channels, DeadKeys

-----------------------------------------------------------------------------
\* The entry a frame has dealt with, or is dealing with.
Passed(f, a) == a < f.at \/ (f.running /\ a = f.at)

\* `from` places the roster in the frozen channel, `told` what was heard in the
\* roster: a live entry is in the roster, an entry of the roster that was heard
\* is passed, and a plain listener lives and was heard when it is passed.
Placed(f, c, from, told) ==
  /\ from \in [1 .. Len(f.roster) -> 1 .. f.count] /\ told \in [1 .. Len(f.heard) -> 1 .. Len(f.roster)]
  /\ \A i, j \in 1 .. Len(f.roster) : i < j => from[i] < from[j]
  /\ \A m, n \in 1 .. Len(f.heard) : m < n => told[m] < told[n]
  /\ \A j \in 1 .. Len(f.roster) : c[from[j]].sub = f.roster[j]
  /\ \A a \in 1 .. f.count : ~c[a].dead => \E j \in 1 .. Len(f.roster) : from[j] = a
  /\ \A n \in 1 .. Len(f.heard) : f.heard[n] = f.roster[told[n]] /\ Passed(f, from[told[n]])
  /\ \A j \in 1 .. Len(f.roster) : f.roster[j] \in Plain =>
       /\ ~c[from[j]].dead
       /\ Passed(f, from[j]) => \E n \in 1 .. Len(f.heard) : told[n] = j

FrameOK(f, c) ==
  /\ Len(c) = f.count /\ f.at \in 1 .. f.count + 1 /\ (f.running => f.at <= f.count)
  /\ \A i, j \in 1 .. Len(f.roster) : f.roster[i] = f.roster[j] => i = j
  /\ \E from, told : Placed(f, c, from, told)

BusTypes ==
  /\ dirty \in Seq(Key) /\ deferred \in Seq(DeferredOp)
  /\ frames \in Seq(Frame) /\ Len(frames) <= kMaxCascadeDepth
  /\ life \in [Entity -> {"pending", "alive", "stale"}] /\ awake \subseteq Thunk

BusInv ==
  /\ BusTypes /\ Channels(entries) /\ Range(dirty) = DeadKeys(entries)
  /\ Depth = 0 => deferred = <<>> /\ dirty = <<>>
  /\ \A d \in 1 .. Len(frames) : FrameOK(frames[d], entries[frames[d].key])

\* The innermost frame.
LEMMA TopFacts ==
  ASSUME BusInv, Depth # 0
  PROVE  /\ Depth \in 1 .. Len(frames) /\ Top \in Frame /\ Top.key \in Key
         /\ FrameOK(Top, entries[Top.key]) /\ Channel(entries[Top.key])
<1>1. Depth \in 1 .. Len(frames) /\ frames \in Seq(Frame)
  BY DEF BusInv, BusTypes, Depth
<1>2. Top \in Frame /\ FrameOK(Top, entries[Top.key])
  BY <1>1 DEF BusInv, Top
<1>. QED BY <1>1, <1>2 DEF BusInv, Channels, Frame

\* The innermost frame is replaced while the channels stay.
LEMMA ReplaceTop ==
  ASSUME BusInv, Depth # 0, UNCHANGED <<structureVars, worldVars>>,
         NEW g \in Frame, frames' = SetTop(g), FrameOK(g, entries[g.key])
  PROVE  BusInv'
<1>1. Depth \in 1 .. Len(frames) /\ frames \in Seq(Frame)
  BY TopFacts DEF BusInv, BusTypes
<1>2. frames' = [frames EXCEPT ![Depth] = g]
  BY DEF SetTop
<1>3. /\ frames' \in Seq(Frame) /\ Len(frames') = Len(frames)
      /\ \A d \in 1 .. Len(frames) : frames'[d] = IF d = Depth THEN g ELSE frames[d]
  BY <1>1, <1>2
<1>4. /\ entries' = entries /\ dirty' = dirty /\ deferred' = deferred
      /\ life' = life /\ awake' = awake
  BY DEF structureVars, worldVars
<1>5. \A d \in 1 .. Len(frames') : FrameOK(frames'[d], entries'[frames'[d].key])
  BY <1>3, <1>4 DEF BusInv
<1>6. BusTypes'
  BY <1>3, <1>4 DEF BusInv, BusTypes
<1>7. Depth' = Depth
  BY <1>3 DEF Depth
<1>. QED BY <1>4, <1>5, <1>6, <1>7 DEF BusInv, Channels, DeadKeys

\* What the bus does not touch.
LEMMA WorldSteps ==
  ASSUME BusInv, UNCHANGED <<structureVars, frames>>,
         life' \in [Entity -> {"pending", "alive", "stale"}], awake' \subseteq Thunk
  PROVE  BusInv'
<1>1. entries' = entries /\ dirty' = dirty /\ deferred' = deferred /\ frames' = frames
  BY DEF structureVars
<1>2. Depth' = Depth
  BY <1>1 DEF Depth
<1>. QED BY <1>1, <1>2 DEF BusInv, BusTypes, Channels, DeadKeys

LEMMA ChangeInv ==
  ASSUME BusInv, NEW op \in DeferredOp, change(op)
  PROVE  BusInv'
<1>1. dirty' = dirty /\ frames' = frames /\ life' = life /\ awake' = awake
  BY DEF change, worldVars
<1>2. CASE Depth = 0
  <2>1. entries' = apply_op(entries, op) /\ deferred' = deferred
    BY <1>2 DEF change
  <2>2. Channels(entries') /\ DeadKeys(entries') = DeadKeys(entries)
    BY <2>1, ApplyOp DEF BusInv
  <2>3. BusTypes'
    BY <1>1, <2>1 DEF BusInv, BusTypes
  <2>4. Len(frames') = 0 /\ Depth' = Depth
    BY <1>1, <1>2 DEF Depth
  <2>. QED BY <1>1, <2>1, <2>2, <2>3, <2>4 DEF BusInv
<1>3. CASE Depth # 0
  <2>1. deferred' = Append(deferred, op) /\ entries' = entries
    BY <1>3 DEF change
  <2>2. BusTypes'
    BY <1>1, <2>1 DEF BusInv, BusTypes
  <2>3. Depth' = Depth
    BY <1>1 DEF Depth
  <2>. QED BY <1>1, <1>3, <2>1, <2>2, <2>3 DEF BusInv
<1>. QED BY <1>2, <1>3

\* The roster of a dispatch: the live entries, whose subscribers differ.
LEMMA RosterPlaced ==
  ASSUME NEW c, Channel(c), NEW key \in Key
  PROVE  LET f == [key |-> key, at |-> 1, count |-> Len(c), running |-> FALSE,
                   roster |-> LiveSubs(c), heard |-> <<>>] IN
         f \in Frame /\ FrameOK(f, c)
<1> DEFINE S == Live(c)
           n == Cardinality(S)
           f == [key |-> key, at |-> 1, count |-> Len(c), running |-> FALSE,
                 roster |-> LiveSubs(c), heard |-> <<>>]
           from == [j \in 1 .. n |-> Nth(S, j)]
<1>1. c \in Seq(Entry) /\ DOMAIN c = 1 .. Len(c) /\ Len(c) \in Nat
      /\ S = {a \in 1 .. Len(c) : ~c[a].dead} /\ S \in SUBSET DOMAIN c
      /\ \A a \in S : c[a].sub \in Subscriber
  <2>1. c \in Seq(Entry) /\ DOMAIN c = 1 .. Len(c) /\ Len(c) \in Nat
    BY DEF Channel
  <2>2. S = {a \in 1 .. Len(c) : ~c[a].dead} /\ S \in SUBSET DOMAIN c
    BY <2>1 DEF Live
  <2>3. \A a \in S : c[a] \in Entry
    BY <2>1, <2>2
  <2>. QED BY <2>1, <2>2, <2>3 DEF Entry
<1>2. S \in SUBSET Nat /\ IsFiniteSet(S)
  BY <1>1, LivePositions
<1>3. /\ n \in Nat
      /\ \A j \in 1 .. n : Nth(S, j) \in S
      /\ \A i, j \in 1 .. n : i < j => Nth(S, i) < Nth(S, j)
      /\ \A p \in S : \E j \in 1 .. n : Nth(S, j) = p
  BY <1>2, NthLists
<1>4. LiveSubs(c) = [j \in 1 .. n |-> c[Nth(S, j)].sub]
  BY DEF LiveSubs, SubsAt
<1>. HIDE DEF S, n
<1>5. \A j \in 1 .. n : c[Nth(S, j)].sub \in Subscriber
  BY <1>1, <1>3
<1>6. LiveSubs(c) \in Seq(Subscriber) /\ Len(LiveSubs(c)) = n
      /\ \A j \in 1 .. n : LiveSubs(c)[j] = c[Nth(S, j)].sub
  BY <1>3, <1>4, <1>5
<1>7. f \in Frame /\ Len(f.heard) = 0
  <2>1. <<>> \in Seq(Subscriber) /\ 1 \in Nat /\ FALSE \in BOOLEAN
    OBVIOUS
  <2>. QED BY <1>1, <1>6, <2>1 DEF Frame
<1>8. /\ from \in [1 .. n -> 1 .. Len(c)] /\ \A j \in 1 .. n : from[j] = Nth(S, j)
  BY <1>1, <1>3
<1>. HIDE DEF from
<1>9. \A i, j \in 1 .. n : LiveSubs(c)[i] = LiveSubs(c)[j] => i = j
  <2>. SUFFICES ASSUME NEW i \in 1 .. n, NEW j \in 1 .. n, LiveSubs(c)[i] = LiveSubs(c)[j]
                PROVE  i = j
    OBVIOUS
  <2>1. Nth(S, i) = Nth(S, j)
    BY <1>1, <1>3, <1>6 DEF Channel
  <2>2. Nth(S, i) \in Nat /\ Nth(S, j) \in Nat
    BY <1>2, <1>3
  <2>3. ~(i < j) /\ ~(j < i)
    BY <1>3, <2>1, <2>2
  <2>. QED BY <1>3, <2>3
<1>10. Placed(f, c, from, <<>>)
  <2>1. \A i, j \in 1 .. n : i < j => from[i] < from[j]
    BY <1>3, <1>8
  <2>2. \A j \in 1 .. n : c[from[j]].sub = LiveSubs(c)[j] /\ ~c[from[j]].dead /\ ~Passed(f, from[j])
    <3>1. \A a \in 1 .. Len(c) : ~Passed(f, a)
      BY DEF Passed
    <3>2. \A j \in 1 .. n : from[j] \in 1 .. Len(c) /\ ~c[from[j]].dead
      BY <1>1, <1>3, <1>8
    <3>. QED BY <1>6, <1>8, <3>1, <3>2
  <2>3. \A a \in 1 .. Len(c) : ~c[a].dead => \E j \in 1 .. n : from[j] = a
    BY <1>1, <1>3, <1>8
  <2>4. <<>> \in [1 .. Len(f.heard) -> 1 .. Len(f.roster)] /\ 1 .. Len(f.heard) = {}
    BY <1>7
  <2>5. f.roster = LiveSubs(c) /\ f.count = Len(c)
    OBVIOUS
  <2>. HIDE DEF f
  <2>. QED BY <1>6, <1>8, <2>1, <2>2, <2>3, <2>4, <2>5 DEF Placed
<1>11. FrameOK(f, c)
  BY <1>1, <1>6, <1>9, <1>10 DEF FrameOK
<1>. QED BY <1>7, <1>11

LEMMA TriggerInv ==
  ASSUME BusInv, NEW key \in Key, trigger(key)
  PROVE  BusInv'
<1> DEFINE f == [key |-> key, at |-> 1, count |-> Len(entries[key]), running |-> FALSE,
                 roster |-> LiveSubs(entries[key]), heard |-> <<>>]
<1>1. UNCHANGED <<structureVars, worldVars>> /\ Depth < kMaxCascadeDepth
  BY DEF trigger
<1>2. entries' = entries /\ dirty' = dirty /\ deferred' = deferred /\ life' = life /\ awake' = awake
  BY <1>1 DEF structureVars, worldVars
<1>3. CASE frames' = frames
  <2>1. UNCHANGED <<structureVars, frames>>
    BY <1>1, <1>3
  <2>2. life' \in [Entity -> {"pending", "alive", "stale"}] /\ awake' \subseteq Thunk
    BY <1>2 DEF BusInv, BusTypes
  <2>. QED BY <2>1, <2>2, WorldSteps
<1>4. CASE frames' = Append(frames, f)
  <2>1. Channel(entries[key])
    BY DEF BusInv, Channels
  <2>2. PICK g : g = f
    OBVIOUS
  <2>3. g \in Frame /\ FrameOK(g, entries[key]) /\ g.key = key
    BY <2>1, <2>2, RosterPlaced
  <2>4. frames \in Seq(Frame) /\ frames' = Append(frames, g)
    BY <1>4, <2>2 DEF BusInv, BusTypes
  <2>5. /\ frames' \in Seq(Frame) /\ Len(frames') = Len(frames) + 1
        /\ \A d \in 1 .. Len(frames) : frames'[d] = frames[d]
        /\ frames'[Len(frames) + 1] = g
    BY <2>3, <2>4
  <2>6. ASSUME NEW d \in 1 .. Len(frames') PROVE FrameOK(frames'[d], entries[frames'[d].key])
    <3>1. d \in 1 .. Len(frames) \/ d = Len(frames) + 1
      BY <2>4, <2>5
    <3>. QED BY <2>3, <2>5, <3>1 DEF BusInv
  <2>7. Len(frames') <= kMaxCascadeDepth /\ Depth' # 0
    BY <1>1, <2>4, <2>5, BusAssumption DEF Depth
  <2>8. BusTypes'
    BY <1>2, <2>5, <2>7 DEF BusInv, BusTypes
  <2>. QED BY <1>2, <2>6, <2>7, <2>8 DEF BusInv, Channels, DeadKeys
<1>. QED BY <1>3, <1>4 DEF trigger

\* A frame that moves past its entry, which it need not have told anyone of.
LEMMA AdvanceFrame ==
  ASSUME NEW c, NEW f \in Frame, FrameOK(f, c), f.at <= f.count,
         \/ f.running
         \/ \E a \in 1 .. f.count : a = f.at /\ (c[a].dead \/ c[a].sub \notin Plain),
         NEW g, g = [f EXCEPT !.running = FALSE, !.at = f.at + 1]
  PROVE  g \in Frame /\ FrameOK(g, c)
<1>1. /\ g.key = f.key /\ g.at = f.at + 1 /\ g.count = f.count /\ g.running = FALSE
      /\ g.roster = f.roster /\ g.heard = f.heard /\ f.at \in Nat /\ f.count \in Nat
  BY DEF Frame
<1>2. g \in Frame
  <2>1. f.at + 1 \in Nat
    BY <1>1
  <2>. QED BY <2>1 DEF Frame
<1>3. PICK from, told : Placed(f, c, from, told)
  BY DEF FrameOK
<1>4. \A a \in 1 .. f.count : Passed(f, a) => Passed(g, a)
  BY <1>1 DEF Passed
<1>5. \A a \in 1 .. f.count : Passed(g, a) => Passed(f, a) \/ (a = f.at /\ ~f.running)
  BY <1>1 DEF Passed
<1>6. from \in [1 .. Len(f.roster) -> 1 .. f.count] /\ told \in [1 .. Len(f.heard) -> 1 .. Len(f.roster)]
  BY <1>3 DEF Placed
<1>7. ASSUME NEW j \in 1 .. Len(f.roster), f.roster[j] \in Plain, Passed(g, from[j])
      PROVE  \E n \in 1 .. Len(f.heard) : told[n] = j
  <2>1. c[from[j]].sub \in Plain /\ ~c[from[j]].dead
    BY <1>3, <1>7 DEF Placed
  <2>2. Passed(f, from[j])
    BY <1>5, <1>6, <1>7, <2>1
  <2>. QED BY <1>3, <1>7, <2>2 DEF Placed
<1>8. Placed(g, c, from, told)
  BY <1>1, <1>3, <1>4, <1>6, <1>7 DEF Placed
<1>9. g.at \in 1 .. g.count + 1
  BY <1>1 DEF FrameOK
<1>. QED BY <1>1, <1>2, <1>8, <1>9 DEF FrameOK

LEMMA ReturnInv ==
  ASSUME BusInv, listener_return
  PROVE  BusInv'
<1>1. Depth # 0 /\ Top.running
  BY DEF listener_return
<1>2. /\ Top \in Frame /\ FrameOK(Top, entries[Top.key])
  BY <1>1, TopFacts
<1>3. PICK g : g = [Top EXCEPT !.running = FALSE, !.at = Top.at + 1]
  OBVIOUS
<1>4. Top.at <= Top.count
  BY <1>1, <1>2 DEF FrameOK
<1>5. g \in Frame /\ FrameOK(g, entries[Top.key]) /\ g.key = Top.key
  BY <1>1, <1>2, <1>3, <1>4, AdvanceFrame DEF Frame
<1>6. frames' = SetTop(g) /\ UNCHANGED <<structureVars, worldVars>>
  BY <1>3 DEF listener_return
<1>. QED BY <1>1, <1>5, <1>6, ReplaceTop

\* The entry the scan is at.
LEMMA HereFacts ==
  ASSUME BusInv, Scanning
  PROVE  /\ Depth # 0 /\ Top \in Frame /\ FrameOK(Top, entries[Top.key]) /\ Top.key \in Key
         /\ Channel(entries[Top.key]) /\ ~Top.running
         /\ Top.at \in 1 .. Top.count /\ Len(entries[Top.key]) = Top.count
         /\ Here \in Entry /\ Here = entries[Top.key][Top.at]
<1>1. Depth # 0 /\ ~Top.running /\ Top.at <= Top.count
  BY DEF Scanning
<1>2. /\ Top \in Frame /\ FrameOK(Top, entries[Top.key]) /\ Top.key \in Key /\ Channel(entries[Top.key])
  BY <1>1, TopFacts
<1>3. Top.at \in 1 .. Top.count /\ Len(entries[Top.key]) = Top.count
  BY <1>1, <1>2 DEF FrameOK, Frame
<1>. QED BY <1>1, <1>2, <1>3 DEF Here, Channel

LEMMA SkipInv ==
  ASSUME BusInv, skip
  PROVE  BusInv'
<1>1. Scanning /\ Advance /\ UNCHANGED <<structureVars, worldVars>>
  BY DEF skip
<1>2. /\ Depth # 0 /\ Top \in Frame /\ FrameOK(Top, entries[Top.key]) /\ ~Top.running
      /\ Top.at \in 1 .. Top.count /\ Here = entries[Top.key][Top.at] /\ Here \in Entry
  BY <1>1, HereFacts
<1>3. Here.dead \/ Here.sub \notin Plain
  BY BusAssumption DEF skip, Gate
<1>4. PICK g : g = [Top EXCEPT !.running = FALSE, !.at = Top.at + 1]
  OBVIOUS
<1>5. Top.at <= Top.count
  BY <1>2 DEF Frame
<1>6. g \in Frame /\ FrameOK(g, entries[Top.key])
  BY <1>2, <1>3, <1>4, <1>5, AdvanceFrame
<1>7. g.key = Top.key /\ g = [Top EXCEPT !.at = Top.at + 1]
  <2>1. Top.running = FALSE
    BY <1>2 DEF Frame
  <2>. QED BY <1>2, <1>4, <2>1 DEF Frame
<1>8. frames' = SetTop(g)
  BY <1>1, <1>7 DEF Advance
<1>. QED BY <1>1, <1>2, <1>6, <1>7, <1>8, ReplaceTop

\* The listener of the entry is called: it is next in the roster.
LEMMA HearFrame ==
  ASSUME NEW c, NEW f \in Frame, FrameOK(f, c), ~f.running, f.at \in 1 .. f.count,
         ~c[f.at].dead, c[f.at].sub \in Subscriber,
         NEW g, g = [f EXCEPT !.running = TRUE, !.heard = Append(f.heard, c[f.at].sub)]
  PROVE  g \in Frame /\ FrameOK(g, c)
<1>1. /\ g.key = f.key /\ g.at = f.at /\ g.count = f.count /\ g.running = TRUE
      /\ g.roster = f.roster /\ g.heard = Append(f.heard, c[f.at].sub)
      /\ f.at \in Nat /\ f.count \in Nat /\ f.heard \in Seq(Subscriber) /\ f.roster \in Seq(Subscriber)
  BY DEF Frame
<1>2. g.heard \in Seq(Subscriber) /\ Len(g.heard) = Len(f.heard) + 1 /\ Len(f.heard) \in Nat
      /\ g.heard[Len(f.heard) + 1] = c[f.at].sub
      /\ \A n \in 1 .. Len(f.heard) : g.heard[n] = f.heard[n]
  BY <1>1
<1>3. g \in Frame
  <2>1. g = [f EXCEPT !.running = TRUE, !.heard = g.heard]
    BY <1>1
  <2>. QED BY <1>2, <2>1 DEF Frame
<1>4. PICK from, told : Placed(f, c, from, told)
  BY DEF FrameOK
<1>5. /\ from \in [1 .. Len(f.roster) -> 1 .. f.count] /\ told \in [1 .. Len(f.heard) -> 1 .. Len(f.roster)]
      /\ \A i, j \in 1 .. Len(f.roster) : i < j => from[i] < from[j]
      /\ \A n \in 1 .. Len(f.heard) : f.heard[n] = f.roster[told[n]] /\ Passed(f, from[told[n]])
      /\ \A j \in 1 .. Len(f.roster) : c[from[j]].sub = f.roster[j]
  BY <1>4 DEF Placed
<1>6. PICK h \in 1 .. Len(f.roster) : from[h] = f.at
  BY <1>4 DEF Placed
<1>7. PICK told2 : told2 = [n \in 1 .. Len(f.heard) + 1 |-> IF n = Len(f.heard) + 1 THEN h ELSE told[n]]
  OBVIOUS
<1>8. /\ told2 \in [1 .. Len(g.heard) -> 1 .. Len(f.roster)] /\ told2[Len(f.heard) + 1] = h
      /\ \A n \in 1 .. Len(f.heard) : told2[n] = told[n]
  BY <1>2, <1>5, <1>6, <1>7
<1>9. \A n \in 1 .. Len(f.heard) : told[n] < h
  <2>. SUFFICES ASSUME NEW n \in 1 .. Len(f.heard), ~(told[n] < h) PROVE FALSE
    OBVIOUS
  <2>1. told[n] \in 1 .. Len(f.roster) /\ from[told[n]] \in 1 .. f.count /\ from[told[n]] < f.at
    BY <1>5 DEF Passed
  <2>2. told[n] = h \/ h < told[n]
    BY <2>1
  <2>3. from[told[n]] = f.at \/ f.at < from[told[n]]
    BY <1>5, <1>6, <2>1, <2>2
  <2>. QED BY <1>1, <2>1, <2>3
<1>10. \A n \in 1 .. Len(g.heard) : n \in 1 .. Len(f.heard) \/ n = Len(f.heard) + 1
  BY <1>2
<1>11. \A a \in 1 .. f.count : Passed(g, a) <=> Passed(f, a) \/ a = f.at
  BY <1>1 DEF Passed
<1>12. \A m, n \in 1 .. Len(g.heard) : m < n => told2[m] < told2[n]
  <2>. SUFFICES ASSUME NEW m \in 1 .. Len(g.heard), NEW n \in 1 .. Len(g.heard), m < n
                PROVE  told2[m] < told2[n]
    OBVIOUS
  <2>1. m \in 1 .. Len(f.heard)
    BY <1>2
  <2>2. CASE n \in 1 .. Len(f.heard)
    BY <1>4, <1>8, <2>1, <2>2 DEF Placed
  <2>3. CASE n = Len(f.heard) + 1
    BY <1>8, <1>9, <2>1, <2>3
  <2>. QED BY <1>10, <2>2, <2>3
<1>13. \A n \in 1 .. Len(g.heard) : g.heard[n] = f.roster[told2[n]] /\ Passed(g, from[told2[n]])
  <2>. SUFFICES ASSUME NEW n \in 1 .. Len(g.heard)
                PROVE  g.heard[n] = f.roster[told2[n]] /\ Passed(g, from[told2[n]])
    OBVIOUS
  <2>1. CASE n \in 1 .. Len(f.heard)
    BY <1>2, <1>5, <1>8, <1>11, <2>1
  <2>2. CASE n = Len(f.heard) + 1
    BY <1>2, <1>5, <1>6, <1>8, <1>11, <2>2
  <2>. QED BY <1>10, <2>1, <2>2
<1>14. ASSUME NEW j \in 1 .. Len(f.roster), f.roster[j] \in Plain
       PROVE  ~c[from[j]].dead /\ (Passed(g, from[j]) => \E n \in 1 .. Len(g.heard) : told2[n] = j)
  <2>1. ~c[from[j]].dead
    BY <1>4, <1>14 DEF Placed
  <2>2. ASSUME Passed(f, from[j]) PROVE \E n \in 1 .. Len(g.heard) : told2[n] = j
    <3>1. PICK n \in 1 .. Len(f.heard) : told[n] = j
      BY <1>4, <1>14, <2>2 DEF Placed
    <3>2. n \in 1 .. Len(g.heard)
      BY <1>2
    <3>. QED BY <1>8, <3>1, <3>2
  <2>3. ASSUME from[j] = f.at PROVE \E n \in 1 .. Len(g.heard) : told2[n] = j
    <3>1. j = h
      <4>1. j \in Nat /\ h \in Nat /\ ~(from[j] < from[h]) /\ ~(from[h] < from[j])
        BY <1>1, <1>6, <2>3
      <4>2. ~(j < h) /\ ~(h < j)
        BY <1>5, <4>1
      <4>. QED BY <4>1, <4>2
    <3>2. Len(f.heard) + 1 \in 1 .. Len(g.heard)
      BY <1>2
    <3>. QED BY <1>8, <3>1, <3>2
  <2>4. from[j] \in 1 .. f.count
    BY <1>5
  <2>. QED BY <1>11, <2>1, <2>2, <2>3, <2>4
<1>15. Placed(g, c, from, told2)
  BY <1>1, <1>4, <1>5, <1>8, <1>12, <1>13, <1>14 DEF Placed
<1>. QED BY <1>1, <1>3, <1>15 DEF FrameOK

LEMMA DeliverInv ==
  ASSUME BusInv, deliver
  PROVE  BusInv'
<1>1. Scanning /\ ~Here.dead /\ UNCHANGED <<structureVars, worldVars>>
  BY DEF deliver
<1>2. /\ Depth # 0 /\ Top \in Frame /\ FrameOK(Top, entries[Top.key]) /\ ~Top.running
      /\ Top.at \in 1 .. Top.count /\ Here = entries[Top.key][Top.at] /\ Here \in Entry
  BY <1>1, HereFacts
<1>3. PICK g : g = [Top EXCEPT !.running = TRUE, !.heard = Append(Top.heard, Here.sub)]
  OBVIOUS
<1>4. Here.sub \in Subscriber
  BY <1>2 DEF Entry
<1>5. g \in Frame /\ FrameOK(g, entries[Top.key])
  BY <1>1, <1>2, <1>3, <1>4, HearFrame
<1>6. g.key = Top.key
  BY <1>2, <1>3 DEF Frame
<1>7. frames' = SetTop(g)
  BY <1>3 DEF deliver
<1>. QED BY <1>1, <1>2, <1>5, <1>6, <1>7, ReplaceTop

\* An entry of an entity is marked dead: every frame on the channel stays true.
LEMMA MarkFrame ==
  ASSUME NEW c, NEW f \in Frame, FrameOK(f, c), NEW a \in 1 .. Len(c), c[a].sub \notin Plain,
         NEW d, Len(d) = Len(c), d[a].dead, d[a].sub = c[a].sub,
         \A b \in 1 .. Len(c) : b # a => d[b] = c[b]
  PROVE  FrameOK(f, d)
<1>1. PICK from, told : Placed(f, c, from, told)
  BY DEF FrameOK
<1>2. Len(c) = f.count /\ from \in [1 .. Len(f.roster) -> 1 .. f.count]
  BY <1>1 DEF FrameOK, Placed
<1>3. \A b \in 1 .. f.count : d[b].sub = c[b].sub /\ (~d[b].dead => ~c[b].dead)
                           /\ (c[b].sub \in Plain => d[b] = c[b])
  BY <1>2
<1>4. Placed(f, d, from, told)
  BY <1>1, <1>2, <1>3 DEF Placed
<1>. QED BY <1>4 DEF FrameOK

LEMMA DropInv ==
  ASSUME BusInv, drop_stale
  PROVE  BusInv'
<1>1. /\ Scanning /\ ~Here.dead /\ Gate = "stale" /\ Advance
      /\ entries' = [entries EXCEPT ![Top.key][Top.at].dead = TRUE]
      /\ dirty' = IF Top.key \in Range(dirty) THEN dirty ELSE Append(dirty, Top.key)
      /\ deferred' = deferred /\ life' = life /\ awake' = awake
  BY DEF drop_stale, worldVars
<1>2. /\ Depth # 0 /\ Top \in Frame /\ FrameOK(Top, entries[Top.key]) /\ ~Top.running /\ Top.key \in Key
      /\ Top.at \in 1 .. Top.count /\ Here = entries[Top.key][Top.at] /\ Here \in Entry
      /\ Channel(entries[Top.key]) /\ Len(entries[Top.key]) = Top.count
  BY <1>1, HereFacts
<1> DEFINE c == entries[Top.key]
<1>3. PICK d : d = [c EXCEPT ![Top.at].dead = TRUE]
  OBVIOUS
<1>4. /\ d \in Seq(Entry) /\ Len(d) = Len(c) /\ d[Top.at].dead /\ d[Top.at].sub = c[Top.at].sub
      /\ \A b \in 1 .. Len(c) : b # Top.at => d[b] = c[b]
  <2>1. c \in Seq(Entry) /\ Top.at \in 1 .. Len(c) /\ c[Top.at] \in Entry
    BY <1>2 DEF Channel
  <2>2. [c[Top.at] EXCEPT !.dead = TRUE] \in Entry
        /\ [c[Top.at] EXCEPT !.dead = TRUE].dead /\ [c[Top.at] EXCEPT !.dead = TRUE].sub = c[Top.at].sub
    BY <2>1 DEF Entry
  <2>3. d = [c EXCEPT ![Top.at] = [c[Top.at] EXCEPT !.dead = TRUE]]
    BY <1>3, <2>1
  <2>. QED BY <2>1, <2>2, <2>3
<1>5. entries' = [entries EXCEPT ![Top.key] = d] /\ entries \in [Key -> Seq(Entry)]
  BY <1>1, <1>2, <1>3 DEF BusInv, Channels
<1>6. \A k \in Key : entries'[k] = IF k = Top.key THEN d ELSE entries[k]
  BY <1>2, <1>5
<1>7. Channel(d) /\ HasDead(d)
  BY <1>2, <1>4 DEF Channel, HasDead
<1>8. Channels(entries')
  BY <1>2, <1>4, <1>5, <1>6, <1>7 DEF BusInv, Channels
<1>9. DeadKeys(entries') = DeadKeys(entries) \cup {Top.key}
  BY <1>2, <1>6, <1>7 DEF DeadKeys
<1>10. dirty' \in Seq(Key) /\ Range(dirty') = Range(dirty) \cup {Top.key}
  <2>1. dirty \in Seq(Key)
    BY DEF BusInv, BusTypes
  <2>2. Range(Append(dirty, Top.key)) = Range(dirty) \cup {Top.key} /\ Append(dirty, Top.key) \in Seq(Key)
    BY <1>2, <2>1, RangeOf
  <2>. QED BY <1>1, <2>1, <2>2
<1>11. Here.sub \notin Plain
  BY <1>1 DEF Gate
<1>12. ASSUME NEW f \in Frame, FrameOK(f, entries[f.key]) PROVE FrameOK(f, entries'[f.key])
  <2>1. f.key \in Key
    BY DEF Frame
  <2>2. CASE f.key = Top.key
    <3>1. FrameOK(f, c) /\ Top.at \in 1 .. Len(c) /\ c[Top.at].sub \notin Plain
      BY <1>2, <1>11, <1>12, <2>2
    <3>2. FrameOK(f, d)
      BY <1>4, <3>1, MarkFrame
    <3>. QED BY <1>6, <2>1, <2>2, <3>2
  <2>3. CASE f.key # Top.key
    BY <1>6, <1>12, <2>1, <2>3
  <2>. QED BY <2>2, <2>3
<1>13. PICK g : g = [Top EXCEPT !.running = FALSE, !.at = Top.at + 1]
  OBVIOUS
<1>14. g.key = Top.key /\ g = [Top EXCEPT !.at = Top.at + 1]
  <2>1. Top.running = FALSE
    BY <1>2 DEF Frame
  <2>. QED BY <1>2, <1>13, <2>1 DEF Frame
<1>15. g \in Frame /\ FrameOK(g, entries'[g.key])
  <2>1. Top.at <= Top.count
    BY <1>2 DEF Frame
  <2>2. g \in Frame /\ FrameOK(g, entries[Top.key])
    BY <1>2, <1>11, <1>13, <2>1, AdvanceFrame
  <2>. QED BY <1>12, <1>14, <2>2
<1>16. Depth \in 1 .. Len(frames) /\ frames \in Seq(Frame)
  BY <1>2, TopFacts DEF BusInv, BusTypes
<1>17. /\ frames' \in Seq(Frame) /\ Len(frames') = Len(frames)
       /\ \A e \in 1 .. Len(frames) : frames'[e] = IF e = Depth THEN g ELSE frames[e]
  <2>1. frames' = [frames EXCEPT ![Depth] = g]
    BY <1>1, <1>14 DEF Advance, SetTop
  <2>. QED BY <1>15, <1>16, <2>1
<1>18. \A e \in 1 .. Len(frames') : FrameOK(frames'[e], entries'[frames'[e].key])
  <2>. SUFFICES ASSUME NEW e \in 1 .. Len(frames) PROVE FrameOK(frames'[e], entries'[frames'[e].key])
    BY <1>17
  <2>1. frames[e] \in Frame /\ FrameOK(frames[e], entries[frames[e].key])
    BY <1>16 DEF BusInv
  <2>. QED BY <1>12, <1>15, <1>17, <2>1
<1>19. BusTypes'
  BY <1>1, <1>10, <1>17 DEF BusInv, BusTypes
<1>20. Depth' # 0
  BY <1>16, <1>17 DEF Depth
<1>. QED BY <1>8, <1>9, <1>10, <1>18, <1>19, <1>20 DEF BusInv

LEMMA FrontFrames ==
  ASSUME BusInv, Depth # 0
  PROVE  /\ Front(frames) \in Seq(Frame) /\ Len(Front(frames)) = Len(frames) - 1
         /\ \A d \in 1 .. Len(frames) - 1 : Front(frames)[d] = frames[d]
<1>1. frames \in Seq(Frame) /\ Len(frames) # 0
  BY DEF BusInv, BusTypes, Depth
<1>2. Front(frames) = SubSeq(frames, 1, Len(frames) - 1)
  BY DEF Front
<1>. QED BY <1>1, <1>2, DropLast

LEMMA EndInv ==
  ASSUME BusInv, end_dispatch
  PROVE  BusInv'
<1>1. Depth # 0 /\ frames' = Front(frames) /\ life' = life /\ awake' = awake
  BY DEF end_dispatch, worldVars
<1>2. /\ frames' \in Seq(Frame) /\ Len(frames') = Len(frames) - 1 /\ Len(frames) \in Nat
      /\ \A d \in 1 .. Len(frames) - 1 : frames'[d] = frames[d]
  BY <1>1, FrontFrames DEF BusInv, BusTypes
<1>3. CASE Depth = 1
  <2>1. entries' = compact(drain(entries, deferred), dirty) /\ deferred' = <<>> /\ dirty' = <<>>
    BY <1>3 DEF end_dispatch
  <2>2. Channels(drain(entries, deferred)) /\ DeadKeys(drain(entries, deferred)) = Range(dirty)
    BY DrainCorrect DEF BusInv, BusTypes
  <2>3. Channels(entries') /\ DeadKeys(entries') = {}
    BY <2>1, <2>2, CompactCorrect
  <2>4. Len(frames') = 0
    BY <1>2, <1>3 DEF Depth
  <2>5. BusTypes'
    BY <1>1, <1>2, <2>1, <2>4, BusAssumption DEF BusInv, BusTypes
  <2>6. Range(dirty') = {}
    BY <2>1 DEF Range
  <2>. QED BY <2>1, <2>3, <2>4, <2>5, <2>6 DEF BusInv
<1>4. CASE Depth # 1
  <2>1. entries' = entries /\ dirty' = dirty /\ deferred' = deferred
    BY <1>4 DEF end_dispatch, structureVars
  <2>2. \A d \in 1 .. Len(frames') : d \in 1 .. Len(frames) /\ frames'[d] = frames[d]
    BY <1>2
  <2>3. Len(frames') <= kMaxCascadeDepth
    BY <1>2, BusAssumption DEF BusInv, BusTypes
  <2>4. BusTypes'
    BY <1>1, <1>2, <2>1, <2>3 DEF BusInv, BusTypes
  <2>5. Depth' # 0
    BY <1>1, <1>2, <1>4 DEF Depth
  <2>. QED BY <2>1, <2>2, <2>4, <2>5 DEF BusInv
<1>. QED BY <1>3, <1>4

-----------------------------------------------------------------------------
LEMMA StepBusInv == BusInv /\ [BusNext]_busVars => BusInv'
<1>. SUFFICES ASSUME BusInv, [BusNext]_busVars PROVE BusInv'
  OBVIOUS
<1>0. life \in [Entity -> {"pending", "alive", "stale"}] /\ awake \subseteq Thunk
  BY DEF BusInv, BusTypes
<1>1. ASSUME NEW sub \in Subscriber, NEW key \in Key, subscribe(sub, key) \/ unsubscribe(sub, key)
      PROVE  BusInv'
  <2>1. \A kind \in {"subscribe", "unsubscribe"} : [kind |-> kind, key |-> key, sub |-> sub] \in DeferredOp
    BY DEF DeferredOp
  <2>. QED BY <1>1, <2>1, ChangeInv DEF subscribe, unsubscribe
<1>2. ASSUME NEW e \in Entity, despawn(e) \/ flush_alive(e) PROVE BusInv'
  <2>1. UNCHANGED <<structureVars, frames>>
    BY <1>2 DEF despawn, flush_alive
  <2>2. life' \in [Entity -> {"pending", "alive", "stale"}] /\ awake' \subseteq Thunk
    BY <1>0, <1>2 DEF despawn, flush_alive
  <2>. QED BY <2>1, <2>2, WorldSteps
<1>3. ASSUME NEW t \in Thunk, toggle(t) PROVE BusInv'
  <2>1. UNCHANGED <<structureVars, frames>>
    BY <1>3 DEF toggle
  <2>2. life' \in [Entity -> {"pending", "alive", "stale"}] /\ awake' \subseteq Thunk
    BY <1>0, <1>3 DEF toggle
  <2>. QED BY <2>1, <2>2, WorldSteps
<1>4. CASE UNCHANGED busVars
  <2>1. UNCHANGED <<structureVars, frames>> /\ life' = life /\ awake' = awake
    BY <1>4 DEF busVars, worldVars
  <2>. QED BY <1>0, <2>1, WorldSteps
<1>. QED BY <1>1, <1>2, <1>3, <1>4, TriggerInv, DeliverInv, SkipInv, DropInv, ReturnInv, EndInv
       DEF BusNext, Dispatching

LEMMA InitBusInv == BusInit => BusInv
<1>. SUFFICES ASSUME BusInit PROVE BusInv
  OBVIOUS
<1>1. BusTypes
  BY BusAssumption DEF BusInit, BusTypes
<1>2. Channels(entries) /\ DeadKeys(entries) = {} /\ Range(dirty) = {}
  BY DEF BusInit, Channels, Channel, DeadKeys, HasDead, Range
<1>. QED BY <1>1, <1>2 DEF BusInit, BusInv

\* Proved of the bus without fairness, so of FairBusSpec too.
THEOREM BusInvariant == BusSpec => []BusInv
  BY InitBusInv, StepBusInv, PTL DEF BusSpec

\* Structure settles (Bus::apply_deferred): no channel holds two live
\* subscriptions of one identity, dead entries are in channels that will be
\* compacted, and outside a dispatch nothing is dead, dirty or queued.
THEOREM BusSettles == BusSpec => []StructureSettled
<1>1. BusInv => StructureSettled
  <2>. SUFFICES ASSUME BusInv PROVE StructureSettled
    OBVIOUS
  <2>1. \A k \in Key : entries[k] \in Seq(Entry) /\ DOMAIN entries[k] = 1 .. Len(entries[k])
    BY DEF BusInv, Channels
  <2>2. BusTypeOK
    <3>1. Range(dirty) \subseteq Key /\ Range(deferred) \subseteq DeferredOp
      BY RangeOf DEF BusInv, BusTypes
    <3>2. ASSUME NEW f \in Range(frames)
          PROVE  f.key \in Key /\ f.running \in BOOLEAN /\ f.at \in 1 .. f.count + 1
      <4>1. PICK d \in 1 .. Len(frames) : f = frames[d] /\ f \in Frame
        BY RangeOf DEF BusInv, BusTypes
      <4>2. FrameOK(f, entries[f.key])
        BY <4>1 DEF BusInv
      <4>. QED BY <4>1, <4>2 DEF Frame, FrameOK
    <3>3. \A k \in Key : \A a \in DOMAIN entries[k] : entries[k][a] \in Entry
      BY <2>1
    <3>. QED BY <3>1, <3>2, <3>3 DEF BusInv, BusTypes, BusTypeOK
  <2>3. ASSUME NEW k \in Key, NEW a \in DOMAIN entries[k], NEW b \in DOMAIN entries[k],
               ~entries[k][a].dead, ~entries[k][b].dead, entries[k][a].sub = entries[k][b].sub
        PROVE  a = b
    BY <2>1, <2>3 DEF BusInv, Channels, Channel
  <2>4. Range(dirty) = {k \in Key : \E a \in DOMAIN entries[k] : entries[k][a].dead}
    BY <2>1 DEF BusInv, DeadKeys, HasDead
  <2>. QED BY <2>2, <2>3, <2>4 DEF StructureSettled, BusInv
<1>. QED BY <1>1, BusInvariant, PTL

\* Who hears an event (Bus::dispatch): the roster it froze, each subscriber at
\* most once and in registration order, every plain one of them by the end.
THEOREM EventsHeardInOrder == BusSpec => []HeardInOrder
<1>1. BusInv => HeardInOrder
  <2>. SUFFICES ASSUME BusInv, NEW f \in Range(frames)
                PROVE  /\ IsSublist(f.heard, f.roster) /\ IsInjective(f.roster)
                       /\ f.at > f.count => Plain \cap Range(f.roster) \subseteq Range(f.heard)
    BY DEF HeardInOrder
  <2>1. PICK d \in 1 .. Len(frames) : f = frames[d] /\ f \in Frame
    BY RangeOf DEF BusInv, BusTypes
  <2>2. FrameOK(f, entries[f.key])
    BY <2>1 DEF BusInv
  <2>3. f.roster \in Seq(Subscriber) /\ f.heard \in Seq(Subscriber) /\ f.at \in Nat /\ f.count \in Nat
        /\ DOMAIN f.roster = 1 .. Len(f.roster) /\ DOMAIN f.heard = 1 .. Len(f.heard)
    BY <2>1 DEF Frame
  <2>4. PICK from, told : Placed(f, entries[f.key], from, told)
    BY <2>2 DEF FrameOK
  <2>5. IsSublist(f.heard, f.roster)
    <3>1. /\ told \in [DOMAIN f.heard -> DOMAIN f.roster]
          /\ \A n \in DOMAIN f.heard : f.heard[n] = f.roster[told[n]]
          /\ \A m, n \in DOMAIN f.heard : m < n => told[m] < told[n]
      BY <2>3, <2>4 DEF Placed
    <3>. QED BY <3>1 DEF IsSublist
  <2>6. IsInjective(f.roster)
    BY <2>2, <2>3 DEF FrameOK, IsInjective
  <2>7. ASSUME f.at > f.count, NEW j \in 1 .. Len(f.roster), f.roster[j] \in Plain
        PROVE  f.roster[j] \in Range(f.heard)
    <3>1. from[j] \in 1 .. f.count
      BY <2>4 DEF Placed
    <3>2. Passed(f, from[j])
      BY <2>3, <2>7, <3>1 DEF Passed
    <3>3. PICK n \in 1 .. Len(f.heard) : told[n] = j
      BY <2>4, <2>7, <3>2 DEF Placed
    <3>4. f.heard[n] = f.roster[j]
      BY <2>4, <3>3 DEF Placed
    <3>. QED BY <2>3, <3>4 DEF Range
  <2>8. Range(f.roster) = {f.roster[j] : j \in 1 .. Len(f.roster)}
    BY <2>3 DEF Range
  <2>. QED BY <2>5, <2>6, <2>7, <2>8
<1>. QED BY <1>1, BusInvariant, PTL

-----------------------------------------------------------------------------
(***************************************************************************)
(* The refinement of Registrations.  What a channel says of registrations  *)
(* is its view: the subscribers of the entries that are neither dead nor   *)
(* gone.  Every operation on a channel is one on its view, so the queue    *)
(* can be drained over views, and marking an entry of a subscriber that is *)
(* gone changes none.                                                      *)
(***************************************************************************)
Subs(c) == [a \in DOMAIN c |-> c[a].sub]
Stand(c, gone) == {a \in DOMAIN c : ~c[a].dead /\ c[a].sub \notin gone}
View(c, gone) == Kept(Subs(c), Stand(c, gone))
Gone == {s \in Subscriber : ~check_subscribable(s)}

LEMMA SubsType ==
  ASSUME NEW c \in Seq(Entry), NEW gone
  PROVE  /\ Subs(c) \in Seq(Subscriber) /\ DOMAIN c = 1 .. Len(c) /\ Len(c) \in Nat
         /\ DOMAIN Subs(c) = DOMAIN c /\ Len(Subs(c)) = Len(c)
         /\ \A a \in DOMAIN c : Subs(c)[a] = c[a].sub /\ c[a].sub \in Subscriber /\ c[a].dead \in BOOLEAN
         /\ Stand(c, gone) \in SUBSET DOMAIN c
<1>1. DOMAIN c = 1 .. Len(c) /\ Len(c) \in Nat /\ \A a \in DOMAIN c : c[a] \in Entry
  OBVIOUS
<1>2. \A a \in DOMAIN c : c[a].sub \in Subscriber /\ c[a].dead \in BOOLEAN
  BY <1>1 DEF Entry
<1>3. Subs(c) = [a \in 1 .. Len(c) |-> c[a].sub]
  BY <1>1 DEF Subs
<1>4. Subs(c) \in Seq(Subscriber) /\ Len(Subs(c)) = Len(c) /\ DOMAIN Subs(c) = DOMAIN c
  BY <1>1, <1>2, <1>3
<1>5. \A a \in DOMAIN c : Subs(c)[a] = c[a].sub
  BY DEF Subs
<1>. QED BY <1>1, <1>2, <1>4, <1>5 DEF Stand

LEMMA ViewType ==
  ASSUME NEW c \in Seq(Entry), NEW gone
  PROVE  /\ View(c, gone) \in Seq(Subscriber) /\ DOMAIN View(c, gone) = 1 .. Cardinality(Stand(c, gone))
         /\ Range(View(c, gone)) = {c[a].sub : a \in Stand(c, gone)}
<1> DEFINE S == Stand(c, gone)
<1>1. Subs(c) \in Seq(Subscriber) /\ S \in SUBSET DOMAIN Subs(c) /\ \A a \in S : Subs(c)[a] = c[a].sub
  BY SubsType
<1>. HIDE DEF S
<1>2. PICK v : v = Kept(Subs(c), S)
  OBVIOUS
<1>3. /\ v \in Seq(Subscriber) /\ Len(v) = Cardinality(S)
      /\ \A n \in 1 .. Cardinality(S) : Nth(S, n) \in S /\ v[n] = Subs(c)[Nth(S, n)]
      /\ \A p \in S : \E n \in 1 .. Cardinality(S) : Nth(S, n) = p
  BY <1>1, <1>2, KeptFacts
<1>4. DOMAIN v = 1 .. Cardinality(S)
  BY <1>3
<1>5. \A n \in 1 .. Cardinality(S) : Nth(S, n) \in S /\ v[n] = c[Nth(S, n)].sub
  BY <1>1, <1>3
<1>6. Range(v) = {c[a].sub : a \in S}
  BY <1>3, <1>4, <1>5 DEF Range
<1>. QED BY <1>2, <1>3, <1>4, <1>6 DEF View, S

\* The projection of the module is the view.
LEMMA ViewRegistered ==
  ASSUME NEW c \in Seq(Entry)
  PROVE  SubsAt(c, Standing(c)) = View(c, Gone)
<1>1. Standing(c) = Stand(c, Gone)
  BY SubsType DEF Standing, Stand, Live, Gone
<1> DEFINE S == Stand(c, Gone)
<1>2. S \in SUBSET DOMAIN c /\ \A a \in DOMAIN c : Subs(c)[a] = c[a].sub
  BY SubsType
<1>3. Subs(c) \in Seq(Subscriber) /\ S \in SUBSET DOMAIN Subs(c)
  BY SubsType
<1>. HIDE DEF S
<1>4. \A n \in 1 .. Cardinality(S) : Nth(S, n) \in S
  BY <1>3, KeptFacts
<1>5. \A n \in 1 .. Cardinality(S) : c[Nth(S, n)].sub = Subs(c)[Nth(S, n)]
  BY <1>2, <1>4
<1>6. SubsAt(c, S) = Kept(Subs(c), S)
  BY <1>5 DEF SubsAt, Kept
<1>. QED BY <1>1, <1>6 DEF View, S

\* Erasing entries of a channel, and subscribers of a view.
LEMMA ViewKept ==
  ASSUME NEW c \in Seq(Entry), NEW S \in SUBSET DOMAIN c, NEW gone
  PROVE  View(Kept(c, S), gone) = Kept(Subs(c), S \cap Stand(c, gone))
<1>1. /\ Subs(c) \in Seq(Subscriber) /\ S \in SUBSET DOMAIN Subs(c) /\ DOMAIN Subs(c) = DOMAIN c
      /\ \A a \in DOMAIN c : Subs(c)[a] = c[a].sub
  BY SubsType
<1>2. PICK d : d = Kept(c, S)
  OBVIOUS
<1>3. /\ d \in Seq(Entry) /\ Len(d) = Cardinality(S) /\ DOMAIN d = 1 .. Cardinality(S)
      /\ \A n \in 1 .. Cardinality(S) : Nth(S, n) \in S /\ d[n] = c[Nth(S, n)]
      /\ \A p \in S : \E n \in 1 .. Cardinality(S) : Nth(S, n) = p
  <2>1. /\ d \in Seq(Entry) /\ Len(d) = Cardinality(S)
        /\ \A n \in 1 .. Cardinality(S) : Nth(S, n) \in S /\ d[n] = c[Nth(S, n)]
        /\ \A p \in S : \E n \in 1 .. Cardinality(S) : Nth(S, n) = p
    BY <1>2, KeptFacts
  <2>. QED BY <2>1
<1>4. Subs(d) = Kept(Subs(c), S)
  <2>1. \A n \in 1 .. Cardinality(S) : d[n].sub = Subs(c)[Nth(S, n)]
    BY <1>1, <1>3
  <2>. QED BY <1>3, <2>1 DEF Subs, Kept
<1> DEFINE Q == Stand(d, gone)
<1>5. Q \in SUBSET (1 .. Cardinality(S)) /\ \A n \in 1 .. Cardinality(S) : n \in Q <=> Nth(S, n) \in Stand(c, gone)
  BY <1>3 DEF Stand
<1>. HIDE DEF Q
<1>6. Kept(Kept(Subs(c), S), Q) = Kept(Subs(c), {Nth(S, q) : q \in Q})
  BY <1>1, <1>5, KeptKept
<1>7. {Nth(S, q) : q \in Q} = S \cap Stand(c, gone)
  <2>1. ASSUME NEW q \in Q PROVE Nth(S, q) \in S \cap Stand(c, gone)
    BY <1>3, <1>5
  <2>2. ASSUME NEW p \in S \cap Stand(c, gone) PROVE p \in {Nth(S, q) : q \in Q}
    <3>1. PICK n \in 1 .. Cardinality(S) : Nth(S, n) = p
      BY <1>3
    <3>. QED BY <1>5, <3>1
  <2>. QED BY <2>1, <2>2
<1>. QED BY <1>2, <1>4, <1>6, <1>7 DEF View, Q

LEMMA ViewWithout ==
  ASSUME NEW c \in Seq(Entry), NEW gone, NEW more
  PROVE  Registry!Without(View(c, gone), more) = View(c, gone \cup more)
<1> DEFINE S == Stand(c, gone)
           v == View(c, gone)
           Q == {n \in DOMAIN v : v[n] \notin more}
<1>1. Subs(c) \in Seq(Subscriber) /\ S \in SUBSET DOMAIN Subs(c) /\ \A a \in S : Subs(c)[a] = c[a].sub
  BY SubsType
<1>2. /\ \A n \in 1 .. Cardinality(S) : Nth(S, n) \in S /\ Kept(Subs(c), S)[n] = Subs(c)[Nth(S, n)]
      /\ \A p \in S : \E n \in 1 .. Cardinality(S) : Nth(S, n) = p
  <2>. HIDE DEF S
  <2>. QED BY <1>1, KeptFacts
<1>3. DOMAIN v = 1 .. Cardinality(S) /\ v = Kept(Subs(c), S)
  BY ViewType DEF View
<1>4. \A n \in 1 .. Cardinality(S) : v[n] = c[Nth(S, n)].sub
  BY <1>1, <1>2, <1>3
<1>5. Q \in SUBSET (1 .. Cardinality(S)) /\ \A n \in 1 .. Cardinality(S) : n \in Q <=> c[Nth(S, n)].sub \notin more
  BY <1>3, <1>4
<1>6. Kept(Kept(Subs(c), S), Q) = Kept(Subs(c), {Nth(S, q) : q \in Q})
  <2>. HIDE DEF S, Q
  <2>. QED BY <1>1, <1>5, KeptKept
<1>7. {Nth(S, q) : q \in Q} = Stand(c, gone \cup more)
  <2>1. ASSUME NEW q \in Q PROVE Nth(S, q) \in Stand(c, gone \cup more)
    <3>1. q \in 1 .. Cardinality(S) /\ Nth(S, q) \in S /\ c[Nth(S, q)].sub \notin more
      BY <1>2, <1>5
    <3>. QED BY <3>1 DEF Stand
  <2>2. ASSUME NEW p \in Stand(c, gone \cup more) PROVE p \in {Nth(S, q) : q \in Q}
    <3>1. p \in S /\ c[p].sub \notin more
      BY DEF Stand
    <3>2. PICK n \in 1 .. Cardinality(S) : Nth(S, n) = p
      BY <1>2, <3>1
    <3>. QED BY <1>5, <3>1, <3>2
  <2>. QED BY <2>1, <2>2
<1>8. Registry!Without(v, more) = Kept(v, Q)
  BY DEF Registry!Without, Registry!Kept, Registry!Nth, Registry!Cardinality, Kept, Nth, Cardinality
<1>. QED BY <1>3, <1>6, <1>7, <1>8 DEF View

LEMMA ViewErase ==
  ASSUME NEW c \in Seq(Entry), NEW sub, NEW gone
  PROVE  View(erase_live(c, sub), gone) = Registry!Without(View(c, gone), {sub})
<1> DEFINE S == {a \in DOMAIN c : c[a].dead \/ c[a].sub # sub}
<1>1. View(Kept(c, S), gone) = Kept(Subs(c), S \cap Stand(c, gone))
  BY ViewKept
<1>2. S \cap Stand(c, gone) = Stand(c, gone \cup {sub})
  BY DEF Stand
<1>3. Registry!Without(View(c, gone), {sub}) = View(c, gone \cup {sub})
  BY ViewWithout
<1>. QED BY <1>1, <1>2, <1>3 DEF View, erase_live

LEMMA ViewAdd ==
  ASSUME NEW c \in Seq(Entry), NEW sub \in Subscriber, NEW gone
  PROVE  View(add_entry(c, sub), gone) =
           IF sub \in gone \/ sub \in Range(View(c, gone)) THEN View(c, gone) ELSE Grown(View(c, gone), sub)
<1>1. Range(View(c, gone)) = {c[a].sub : a \in Stand(c, gone)}
  BY ViewType
<1>2. CASE LiveIn(c, sub)
  <2>1. PICK a \in DOMAIN c : ~c[a].dead /\ c[a].sub = sub
    BY <1>2 DEF LiveIn, Live
  <2>2. sub \in gone \/ a \in Stand(c, gone)
    BY <2>1 DEF Stand
  <2>3. sub \in gone \/ sub \in Range(View(c, gone))
    BY <1>1, <2>1, <2>2
  <2>. QED BY <1>2, <2>3 DEF add_entry
<1>3. CASE ~LiveIn(c, sub)
  <2>1. sub \notin Range(View(c, gone))
    BY <1>1, <1>3 DEF LiveIn, Live, Stand
  <2>2. PICK e : e = [sub |-> sub, dead |-> FALSE]
    OBVIOUS
  <2>13. e \in Entry /\ e.sub = sub /\ e.dead = FALSE /\ Append(c, e) = Append(c, [sub |-> sub, dead |-> FALSE])
    BY <2>2 DEF Entry
  <2>3. PICK d : d = Append(c, e)
    OBVIOUS
  <2>4. /\ d \in Seq(Entry) /\ DOMAIN d = 1 .. Len(c) + 1 /\ Len(d) = Len(c) + 1
        /\ d[Len(c) + 1] = e /\ \A a \in 1 .. Len(c) : d[a] = c[a]
    BY <2>3, <2>13
  <2>5. /\ Subs(c) \in Seq(Subscriber) /\ DOMAIN c = 1 .. Len(c) /\ Len(c) \in Nat /\ Len(Subs(c)) = Len(c)
        /\ \A a \in DOMAIN c : Subs(c)[a] = c[a].sub
        /\ Stand(c, gone) \in SUBSET DOMAIN Subs(c)
    BY SubsType
  <2>6. Subs(d) = Append(Subs(c), sub)
    <3>1. PICK s : s = Append(Subs(c), sub)
      OBVIOUS
    <3>2. /\ s \in Seq(Subscriber) /\ Len(s) = Len(c) + 1 /\ s[Len(c) + 1] = sub
          /\ \A a \in 1 .. Len(c) : s[a] = c[a].sub
      BY <2>5, <3>1
    <3>3. s = [a \in 1 .. Len(c) + 1 |-> s[a]]
      BY <2>5, <3>2
    <3>4. \A a \in 1 .. Len(c) + 1 : d[a].sub = s[a]
      <4>1. \A a \in 1 .. Len(c) + 1 : a \in 1 .. Len(c) \/ a = Len(c) + 1
        BY <2>5
      <4>. QED BY <2>2, <2>4, <3>2, <4>1
    <3>. QED BY <2>4, <3>1, <3>3, <3>4 DEF Subs
  <2>7. \A a \in DOMAIN d : a \in DOMAIN c \/ a = Len(c) + 1
    BY <2>4, <2>5
  <2>8. \A a \in DOMAIN c : a \in DOMAIN d /\ d[a] = c[a]
    BY <2>4, <2>5
  <2>9. Len(c) + 1 \in DOMAIN d
    BY <2>4, <2>5
  <2>10. Kept(Append(Subs(c), sub), Stand(c, gone)) = Kept(Subs(c), Stand(c, gone))
         /\ Kept(Append(Subs(c), sub), Stand(c, gone) \cup {Len(c) + 1}) = Append(Kept(Subs(c), Stand(c, gone)), sub)
    <3>1. PICK l \in Seq(Subscriber) : l = Subs(c)
      BY <2>5
    <3>3. PICK S \in SUBSET DOMAIN l : S = Stand(c, gone)
      BY <2>5, <3>1
    <3>2. Kept(Grown(l, sub), S) = Kept(l, S) /\ Kept(Grown(l, sub), S \cup {Len(l) + 1}) = Grown(Kept(l, S), sub)
      BY KeptMore
    <3>. QED BY <2>5, <3>1, <3>2, <3>3 DEF Grown
  <2>11. CASE sub \in gone
    <3>1. Stand(d, gone) = Stand(c, gone)
      BY <2>2, <2>4, <2>7, <2>8, <2>11 DEF Stand
    <3>. QED BY <1>3, <2>2, <2>3, <2>6, <2>10, <2>11, <3>1 DEF View, add_entry
  <2>12. CASE sub \notin gone
    <3>1. Stand(d, gone) = Stand(c, gone) \cup {Len(c) + 1}
      BY <2>2, <2>4, <2>7, <2>8, <2>9, <2>12 DEF Stand
    <3>2. View(d, gone) = Append(View(c, gone), sub)
      BY <2>6, <2>10, <3>1 DEF View
    <3>. QED BY <1>3, <2>1, <2>2, <2>3, <2>12, <3>2 DEF add_entry, Grown
  <2>. QED BY <2>11, <2>12
<1>. QED BY <1>2, <1>3

\* The views of all channels, and what a change does to one.
Views(channels, gone) == [k \in Key |-> View(channels[k], gone)]

Changed(v, op, gone) ==
  IF op.kind = "subscribe"
  THEN IF op.sub \in gone \/ op.sub \in Range(v) THEN v ELSE Append(v, op.sub)
  ELSE Registry!Without(v, {op.sub})

LEMMA ApplyViews ==
  ASSUME NEW channels, Channels(channels), NEW op \in DeferredOp, NEW gone
  PROVE  Views(apply_op(channels, op), gone) =
           [Views(channels, gone) EXCEPT ![op.key] = Changed(View(channels[op.key], gone), op, gone)]
<1>1. op.key \in Key /\ op.sub \in Subscriber
  BY DEF DeferredOp
<1>2. channels \in [Key -> Seq(Entry)] /\ channels[op.key] \in Seq(Entry)
  BY <1>1 DEF Channels
<1>3. PICK c : c = IF op.kind = "subscribe" THEN add_entry(channels[op.key], op.sub)
                                             ELSE erase_live(channels[op.key], op.sub)
  OBVIOUS
<1>4. View(c, gone) = Changed(View(channels[op.key], gone), op, gone)
  <2>1. CASE op.kind = "subscribe"
    <3>1. c = add_entry(channels[op.key], op.sub)
      BY <1>3, <2>1
    <3>2. View(c, gone) = IF op.sub \in gone \/ op.sub \in Range(View(channels[op.key], gone))
                          THEN View(channels[op.key], gone) ELSE Grown(View(channels[op.key], gone), op.sub)
      BY <1>1, <1>2, <3>1, ViewAdd
    <3>. QED BY <2>1, <3>2 DEF Changed, Grown
  <2>2. CASE op.kind # "subscribe"
    BY <1>1, <1>2, <1>3, <2>2, ViewErase DEF Changed
  <2>. QED BY <2>1, <2>2
<1>5. apply_op(channels, op) = [channels EXCEPT ![op.key] = c]
  BY <1>3 DEF apply_op
<1>6. ASSUME NEW k \in Key
      PROVE  apply_op(channels, op)[k] = IF k = op.key THEN c ELSE channels[k]
  BY <1>2, <1>5
<1>7. ASSUME NEW k \in Key
      PROVE  Views(apply_op(channels, op), gone)[k] = IF k = op.key THEN View(c, gone) ELSE View(channels[k], gone)
  BY <1>6 DEF Views
<1>. QED BY <1>1, <1>4, <1>7 DEF Views

\* Two drains whose channels look the same end in channels that do.
LEMMA DrainViews ==
  ASSUME NEW one, Channels(one), NEW other, Channels(other), NEW queue \in Seq(DeferredOp), NEW gone,
         Views(one, gone) = Views(other, gone)
  PROVE  Views(drain(one, queue), gone) = Views(drain(other, queue), gone)
<1>1. Len(queue) \in Nat /\ \A m \in 1 .. Len(queue) : queue[m] \in DeferredOp
  OBVIOUS
<1>2. PICK f : /\ drain(one, queue) = f[Len(queue)] /\ f[0] = one
               /\ \A m \in 1 .. Len(queue) : f[m] = apply_op(f[m - 1], queue[m])
  BY <1>1, DrainSteps
<1>3. PICK g : /\ drain(other, queue) = g[Len(queue)] /\ g[0] = other
               /\ \A m \in 1 .. Len(queue) : g[m] = apply_op(g[m - 1], queue[m])
  BY <1>1, DrainSteps
<1> DEFINE Same(m) == Channels(f[m]) /\ Channels(g[m]) /\ Views(f[m], gone) = Views(g[m], gone)
           Bad == {m \in 0 .. Len(queue) : ~Same(m)}
<1>4. Bad = {}
  <2>. SUFFICES ASSUME Bad # {} PROVE FALSE
    OBVIOUS
  <2>1. PICK m \in Bad : \A l \in Bad : m <= l
    <3>1. Bad \in SUBSET Nat
      OBVIOUS
    <3>. QED BY <3>1, LeastOf
  <2>2. m # 0
    BY <1>2, <1>3
  <2>3. m \in 1 .. Len(queue) /\ m - 1 \in 0 .. Len(queue) /\ m - 1 \notin Bad
    BY <1>1, <2>1, <2>2
  <2>4. Same(m - 1) /\ queue[m] \in DeferredOp /\ queue[m].key \in Key
    BY <1>1, <2>3 DEF DeferredOp
  <2>5. /\ f[m] = apply_op(f[m - 1], queue[m]) /\ Channels(f[m])
        /\ g[m] = apply_op(g[m - 1], queue[m]) /\ Channels(g[m])
    BY <1>2, <1>3, <2>3, <2>4, ApplyOp
  <2>6. /\ Views(f[m], gone) = [Views(f[m - 1], gone) EXCEPT ![queue[m].key] =
                                  Changed(View(f[m - 1][queue[m].key], gone), queue[m], gone)]
        /\ Views(g[m], gone) = [Views(g[m - 1], gone) EXCEPT ![queue[m].key] =
                                  Changed(View(g[m - 1][queue[m].key], gone), queue[m], gone)]
    <3>1. Channels(f[m - 1]) /\ Channels(g[m - 1])
      BY <2>4
    <3>2. PICK op \in DeferredOp : op = queue[m]
      BY <2>4
    <3>3. Views(apply_op(f[m - 1], op), gone) =
            [Views(f[m - 1], gone) EXCEPT ![op.key] = Changed(View(f[m - 1][op.key], gone), op, gone)]
      BY <3>1, ApplyViews
    <3>4. Views(apply_op(g[m - 1], op), gone) =
            [Views(g[m - 1], gone) EXCEPT ![op.key] = Changed(View(g[m - 1][op.key], gone), op, gone)]
      BY <3>1, ApplyViews
    <3>. QED BY <2>5, <3>2, <3>3, <3>4
  <2>7. Views(f[m - 1], gone)[queue[m].key] = View(f[m - 1][queue[m].key], gone)
        /\ Views(g[m - 1], gone)[queue[m].key] = View(g[m - 1][queue[m].key], gone)
    BY <2>4 DEF Views
  <2>8. Same(m)
    BY <2>4, <2>5, <2>6, <2>7
  <2>. QED BY <2>1, <2>8
<1>5. Len(queue) \in 0 .. Len(queue)
  BY <1>1
<1>. QED BY <1>2, <1>3, <1>4, <1>5

\* A change at the end of the queue is applied last.
LEMMA DrainAppend ==
  ASSUME NEW channels, NEW queue \in Seq(DeferredOp), NEW op \in DeferredOp
  PROVE  drain(channels, Append(queue, op)) = apply_op(drain(channels, queue), op)
<1>1. PICK longer : longer = Append(queue, op)
  OBVIOUS
<1>2. /\ Len(queue) \in Nat /\ Len(longer) = Len(queue) + 1 /\ longer[Len(queue) + 1] = op
      /\ \A m \in 1 .. Len(queue) : longer[m] = queue[m]
  BY <1>1
<1>3. PICK f : /\ drain(channels, queue) = f[Len(queue)] /\ f[0] = channels
               /\ \A m \in 1 .. Len(queue) : f[m] = apply_op(f[m - 1], queue[m])
  BY <1>2, DrainSteps
<1>4. PICK g : /\ drain(channels, longer) = g[Len(longer)] /\ g[0] = channels
               /\ \A m \in 1 .. Len(longer) : g[m] = apply_op(g[m - 1], longer[m])
  <2>1. Len(longer) \in Nat
    BY <1>2
  <2>. QED BY <2>1, DrainSteps
<1> DEFINE Bad == {m \in 0 .. Len(queue) : f[m] # g[m]}
<1>5. Bad = {}
  <2>. SUFFICES ASSUME Bad # {} PROVE FALSE
    OBVIOUS
  <2>1. PICK m \in Bad : \A l \in Bad : m <= l
    <3>1. Bad \in SUBSET Nat
      OBVIOUS
    <3>. QED BY <3>1, LeastOf
  <2>2. m # 0
    BY <1>3, <1>4
  <2>3. m \in 1 .. Len(queue) /\ m - 1 \in 0 .. Len(queue) /\ m - 1 \notin Bad /\ m \in 1 .. Len(longer)
    BY <1>2, <2>1, <2>2
  <2>4. f[m - 1] = g[m - 1] /\ queue[m] = longer[m]
    BY <1>2, <2>3
  <2>5. f[m] = apply_op(f[m - 1], queue[m]) /\ g[m] = apply_op(g[m - 1], longer[m])
    BY <1>3, <1>4, <2>3
  <2>. QED BY <2>1, <2>4, <2>5
<1>6. f[Len(queue)] = g[Len(queue)]
  <2>1. Len(queue) \in 0 .. Len(queue)
    BY <1>2
  <2>. QED BY <1>5, <2>1
<1>7. g[Len(longer)] = apply_op(g[Len(queue)], op)
  <2>1. Len(longer) \in 1 .. Len(longer) /\ Len(longer) - 1 = Len(queue)
    BY <1>2
  <2>. QED BY <1>2, <1>4, <2>1
<1>. QED BY <1>1, <1>3, <1>4, <1>6, <1>7

LEMMA DrainNothing ==
  ASSUME NEW channels
  PROVE  drain(channels, <<>>) = channels
<1>1. PICK queue : queue = <<>>
  OBVIOUS
<1>2. Len(queue) = 0 /\ Len(queue) \in Nat
  BY <1>1
<1>3. \E f : /\ drain(channels, queue) = f[Len(queue)] /\ f[0] = channels
            /\ \A m \in 1 .. Len(queue) : f[m] = apply_op(f[m - 1], queue[m])
  <2>. HIDE <1>1
  <2>. QED BY <1>2, DrainSteps
<1>. QED BY <1>1, <1>2, <1>3

LEMMA RegisteredViews ==
  BusInv => /\ Registered = Views(drain(entries, deferred), Gone)
            /\ Channels(drain(entries, deferred))
<1>. SUFFICES ASSUME BusInv
              PROVE  /\ Registered = Views(drain(entries, deferred), Gone)
                     /\ Channels(drain(entries, deferred))
  OBVIOUS
<1>1. PICK settled : settled = drain(entries, deferred)
  OBVIOUS
<1>2. Channels(settled)
  BY <1>1, DrainCorrect DEF BusInv, BusTypes
<1>3. \A k \in Key : settled[k] \in Seq(Entry)
  BY <1>2 DEF Channels
<1>4. \A k \in Key : SubsAt(settled[k], Standing(settled[k])) = View(settled[k], Gone)
  BY <1>3, ViewRegistered
<1>5. Registered = [k \in Key |-> SubsAt(settled[k], Standing(settled[k]))]
  BY <1>1 DEF Registered
<1>6. Registered = Views(settled, Gone)
  BY <1>4, <1>5 DEF Views
<1>. QED BY <1>1, <1>2, <1>6

LEMMA RegisteredViewsNext == BusInv' => Registered' = Views(drain(entries', deferred'), Gone')
<1>1. (BusInv => Registered = Views(drain(entries, deferred), Gone))'
  BY RegisteredViews, PTL
<1>. QED BY <1>1

LEMMA GoneStays ==
  ASSUME life' = life
  PROVE  Gone' = Gone
BY DEF Gone, check_subscribable

\* A change does to the registrations what its call says.
LEMMA ChangeRegisters ==
  ASSUME BusInv, BusInv', NEW op \in DeferredOp, change(op),
         op.kind = "subscribe" => check_subscribable(op.sub)
  PROVE  /\ op.kind = "subscribe" => Registry!Subscribe(op.key, op.sub)
         /\ op.kind = "unsubscribe" => Registry!Unsubscribe(op.key, op.sub)
<1>1. op.key \in Key /\ op.sub \in Subscriber /\ op.kind \in {"subscribe", "unsubscribe"}
  BY DEF DeferredOp
<1>2. PICK settled : settled = drain(entries, deferred)
  OBVIOUS
<1>3. Channels(settled) /\ Registered = Views(settled, Gone) /\ settled[op.key] \in Seq(Entry)
  BY <1>1, <1>2, RegisteredViews DEF Channels
<1>4. drain(entries', deferred') = apply_op(settled, op)
  <2>1. CASE Depth = 0
    <3>1. deferred = <<>> /\ deferred' = <<>> /\ entries' = apply_op(entries, op)
      BY <2>1 DEF BusInv, change
    <3>. QED BY <1>2, <3>1, DrainNothing
  <2>2. CASE Depth # 0
    <3>1. deferred' = Append(deferred, op) /\ entries' = entries /\ deferred \in Seq(DeferredOp)
      BY <2>2 DEF BusInv, BusTypes, change
    <3>. QED BY <1>2, <3>1, DrainAppend
  <2>. QED BY <2>1, <2>2
<1>5. Gone' = Gone
  BY GoneStays DEF change, worldVars
<1>6. PICK v : v = View(settled[op.key], Gone)
  OBVIOUS
<1>7. Registered' = [Registered EXCEPT ![op.key] = Changed(v, op, Gone)] /\ Registered[op.key] = v
  <2>1. Registered' = Views(apply_op(settled, op), Gone)
    BY <1>4, <1>5, RegisteredViewsNext
  <2>2. Registered[op.key] = v
    BY <1>1, <1>3, <1>6 DEF Views
  <2>. QED BY <1>3, <1>6, <2>1, <2>2, ApplyViews
<1>9. CASE op.kind = "subscribe"
  <2>1. op.sub \notin Gone
    BY <1>9 DEF Gone
  <2>2. Changed(v, op, Gone) = IF op.sub \in Range(v) THEN v ELSE Append(v, op.sub)
    BY <1>9, <2>1 DEF Changed
  <2>. QED BY <1>7, <1>9, <2>2 DEF Registry!Subscribe, Registry!Range, Range
<1>10. CASE op.kind = "unsubscribe"
  BY <1>7, <1>10 DEF Changed, Registry!Unsubscribe
<1>. QED BY <1>9, <1>10

\* What does not touch channels, queue or who is gone.
LEMMA NothingRegisters ==
  ASSUME BusInv, BusInv', entries' = entries, deferred' = deferred, Gone' = Gone
  PROVE  Registered' = Registered
BY RegisteredViews, RegisteredViewsNext

\* An entry of a subscriber that is gone is marked dead.
LEMMA MarkRegisters ==
  ASSUME BusInv, BusInv', drop_stale
  PROVE  Registered' = Registered
<1>1. /\ Scanning /\ ~Here.dead /\ Gate = "stale"
      /\ entries' = [entries EXCEPT ![Top.key][Top.at].dead = TRUE]
      /\ deferred' = deferred /\ life' = life
  BY DEF drop_stale, worldVars
<1>2. /\ Top.key \in Key /\ Top.at \in 1 .. Top.count /\ Here = entries[Top.key][Top.at] /\ Here \in Entry
      /\ Len(entries[Top.key]) = Top.count
  BY <1>1, HereFacts
<1>3. entries \in [Key -> Seq(Entry)] /\ Channels(entries) /\ deferred \in Seq(DeferredOp)
  BY DEF BusInv, BusTypes, Channels
<1>4. PICK c : c = entries[Top.key] /\ c \in Seq(Entry) /\ Top.at \in 1 .. Len(c) /\ Top.at \in DOMAIN c
  BY <1>2, <1>3
<1>5. Here.sub \in Gone
  BY <1>1, <1>2 DEF Gate, Gone, check_subscribable, Entry
<1>6. PICK e : e = [c[Top.at] EXCEPT !.dead = TRUE]
  OBVIOUS
<1>7. e.sub = c[Top.at].sub /\ e.dead /\ c[Top.at].sub \in Gone
  BY <1>2, <1>4, <1>5, <1>6 DEF Entry
<1>8. PICK d : d = [c EXCEPT ![Top.at] = e]
  OBVIOUS
<1>9. DOMAIN d = DOMAIN c /\ \A a \in DOMAIN c : d[a] = IF a = Top.at THEN e ELSE c[a]
  BY <1>8
<1>10. Subs(d) = Subs(c)
  BY <1>7, <1>9 DEF Subs
<1>11. Stand(d, Gone) = Stand(c, Gone)
  BY <1>7, <1>9 DEF Stand
<1>12. entries' = [entries EXCEPT ![Top.key] = d]
  BY <1>1, <1>2, <1>3, <1>4, <1>6, <1>8
<1>13. \A k \in Key : View(entries'[k], Gone) = View(entries[k], Gone)
  <2>1. \A k \in Key : entries'[k] = IF k = Top.key THEN d ELSE entries[k]
    BY <1>3, <1>12
  <2>. QED BY <1>4, <1>10, <1>11, <2>1 DEF View
<1>14. Views(entries', Gone) = Views(entries, Gone)
  BY <1>13 DEF Views
<1>15. Channels(entries')
  BY DEF BusInv, Channels
<1>16. Views(drain(entries', deferred), Gone) = Views(drain(entries, deferred), Gone)
  BY <1>3, <1>14, <1>15, DrainViews
<1>. QED BY <1>1, <1>16, GoneStays, RegisteredViews, RegisteredViewsNext

\* The queue is applied, the dead leave.
LEMMA EndRegisters ==
  ASSUME BusInv, BusInv', end_dispatch
  PROVE  Registered' = Registered
<1>1. life' = life
  BY DEF end_dispatch, worldVars
<1>2. CASE Depth = 1
  <2>1. PICK settled : settled = drain(entries, deferred)
    OBVIOUS
  <2>2. Channels(settled) /\ Registered = Views(settled, Gone)
    BY <2>1, RegisteredViews
  <2>3. entries' = compact(settled, dirty) /\ deferred' = <<>>
    BY <1>2, <2>1 DEF end_dispatch
  <2>4. ASSUME NEW k \in Key PROVE View(compact(settled, dirty)[k], Gone) = View(settled[k], Gone)
    <3>1. CASE k \in Range(dirty)
      <4>1. PICK c : c = settled[k] /\ c \in Seq(Entry)
        BY <2>2 DEF Channels
      <4>2. compact(settled, dirty)[k] = Kept(c, Live(c))
        BY <3>1, <4>1 DEF compact
      <4>3. Live(c) \in SUBSET DOMAIN c /\ Live(c) \cap Stand(c, Gone) = Stand(c, Gone)
        BY DEF Live, Stand
      <4>4. View(Kept(c, Live(c)), Gone) = Kept(Subs(c), Live(c) \cap Stand(c, Gone))
        BY <4>1, <4>3, ViewKept
      <4>. QED BY <4>1, <4>2, <4>3, <4>4 DEF View
    <3>2. CASE k \notin Range(dirty)
      BY <3>2 DEF compact
    <3>. QED BY <3>1, <3>2
  <2>5. Views(compact(settled, dirty), Gone) = Views(settled, Gone)
    BY <2>4 DEF Views
  <2>. QED BY <1>1, <2>2, <2>3, <2>5, DrainNothing, GoneStays, RegisteredViewsNext
<1>3. CASE Depth # 1
  BY <1>1, <1>3, GoneStays, NothingRegisters DEF end_dispatch, structureVars
<1>. QED BY <1>2, <1>3

\* The subscribers of an entity expire with it.
LEMMA DespawnRegisters ==
  ASSUME BusInv, BusInv', NEW e \in Entity, despawn(e)
  PROVE  Registry!Expire(OwnedBy(e))
<1> DEFINE gone == OwnedBy(e)
<1>1. entries' = entries /\ deferred' = deferred /\ life' = [life EXCEPT ![e] = "stale"]
      /\ life \in [Entity -> {"pending", "alive", "stale"}]
  BY DEF despawn, structureVars, BusInv, BusTypes
<1>2. ASSUME NEW s \in Subscriber
      PROVE  check_subscribable(s)' <=> check_subscribable(s) /\ s \notin gone
  <2>1. s \notin Plain => entity_of[s] \in Entity
    BY BusAssumption DEF Subscriber
  <2>2. s \in gone <=> s \notin Plain /\ entity_of[s] = e
    BY BusAssumption DEF Subscriber, OwnedBy
  <2>. QED BY <1>1, <2>1, <2>2 DEF check_subscribable
<1>3. Gone' = Gone \cup gone
  <2>1. gone \in SUBSET Subscriber
    BY DEF OwnedBy, Subscriber
  <2>. QED BY ONLY <1>2, <2>1 DEF Gone
<1>4. PICK settled : settled = drain(entries, deferred)
  OBVIOUS
<1>5. Channels(settled) /\ Registered = Views(settled, Gone) /\ Registered' = Views(settled, Gone \cup gone)
  BY <1>1, <1>3, <1>4, RegisteredViews, RegisteredViewsNext
<1>. HIDE DEF gone
<1>7. ASSUME NEW k \in Key
      PROVE  View(settled[k], Gone \cup gone) = Registry!Without(Registered[k], gone)
  <2>1. settled[k] \in Seq(Entry) /\ Registered[k] = View(settled[k], Gone)
    BY <1>5 DEF Channels, Views
  <2>. QED BY <2>1, ViewWithout
<1>8. Registered' = [k \in Key |-> Registry!Without(Registered[k], gone)]
  BY <1>5, <1>7 DEF Views
<1>9. Registry!Expire(gone)
  BY <1>8 DEF Registry!Expire
<1>. QED BY <1>9 DEF gone

LEMMA StepRegisters ==
  BusInv /\ BusInv' /\ [BusNext]_busVars => CallMeans /\ [Registry!Next]_Registered
<1>. SUFFICES ASSUME BusInv, BusInv', [BusNext]_busVars PROVE CallMeans /\ [Registry!Next]_Registered
  OBVIOUS
<1>1. ASSUME NEW sub \in Subscriber, NEW key \in Key
      PROVE  /\ subscribe(sub, key) => Registry!Subscribe(key, sub)
             /\ unsubscribe(sub, key) => Registry!Unsubscribe(key, sub)
  <2>1. ASSUME subscribe(sub, key) PROVE Registry!Subscribe(key, sub)
    <3>1. PICK op : op = [kind |-> "subscribe", key |-> key, sub |-> sub]
      OBVIOUS
    <3>2. op \in DeferredOp /\ op.sub = sub /\ op.key = key /\ op.kind = "subscribe"
      BY <3>1 DEF DeferredOp
    <3>3. change(op) /\ check_subscribable(op.sub)
      BY <2>1, <3>1, <3>2 DEF subscribe
    <3>. QED BY <3>2, <3>3, ChangeRegisters
  <2>2. ASSUME unsubscribe(sub, key) PROVE Registry!Unsubscribe(key, sub)
    <3>1. PICK op : op = [kind |-> "unsubscribe", key |-> key, sub |-> sub]
      OBVIOUS
    <3>2. op \in DeferredOp /\ op.sub = sub /\ op.key = key /\ op.kind = "unsubscribe"
      BY <3>1 DEF DeferredOp
    <3>3. change(op)
      BY <2>2, <3>1 DEF unsubscribe
    <3>. QED BY <3>2, <3>3, ChangeRegisters
  <2>. QED BY <2>1, <2>2
<1>2. ASSUME NEW e \in Entity, flush_alive(e) PROVE Registered' = Registered
  <2>1. /\ entries' = entries /\ deferred' = deferred
        /\ life[e] = "pending" /\ life' = [life EXCEPT ![e] = "alive"]
        /\ life \in [Entity -> {"pending", "alive", "stale"}]
    BY <1>2 DEF flush_alive, structureVars, BusInv, BusTypes
  <2>2. \A f \in Entity : life'[f] # "stale" <=> life[f] # "stale"
    BY <2>1
  <2>3. \A s \in Subscriber : s \notin Plain => entity_of[s] \in Entity
    BY BusAssumption DEF Subscriber
  <2>4. Gone' = Gone
    BY <2>2, <2>3 DEF Gone, check_subscribable
  <2>. QED BY <2>1, <2>4, NothingRegisters
<1>3. ASSUME entries' = entries, deferred' = deferred, life' = life PROVE Registered' = Registered
  BY <1>3, GoneStays, NothingRegisters
<1>4. ASSUME NEW t \in Thunk, toggle(t) PROVE Registered' = Registered
  BY <1>3, <1>4 DEF toggle, structureVars
<1>5. ASSUME NEW key \in Key, trigger(key) PROVE Registered' = Registered
  BY <1>3, <1>5 DEF trigger, structureVars, worldVars
<1>6. ASSUME deliver \/ skip \/ listener_return PROVE Registered' = Registered
  BY <1>3, <1>6 DEF deliver, skip, listener_return, structureVars, worldVars
<1>7. ASSUME UNCHANGED busVars PROVE Registered' = Registered
  BY <1>3, <1>7 DEF busVars, structureVars, worldVars
<1>8. ASSUME Dispatching PROVE Registered' = Registered
  BY <1>6, <1>8, MarkRegisters, EndRegisters DEF Dispatching
<1>9. ASSUME NEW e \in Entity, despawn(e) PROVE Registry!Expire(OwnedBy(e))
  BY <1>9, DespawnRegisters
<1>10. CallMeans
  BY <1>1, <1>2, <1>4, <1>5, <1>8, <1>9 DEF CallMeans
<1>11. [Registry!Next]_Registered
  <2>1. ASSUME NEW sub \in Subscriber, NEW key \in Key, subscribe(sub, key) \/ unsubscribe(sub, key)
        PROVE  Registry!Next
    BY <1>1, <2>1 DEF Registry!Next
  <2>2. ASSUME NEW e \in Entity, despawn(e) PROVE Registry!Next
    BY <1>9, <2>2 DEF Registry!Next
  <2>. QED BY <1>2, <1>4, <1>5, <1>7, <1>8, <2>1, <2>2 DEF BusNext
<1>. QED BY <1>10, <1>11

\* Subscriptions mean the same inside a dispatch and out (Bus::add_subscription,
\* remove_subscription and apply_deferred): the bus implements Registrations, and
\* every call does to the registrations what its own name says.
THEOREM SubscriptionsKept == BusSpec => RegistrationsKept
<1>1. BusInit => Registry!Init
  <2>. SUFFICES ASSUME BusInit PROVE Registry!Init
    OBVIOUS
  <2>1. BusInv /\ entries = [k \in Key |-> <<>>] /\ deferred = <<>>
    BY InitBusInv DEF BusInit
  <2>2. Registered = Views(entries, Gone)
    BY <2>1, RegisteredViews, DrainNothing
  <2>3. ASSUME NEW k \in Key PROVE View(entries[k], Gone) = <<>>
    <3>1. entries[k] = <<>> /\ <<>> \in Seq(Entry) /\ <<>> \in Seq(Subscriber)
      BY <2>1
    <3>2. Stand(entries[k], Gone) = {}
      BY <3>1 DEF Stand
    <3>3. Len(Kept(Subs(entries[k]), {})) = Cardinality({}) /\ Kept(Subs(entries[k]), {}) \in Seq(Subscriber)
      BY <3>1, SubsType, KeptFacts
    <3>. QED BY <3>2, <3>3, FS_EmptySet DEF View
  <2>. QED BY <2>2, <2>3 DEF Views, Registry!Init
<1>. QED BY <1>1, BusInvariant, StepRegisters, PTL DEF BusSpec, RegistrationsKept, Registry!Spec
=============================================================================
