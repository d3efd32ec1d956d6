----------------------------- MODULE SpawnerProofs -----------------------------
(***************************************************************************)
(* The spawner: every despawn happens in the phase 8 of its earliest       *)
(* deadline, every spawn that was requested is realised, what was captured *)
(* for removal is what dies, and every life goes through its stages in     *)
(* order, for all prefabs, delays, lengths of the queue and numbers of     *)
(* ticks.                                                                  *)
(***************************************************************************)
EXTENDS Spawner, SublistProofs

Op == {"due", "exit_machine", "exit_seat", "remove", "hook", "flush", "realize", "bury", "drain",
       "build", "settle", "enter", "announce", "despawned_listener", "scene_stands"}
FrameType == [do : Op, who : Entity \cup {None}, subtree : Seq(Entity)]
Command == [op : {"spawn", "despawn"}, entity : Entity]
             \cup [op : {"reparent"}, entity : Child, parent : Root \cup {None}]
             \cup [op : {"reparent"}, entity : Root, parent : {None}]
Reap == [ref : Entity, subtree : Seq(Entity)]

SpawnerTypes ==
  /\ tick \in 0 .. MaxTick /\ last_prepared \in 0 .. tick
  /\ phase \in {"boot", "between", "open", "structural", "aborted"} /\ poisoned \in BOOLEAN
  /\ life \in [Entity -> {"free", "pending", "alive", "dead"}]
  /\ parent \in [Entity -> Root \cup {None}] /\ adopted \in SUBSET Entity
  /\ seat \in [Entity -> {"none", "seated", "exited", "released"}]
  /\ machine \in [Root -> {"none", "seated", "live", "exited"}]
  /\ commands \in Seq(Command) /\ pending \in Seq(Root)
  /\ lingers \in Seq([ref : Entity, due : Nat]) /\ queued_reaps \in Seq(Reap)
  /\ promised \in [Entity -> 0 .. Never]
  /\ todo \in Seq(FrameType)

\* The stages of phase 8, and of the scene's entry; a frame of user code is on
\* top of whatever stage it runs in.
Stage(do) ==
  IF do \in {"hook", "despawned_listener"} THEN 0
  ELSE IF do \in {"due", "exit_machine", "exit_seat", "remove"} THEN 1
  ELSE IF do = "flush" THEN 2
  ELSE IF do = "realize" THEN 3
  ELSE IF do = "bury" THEN 4
  ELSE IF do = "drain" THEN 5
  ELSE IF do \in {"build", "enter", "announce"} THEN 6
  ELSE 7

\* Frame g waits behind frame f.
Fits(f, g) ==
  /\ Stage(f.do) <= Stage(g.do)
  /\ Stage(f.do) = Stage(g.do) => Stage(f.do) \in {1, 4, 6}
  /\ f.do = "build" /\ g.do = "build" => f.who # g.who

Waiting(do, e) == \E k \in DOMAIN todo : todo[k].do = do /\ todo[k].who = e
Awaits(do) == \E k \in DOMAIN todo : todo[k].do = do

\* What a frame promises of the entity it is about.
FrameRight(f) ==
  /\ f.do \in {"due", "exit_machine", "exit_seat", "remove", "bury"} => f.who \in Entity
  /\ f.do \in {"build", "enter"} => f.who \in Root
  /\ f.do \in {"due", "remove"} => promised[f.who] <= last_prepared
  /\ f.do \in {"due", "build"} => life[f.who] # "free"

InOrder == \A i, j \in DOMAIN todo : i < j => Fits(todo[i], todo[j])
FlushAhead == \A k \in DOMAIN todo : Stage(todo[k].do) \in {1, 2} => Awaits("flush") /\ Awaits("realize")

StackRight == InOrder /\ FlushAhead /\ \A k \in DOMAIN todo : FrameRight(todo[k])

Untouched ==
  /\ life = [e \in Entity |-> "free"] /\ promised = [e \in Entity |-> Never]
  /\ seat = [e \in Entity |-> "none"]
  /\ commands = <<>> /\ pending = <<>> /\ lingers = <<>> /\ queued_reaps = <<>>

SceneEnters == \A k \in DOMAIN todo : todo[k].do \in {"hook", "enter", "scene_stands"}

PhaseRight ==
  /\ phase \in {"between", "open", "aborted"} => todo = <<>>
  /\ phase = "boot" =>
       \/ todo = <<>> /\ Untouched
       \/ Awaits("scene_stands") /\ SceneEnters
  /\ phase = "structural" => ~Awaits("scene_stands")
  /\ phase = "open" => tick = last_prepared + 1
  /\ phase \in {"boot", "between", "structural"} => tick = last_prepared
  /\ phase # "aborted" /\ queued_reaps # <<>> => Awaits("flush") \/ Awaits("realize") \/ Awaits("drain")
  /\ phase # "aborted" =>
       \A k \in DOMAIN commands : commands[k].op = "despawn" => Awaits("flush")

Live(e) == life[e] \in {"pending", "alive"}

PromisesRight ==
  /\ \A k \in DOMAIN lingers : promised[lingers[k].ref] <= lingers[k].due /\ life[lingers[k].ref] # "free"
  /\ \A e \in Entity : Live(e) /\ promised[e] > last_prepared /\ promised[e] # Never =>
       \E k \in DOMAIN lingers : lingers[k].ref = e /\ lingers[k].due <= promised[e]
  /\ phase # "aborted" =>
       \A e \in Entity : Live(e) /\ promised[e] <= last_prepared =>
         /\ Awaits("flush")
         /\ Waiting("due", e) \/ Waiting("remove", e) \/ \E j \in DOMAIN commands : commands[j] = Despawn(e)
  /\ \A k \in DOMAIN queued_reaps : promised[queued_reaps[k].ref] <= tick

BirthsRight ==
  /\ \A e \in Entity : life[e] = "free" => promised[e] = Never
  /\ \A k \in DOMAIN commands : commands[k].op = "despawn" => life[commands[k].entity] # "free"
  /\ \A e \in Entity : life[e] = "pending" =>
       \E j \in DOMAIN commands :
         commands[j] = Spawn(e) /\ \A k \in DOMAIN commands : commands[k] = Despawn(e) => j < k
  /\ \A k \in DOMAIN pending : life[pending[k]] # "free"
  /\ \A i, j \in DOMAIN pending : pending[i] = pending[j] => i = j
  /\ \A k \in DOMAIN pending : ~Waiting("build", pending[k])
  /\ \A c \in Child : life[c] # "free" =>
       /\ life[ChildOf[c]] # "free" /\ ~Waiting("build", ChildOf[c])
       /\ \A k \in DOMAIN pending : pending[k] # ChildOf[c]

SpawnerInv == SpawnerTypes /\ StackRight /\ PhaseRight /\ PromisesRight /\ BirthsRight

\* With listeners of entity.despawned that spawn nothing: what is not built is on a
\* list, or was on one that is lost.
LandInv ==
  /\ \A r \in Root : phase # "aborted" /\ Live(r) /\ seat[r] = "none" =>
       Waiting("build", r) \/ (\E k \in DOMAIN pending : pending[k] = r) \/ r \in lost
  /\ \A r \in Root : Waiting("build", r) => life[r] # "pending"
  /\ Awaits("realize") \/ Awaits("drain") => ~Awaits("build")
  /\ (Awaits("realize") \/ Awaits("drain")) /\ ~Awaits("flush") =>
       ~Awaits("hook") /\ \A e \in Entity : life[e] # "pending"

-----------------------------------------------------------------------------
\* The greater and the lesser of two naturals.
LEMMA MaxMin ==
  ASSUME NEW a \in Nat, NEW b \in Nat
  PROVE  /\ Max({a, b}) = IF a >= b THEN a ELSE b
         /\ Min({a, b}) = IF a <= b THEN a ELSE b
<1>1. Max({a, b}) = IF a >= b THEN a ELSE b
  <2>1. \E x \in {a, b} : \A y \in {a, b} : x >= y
    OBVIOUS
  <2>2. Max({a, b}) \in {a, b} /\ \A y \in {a, b} : Max({a, b}) >= y
    BY <2>1, Zenon DEF Max
  <2>. QED BY <2>2
<1>2. Min({a, b}) = IF a <= b THEN a ELSE b
  <2>1. \E x \in {a, b} : \A y \in {a, b} : x <= y
    OBVIOUS
  <2>2. Min({a, b}) \in {a, b} /\ \A y \in {a, b} : Min({a, b}) <= y
    BY <2>1, Zenon DEF Min
  <2>. QED BY <2>2
<1>. QED BY <1>1, <1>2

\* A finite set as a list.
LEMMA ListOfSet ==
  ASSUME NEW S, IsFiniteSet(S)
  PROVE  SetToSeq(S) \in Seq(S) /\ Len(SetToSeq(S)) = Cardinality(S)
<1>1. \E f \in [1 .. Cardinality(S) -> S] : IsInjective(f)
  <2>1. PICK f \in Bijection(1 .. Cardinality(S), S) : TRUE
    BY FS_NatBijection, FS_CardinalityType, FS_CountingElements DEF ExistsBijection
  <2>. QED BY <2>1 DEF Bijection, Injection, IsInjective
<1>2. SetToSeq(S) \in [1 .. Cardinality(S) -> S]
  BY <1>1, Zenon DEF SetToSeq
<1>3. Cardinality(S) \in Nat
  BY FS_CardinalityType
<1>. QED BY <1>2, <1>3

-----------------------------------------------------------------------------
\* The queue.  A life goes from free over pending and alive to dead.
Onward(a, b) ==
  /\ a = "free" => b = "free"
  /\ a = "dead" => b = "dead"
  /\ a = "alive" => b \in {"alive", "dead"}
  /\ a = "pending" => b \in {"pending", "alive", "dead"}

Worlds == [life : [Entity -> {"free", "pending", "alive", "dead"}], parent : [Entity -> Root \cup {None}],
           adopted : SUBSET Entity]

\* What a reparent makes of a world.
Moved(w, c) ==
  [w EXCEPT !.parent[c.entity] = c.parent, !.adopted = @ \cup ({c.entity, c.parent} \ {None})]

\* One command: it moves lives onward, a spawn leaves nothing pending, and a
\* despawn of what is not pending leaves nothing alive.
LEMMA ApplyFacts ==
  ASSUME NEW w \in Worlds, NEW c \in Command
  PROVE  /\ Apply(w, c) \in Worlds
         /\ \A e \in Entity : Onward(w.life[e], Apply(w, c).life[e])
         /\ \A e \in Entity : c = Spawn(e) => Apply(w, c).life[e] # "pending"
         /\ \A e \in Entity : c = Despawn(e) /\ w.life[e] # "pending" => Apply(w, c).life[e] \notin {"pending", "alive"}
         /\ c.op # "despawn" => \A e \in Entity : w.life[e] = "alive" => Apply(w, c).life[e] = "alive"
<1>1. c.entity \in Entity /\ c.op \in {"spawn", "despawn", "reparent"}
  BY DEF Command, Entity
<1>2. CASE c.op = "spawn" /\ w.life[c.entity] = "pending"
  <2>1. Apply(w, c) = [w EXCEPT !.life[c.entity] = "alive"]
    BY <1>2 DEF Apply
  <2>. QED BY <1>1, <1>2, <2>1 DEF Worlds, Onward, Spawn, Despawn
<1>3. CASE c.op = "despawn" /\ w.life[c.entity] = "alive"
  <2> DEFINE gone == Cascade(w, c.entity)
  <2>1. Apply(w, c) = [life |-> [x \in Entity |-> IF x \in gone THEN "dead" ELSE w.life[x]],
                       parent |-> [x \in Entity |-> IF x \in gone THEN None ELSE w.parent[x]],
                       adopted |-> w.adopted \ gone]
    BY <1>3 DEF Apply
  <2>2. c.entity \in gone /\ \A x \in Entity : x \in gone => w.life[x] = "alive"
    BY <1>3 DEF Cascade
  <2>. HIDE DEF gone
  <2>3. Apply(w, c) \in Worlds
    BY <2>1 DEF Worlds
  <2>4. \A e \in Entity : Apply(w, c).life[e] = IF e \in gone THEN "dead" ELSE w.life[e]
    BY <2>1
  <2>5. \A e \in Entity : w.life[e] \in {"free", "pending", "alive", "dead"}
    BY DEF Worlds
  <2>. QED BY <1>1, <1>3, <2>2, <2>3, <2>4, <2>5 DEF Onward, Spawn, Despawn
<1>4. CASE ~(c.op = "spawn" /\ w.life[c.entity] = "pending") /\ ~(c.op = "despawn" /\ w.life[c.entity] = "alive")
  <2>1. Apply(w, c) = w \/ (c.op = "reparent" /\ Apply(w, c) = Moved(w, c))
    <3> DEFINE spawns == c.op = "spawn" /\ w.life[c.entity] = "pending"
               despawns == c.op = "despawn" /\ w.life[c.entity] = "alive"
               moves == c.op = "reparent" /\ w.life[c.entity] = "alive"
                        /\ (c.parent = None \/ w.life[c.parent] = "alive")
               spawned == [w EXCEPT !.life[c.entity] = "alive"]
               despawned == [life |-> [x \in Entity |-> IF x \in Cascade(w, c.entity) THEN "dead" ELSE w.life[x]],
                             parent |-> [x \in Entity |-> IF x \in Cascade(w, c.entity) THEN None ELSE w.parent[x]],
                             adopted |-> w.adopted \ Cascade(w, c.entity)]
               moved == Moved(w, c)
    <3>1. Apply(w, c) = IF spawns THEN spawned ELSE IF despawns THEN despawned ELSE IF moves THEN moved ELSE w
      BY Zenon DEF Apply, Moved
    <3>2. ~spawns /\ ~despawns /\ (moves => c.op = "reparent")
      BY <1>4
    <3>3. Apply(w, c) = w \/ (moves /\ Apply(w, c) = moved)
      <4>. HIDE DEF spawns, despawns, moves, spawned, despawned, moved
      <4>. QED BY <3>1, <3>2
    <3>. QED BY <3>2, <3>3
  <2>2. c.op = "reparent" => c.parent \in Root \cup {None} /\ c.entity \in Entity
    BY DEF Command, Entity
  <2>3. Apply(w, c) \in Worlds /\ Apply(w, c).life = w.life
    <3>1. c.op = "reparent" => Moved(w, c) \in Worlds /\ Moved(w, c).life = w.life
      <4>. SUFFICES ASSUME c.op = "reparent" PROVE Moved(w, c) \in Worlds /\ Moved(w, c).life = w.life
        OBVIOUS
      <4>1. {c.entity, c.parent} \ {None} \subseteq Entity
        BY <2>2 DEF Entity
      <4>. HIDE DEF Entity
      <4>. QED BY <2>2, <4>1 DEF Worlds, Moved
    <3>. QED BY <2>1, <3>1
  <2>4. \A e \in Entity : w.life[e] \in {"free", "pending", "alive", "dead"}
    BY DEF Worlds
  <2>5. \A e \in Entity : Onward(w.life[e], Apply(w, c).life[e])
    BY <2>3, <2>4 DEF Onward
  <2>6. \A e \in Entity : c = Spawn(e) => Apply(w, c).life[e] # "pending"
    BY <1>4, <2>3 DEF Spawn
  <2>7. \A e \in Entity : c = Despawn(e) /\ w.life[e] # "pending" => Apply(w, c).life[e] \notin {"pending", "alive"}
    BY <1>4, <2>3 DEF Despawn
  <2>. QED BY <2>3, <2>5, <2>6, <2>7
<1>. QED BY <1>2, <1>3, <1>4

\* The worlds on the way through the queue.
Passes(world, n) ==
  world = [m \in 0 .. n |-> IF m = 0 THEN [life |-> life, parent |-> parent, adopted |-> adopted]
                                     ELSE Apply(world[m - 1], commands[m])]

\* There is such a list of worlds for a queue of every length.
LEMMA PassesExist ==
  ASSUME NEW n \in Nat
  PROVE  \E world : Passes(world, n)
<1> DEFINE Bad == {m \in Nat : ~\E world : Passes(world, m)}
<1>. SUFFICES ASSUME n \in Bad PROVE FALSE
  OBVIOUS
<1>1. PICK m \in Bad : \A l \in Bad : m <= l
  BY LeastOf
<1>2. CASE m = 0
  <2>1. Passes([l \in 0 .. 0 |-> [life |-> life, parent |-> parent, adopted |-> adopted]], 0)
    BY DEF Passes
  <2>. QED BY <1>2, <2>1
<1>3. CASE m # 0
  <2>1. m - 1 \in Nat /\ m - 1 \notin Bad
    BY <1>1, <1>3
  <2>2. PICK g : Passes(g, m - 1)
    BY <2>1
  <2>. DEFINE h == [l \in 0 .. m |-> IF l = m THEN Apply(g[m - 1], commands[m]) ELSE g[l]]
  <2>3. ASSUME NEW l \in 0 .. m
        PROVE  h[l] = IF l = 0 THEN [life |-> life, parent |-> parent, adopted |-> adopted]
                     ELSE Apply(h[l - 1], commands[l])
    <3>1. CASE l = m
      <4>1. h[l - 1] = g[m - 1] /\ l # 0
        BY <1>3, <3>1
      <4>. QED BY <3>1, <4>1
    <3>2. CASE l # m
      <4>1. l \in 0 .. m - 1 /\ h[l] = g[l] /\ (l # 0 => h[l - 1] = g[l - 1])
        BY <3>2
      <4>2. g[l] = IF l = 0 THEN [life |-> life, parent |-> parent, adopted |-> adopted]
                   ELSE Apply(g[l - 1], commands[l])
        BY <2>2, <4>1 DEF Passes
      <4>. QED BY <4>1, <4>2
    <3>. QED BY <3>1, <3>2
  <2>4. h = [l \in 0 .. m |-> h[l]]
    OBVIOUS
  <2>5. Passes(h, m)
    BY <2>3, <2>4, Zenon DEF Passes
  <2>. QED BY <2>5
<1>. QED BY <1>2, <1>3

\* The flush: lives move onward, every spawn in the queue has happened, and
\* so has every despawn of what was alive or spawned before in the queue.
LEMMA FlushFacts ==
  ASSUME SpawnerTypes
  PROVE  /\ Flushed \in Worlds
         /\ \A e \in Entity : Onward(life[e], Flushed.life[e])
         /\ \A e \in Entity, j \in DOMAIN commands : commands[j] = Spawn(e) => Flushed.life[e] # "pending"
         /\ \A e \in Entity, j, k \in DOMAIN commands :
              commands[k] = Despawn(e) /\ (life[e] = "pending" => j < k /\ commands[j] = Spawn(e)) =>
                Flushed.life[e] \notin {"pending", "alive"}
         /\ (\A k \in DOMAIN commands : commands[k].op # "despawn") =>
              \A e \in Entity : life[e] = "alive" => Flushed.life[e] = "alive"
<1>1. /\ Len(commands) \in Nat /\ DOMAIN commands = 1 .. Len(commands)
      /\ \A k \in 1 .. Len(commands) : commands[k] \in Command
  BY DEF SpawnerTypes
<1>2. PICK world : Flushed = world[Len(commands)] /\ Passes(world, Len(commands))
  <2> DEFINE world == CHOOSE g : Passes(g, Len(commands))
  <2>1. Flushed = world[Len(commands)]
    BY DEF Flushed, Passes
  <2>2. Passes(world, Len(commands))
    BY <1>1, PassesExist
  <2>. QED BY <2>1, <2>2
<1>3. PICK n \in Nat : n = Len(commands)
  BY <1>1
<1>4. /\ world[0] = [life |-> life, parent |-> parent, adopted |-> adopted]
      /\ \A m \in 1 .. n : world[m] = Apply(world[m - 1], commands[m])
  BY <1>2, <1>3 DEF Passes
<1>5. \A m \in 0 .. n : world[m] \in Worlds
  <2> DEFINE Bad == {m \in 0 .. n : world[m] \notin Worlds}
  <2>. SUFFICES ASSUME Bad # {} PROVE FALSE
    OBVIOUS
  <2>1. PICK m \in Bad : \A l \in Bad : m <= l
    <3>1. Bad \in SUBSET Nat
      OBVIOUS
    <3>. QED BY <3>1, LeastOf
  <2>2. m # 0
    BY <1>4 DEF Worlds, SpawnerTypes
  <2>3. m \in 1 .. n /\ m - 1 \in 0 .. n /\ m - 1 \notin Bad
    BY <2>1, <2>2
  <2>. QED BY <1>1, <1>3, <1>4, <2>3, ApplyFacts
<1>60. ASSUME NEW m \in 1 .. n
       PROVE  /\ world[m - 1] \in Worlds /\ world[m] \in Worlds /\ commands[m] \in Command
              /\ world[m] = Apply(world[m - 1], commands[m])
  <2>1. m - 1 \in 0 .. n /\ m \in 0 .. n
    OBVIOUS
  <2>. QED BY <1>1, <1>3, <1>4, <1>5, <2>1
<1>6. \A m \in 1 .. n, e \in Entity : Onward(world[m - 1].life[e], world[m].life[e])
  <2>. SUFFICES ASSUME NEW m \in 1 .. n PROVE \A e \in Entity : Onward(world[m - 1].life[e], world[m].life[e])
    OBVIOUS
  <2>. QED BY <1>60, ApplyFacts
<1>7. \A i, m \in 0 .. n, e \in Entity : i <= m => Onward(world[i].life[e], world[m].life[e])
  <2>. SUFFICES ASSUME NEW i \in 0 .. n, NEW e \in Entity
                PROVE  \A m \in 0 .. n : i <= m => Onward(world[i].life[e], world[m].life[e])
    OBVIOUS
  <2> DEFINE Bad == {m \in 0 .. n : i <= m /\ ~Onward(world[i].life[e], world[m].life[e])}
  <2>. SUFFICES ASSUME Bad # {} PROVE FALSE
    OBVIOUS
  <2>1. PICK m \in Bad : \A l \in Bad : m <= l
    <3>1. Bad \in SUBSET Nat
      OBVIOUS
    <3>. QED BY <3>1, LeastOf
  <2>2. world[m].life[e] \in {"free", "pending", "alive", "dead"}
    BY <1>5, <2>1 DEF Worlds
  <2>3. m # i
    BY <2>1, <2>2 DEF Onward
  <2>4. m \in 1 .. n /\ m - 1 \in 0 .. n /\ i <= m - 1 /\ m - 1 \notin Bad
    BY <2>1, <2>3
  <2>5. Onward(world[i].life[e], world[m - 1].life[e]) /\ Onward(world[m - 1].life[e], world[m].life[e])
    BY <1>6, <2>4
  <2>6. Onward(world[i].life[e], world[m].life[e])
    <3>1. world[i].life[e] \in {"free", "pending", "alive", "dead"}
      BY <1>5 DEF Worlds
    <3>. QED BY <2>2, <2>5, <3>1 DEF Onward
  <2>. QED BY <2>1, <2>6
<1>8. ASSUME NEW e \in Entity, NEW j \in 1 .. n, commands[j] = Spawn(e)
      PROVE  \A m \in j .. n : world[m].life[e] # "pending"
  <2>1. j - 1 \in 0 .. n /\ j \in 0 .. n
    OBVIOUS
  <2>2. world[j].life[e] # "pending" /\ world[j].life[e] \in {"free", "pending", "alive", "dead"}
    BY <1>8, <1>60, ApplyFacts DEF Worlds
  <2>3. \A m \in j .. n : m \in 0 .. n /\ j <= m
    OBVIOUS
  <2>. QED BY <1>7, <2>1, <2>2, <2>3 DEF Onward
<1>9. ASSUME NEW e \in Entity, NEW k \in 1 .. n, commands[k] = Despawn(e), world[k - 1].life[e] # "pending"
      PROVE  world[n].life[e] \notin {"pending", "alive"}
  <2>1. k - 1 \in 0 .. n /\ k \in 0 .. n /\ n \in 0 .. n /\ k <= n
    OBVIOUS
  <2>2. world[k].life[e] \notin {"pending", "alive"} /\ world[k].life[e] \in {"free", "pending", "alive", "dead"}
    BY <1>9, <1>60, ApplyFacts DEF Worlds
  <2>. QED BY <1>7, <2>1, <2>2 DEF Onward
<1>10. \A e \in Entity, j, k \in DOMAIN commands :
         commands[k] = Despawn(e) /\ (life[e] = "pending" => j < k /\ commands[j] = Spawn(e)) =>
           Flushed.life[e] \notin {"pending", "alive"}
  <2>. SUFFICES ASSUME NEW e \in Entity, NEW j \in 1 .. n, NEW k \in 1 .. n, commands[k] = Despawn(e),
                       life[e] = "pending" => j < k /\ commands[j] = Spawn(e)
                PROVE  world[n].life[e] \notin {"pending", "alive"}
    BY <1>1, <1>2, <1>3
  <2>1. CASE life[e] = "pending"
    <3>1. k - 1 \in j .. n
      BY <2>1
    <3>. QED BY <1>8, <1>9, <2>1, <3>1
  <2>2. CASE life[e] # "pending"
    <3>1. k - 1 \in 0 .. n /\ 0 \in 0 .. n /\ 0 <= k - 1
      OBVIOUS
    <3>2. world[0].life[e] = life[e] /\ life[e] \in {"free", "pending", "alive", "dead"}
      BY <1>4 DEF SpawnerTypes
    <3>3. world[k - 1].life[e] # "pending"
      BY <1>7, <2>2, <3>1, <3>2 DEF Onward
    <3>. QED BY <1>9, <3>3
  <2>. QED BY <2>1, <2>2
<1>11. ASSUME \A k \in DOMAIN commands : commands[k].op # "despawn", NEW e \in Entity, life[e] = "alive"
       PROVE  Flushed.life[e] = "alive"
  <2> DEFINE Bad == {m \in 0 .. n : world[m].life[e] # "alive"}
  <2>1. Bad = {}
    <3>. SUFFICES ASSUME Bad # {} PROVE FALSE
      OBVIOUS
    <3>1. PICK m \in Bad : \A l \in Bad : m <= l
      <4>1. Bad \in SUBSET Nat
        OBVIOUS
      <4>. QED BY <4>1, LeastOf
    <3>2. m # 0
      BY <1>4, <1>11, <3>1
    <3>3. m \in 1 .. n /\ m - 1 \in 0 .. n /\ m - 1 \notin Bad
      BY <3>1, <3>2
    <3>4. world[m].life[e] = "alive"
      <4>1. commands[m].op # "despawn" /\ world[m - 1].life[e] = "alive"
        BY <1>1, <1>3, <1>11, <3>3
      <4>. QED BY <1>60, <3>3, <4>1, ApplyFacts
    <3>. QED BY <3>1, <3>4
  <2>2. n \in 0 .. n
    OBVIOUS
  <2>. QED BY <1>2, <1>3, <2>1, <2>2
<1>12. n \in 0 .. n /\ 0 \in 0 .. n /\ 0 <= n /\ \A j \in 1 .. n : n \in j .. n
  OBVIOUS
<1>13. Flushed = world[n] /\ world[0].life = life
  BY <1>2, <1>3, <1>4
<1>14. \A e \in Entity : Onward(life[e], Flushed.life[e])
  BY <1>7, <1>12, <1>13
<1>15. \A e \in Entity, j \in DOMAIN commands : commands[j] = Spawn(e) => Flushed.life[e] # "pending"
  BY <1>1, <1>3, <1>8, <1>12, <1>13
<1>. QED BY <1>5, <1>10, <1>11, <1>12, <1>13, <1>14, <1>15

-----------------------------------------------------------------------------
\* A function on 1 .. n is a list.
LEMMA ListIn ==
  ASSUME NEW T, NEW n \in Nat, NEW s \in [1 .. n -> T]
  PROVE  s \in Seq(T) /\ Len(s) = n /\ DOMAIN s = 1 .. n
OBVIOUS

\* What the queues hold.
LEMMA Typed ==
  ASSUME SpawnerTypes
  PROVE  /\ Len(commands) \in Nat /\ DOMAIN commands = 1 .. Len(commands)
         /\ \A k \in DOMAIN commands : commands[k] \in Command /\ commands[k].entity \in Entity
         /\ Len(pending) \in Nat /\ DOMAIN pending = 1 .. Len(pending)
         /\ \A k \in DOMAIN pending : pending[k] \in Root /\ pending[k] \in Entity
         /\ Len(lingers) \in Nat /\ DOMAIN lingers = 1 .. Len(lingers)
         /\ \A k \in DOMAIN lingers : /\ lingers[k] \in [ref : Entity, due : Nat]
                                       /\ lingers[k].ref \in Entity /\ lingers[k].due \in Nat
         /\ Len(queued_reaps) \in Nat /\ DOMAIN queued_reaps = 1 .. Len(queued_reaps)
         /\ \A k \in DOMAIN queued_reaps : queued_reaps[k].ref \in Entity /\ queued_reaps[k].subtree \in Seq(Entity)
         /\ Never \in Nat /\ Never > tick /\ Never > last_prepared /\ tick \in Nat /\ last_prepared \in Nat
         /\ \A e \in Entity : promised[e] \in Nat
<1>1. /\ commands \in Seq(Command) /\ pending \in Seq(Root) /\ queued_reaps \in Seq(Reap)
      /\ lingers \in Seq([ref : Entity, due : Nat]) /\ promised \in [Entity -> 0 .. Never]
      /\ tick \in 0 .. MaxTick /\ last_prepared \in 0 .. tick
  BY DEF SpawnerTypes
<1>2. Root \subseteq Entity /\ Child \subseteq Entity
  BY DEF Entity
<1>3. \A c \in Command : c.entity \in Entity
  BY <1>2 DEF Command
<1>4. Never \in Nat /\ Never > tick /\ Never > last_prepared /\ tick \in Nat /\ last_prepared \in Nat
  BY <1>1, SpawnerBoundsAssumption DEF Never
<1>5. /\ Len(commands) \in Nat /\ DOMAIN commands = 1 .. Len(commands)
      /\ \A k \in DOMAIN commands : commands[k] \in Command /\ commands[k].entity \in Entity
  BY <1>1, <1>3
<1>6. /\ Len(pending) \in Nat /\ DOMAIN pending = 1 .. Len(pending)
      /\ \A k \in DOMAIN pending : pending[k] \in Root /\ pending[k] \in Entity
  BY <1>1, <1>2
<1>7. /\ Len(lingers) \in Nat /\ DOMAIN lingers = 1 .. Len(lingers)
      /\ \A k \in DOMAIN lingers : /\ lingers[k] \in [ref : Entity, due : Nat]
                                    /\ lingers[k].ref \in Entity /\ lingers[k].due \in Nat
  <2> DEFINE Entry == [ref : Entity, due : Nat]
  <2>1. lingers \in Seq(Entry)
    BY <1>1
  <2>. HIDE DEF Entry
  <2>2. Len(lingers) \in Nat /\ DOMAIN lingers = 1 .. Len(lingers) /\ \A k \in DOMAIN lingers : lingers[k] \in Entry
    BY <2>1
  <2>3. \A x \in Entry : x \in [ref : Entity, due : Nat] /\ x.ref \in Entity /\ x.due \in Nat
    BY DEF Entry
  <2>. QED BY <2>2, <2>3
<1>8. /\ Len(queued_reaps) \in Nat /\ DOMAIN queued_reaps = 1 .. Len(queued_reaps)
      /\ \A k \in DOMAIN queued_reaps : queued_reaps[k].ref \in Entity /\ queued_reaps[k].subtree \in Seq(Entity)
  <2>1. Len(queued_reaps) \in Nat /\ DOMAIN queued_reaps = 1 .. Len(queued_reaps)
        /\ \A k \in DOMAIN queued_reaps : queued_reaps[k] \in Reap
    BY <1>1
  <2>2. \A x \in Reap : x.ref \in Entity /\ x.subtree \in Seq(Entity)
    BY DEF Reap
  <2>. QED BY <2>1, <2>2
<1>9. \A e \in Entity : promised[e] \in Nat
  BY <1>1, <1>4
<1>. QED BY <1>4, <1>5, <1>6, <1>7, <1>8, <1>9

-----------------------------------------------------------------------------
\* The stack.
LEMMA Stages ==
  /\ \A do : Stage(do) \in 0 .. 7
  /\ Stage("hook") = 0 /\ Stage("despawned_listener") = 0
  /\ Stage("due") = 1 /\ Stage("exit_machine") = 1 /\ Stage("exit_seat") = 1 /\ Stage("remove") = 1
  /\ Stage("flush") = 2 /\ Stage("realize") = 3 /\ Stage("bury") = 4 /\ Stage("drain") = 5
  /\ Stage("build") = 6 /\ Stage("enter") = 6 /\ Stage("announce") = 6
  /\ Stage("settle") = 7 /\ Stage("scene_stands") = 7
BY DEF Stage

Behind(do, e) == \E k \in 2 .. Len(todo) : todo[k].do = do /\ todo[k].who = e
AwaitsBehind(do) == \E k \in 2 .. Len(todo) : todo[k].do = do

\* What is on top and what waits behind it.
LEMMA TopFacts ==
  ASSUME SpawnerTypes, StackRight, todo # <<>>
  PROVE  /\ Len(todo) \in Nat \ {0} /\ 1 \in DOMAIN todo /\ DOMAIN todo = 1 .. Len(todo)
         /\ Top = todo[1] /\ Top \in FrameType
         /\ \A do, e : Waiting(do, e) <=> (Top.do = do /\ Top.who = e) \/ Behind(do, e)
         /\ \A do : Awaits(do) <=> Top.do = do \/ AwaitsBehind(do)
         /\ \A do, e : Behind(do, e) => AwaitsBehind(do)
         /\ \A k \in 2 .. Len(todo) : Fits(Top, todo[k])
         /\ \A do : AwaitsBehind(do) =>
              Stage(Top.do) <= Stage(do) /\ (Stage(Top.do) = Stage(do) => Stage(do) \in {1, 4, 6})
<1>1. /\ Len(todo) \in Nat \ {0} /\ 1 \in DOMAIN todo /\ DOMAIN todo = 1 .. Len(todo)
      /\ Top = todo[1] /\ Top \in FrameType
  BY DEF SpawnerTypes, Top
<1>2. \A k \in DOMAIN todo : k = 1 \/ k \in 2 .. Len(todo)
  BY <1>1
<1>3. \A do, e : Waiting(do, e) <=> (Top.do = do /\ Top.who = e) \/ Behind(do, e)
  BY <1>1, <1>2 DEF Waiting, Behind
<1>4. \A do : Awaits(do) <=> Top.do = do \/ AwaitsBehind(do)
  BY <1>1, <1>2 DEF Awaits, AwaitsBehind
<1>5. \A k \in 2 .. Len(todo) : Fits(Top, todo[k])
  BY <1>1 DEF StackRight, InOrder
<1>6. \A do, e : Behind(do, e) => AwaitsBehind(do)
  BY DEF Behind, AwaitsBehind
<1>7. \A do : AwaitsBehind(do) =>
              Stage(Top.do) <= Stage(do) /\ (Stage(Top.do) = Stage(do) => Stage(do) \in {1, 4, 6})
  BY <1>5 DEF AwaitsBehind, Fits
<1>. QED BY <1>1, <1>3, <1>4, <1>5, <1>6, <1>7

\* The top frame is replaced by those of `new`; t is what was behind it.
Replaced(new, t) ==
  /\ todo # <<>> /\ new \in Seq(FrameType) /\ t \in Seq(FrameType)
  /\ Len(t) = Len(todo) - 1
  /\ \A k \in 1 .. Len(t) : t[k].do = todo[k + 1].do /\ t[k].who = todo[k + 1].who
  /\ todo' = new \o t

\* The top frame is replaced, and what was behind it stays as it was.
LEMMA TailRest ==
  ASSUME SpawnerTypes, todo # <<>>, NEW new \in Seq(FrameType), todo' = new \o Tail(todo)
  PROVE  Replaced(new, Tail(todo))
BY DEF Replaced, SpawnerTypes

\* The top frame is dropped.
LEMMA TailOnly ==
  ASSUME SpawnerTypes, todo # <<>>, todo' = Tail(todo)
  PROVE  Replaced(<<>>, Tail(todo))
<1>1. <<>> \in Seq(FrameType) /\ <<>> \o Tail(todo) = Tail(todo)
  BY DEF SpawnerTypes
<1>. QED BY <1>1, TailRest

\* Where the frames are after that.
LEMMA ReplacedFacts ==
  ASSUME SpawnerTypes, NEW new, NEW t, Replaced(new, t)
  PROVE  /\ todo' \in Seq(FrameType) /\ Len(new) \in Nat /\ DOMAIN new = 1 .. Len(new)
         /\ \A k \in DOMAIN todo' :
              \/ k \in DOMAIN new /\ todo'[k] = new[k]
              \/ /\ k > Len(new) /\ k - Len(new) + 1 \in 2 .. Len(todo)
                 /\ todo'[k].do = todo[k - Len(new) + 1].do /\ todo'[k].who = todo[k - Len(new) + 1].who
         /\ \A k \in DOMAIN new : k \in DOMAIN todo' /\ todo'[k] = new[k]
         /\ \A k \in 2 .. Len(todo) : /\ k - 1 + Len(new) \in DOMAIN todo'
                                      /\ todo'[k - 1 + Len(new)].do = todo[k].do
                                      /\ todo'[k - 1 + Len(new)].who = todo[k].who
         /\ \A do, e : Waiting(do, e)' <=> (\E k \in DOMAIN new : new[k].do = do /\ new[k].who = e) \/ Behind(do, e)
         /\ \A do : Awaits(do)' <=> (\E k \in DOMAIN new : new[k].do = do) \/ AwaitsBehind(do)
<1>1. /\ todo' \in Seq(FrameType) /\ Len(new) \in Nat /\ DOMAIN new = 1 .. Len(new)
      /\ Len(t) \in Nat /\ Len(todo) = Len(t) + 1 /\ Len(todo') = Len(new) + Len(t)
      /\ DOMAIN todo' = 1 .. Len(new) + Len(t)
      /\ \A k \in 1 .. Len(new) : todo'[k] = new[k]
      /\ \A k \in 1 .. Len(t) : todo'[Len(new) + k] = t[k]
  <2>1. /\ new \in Seq(FrameType) /\ t \in Seq(FrameType) /\ todo' = new \o t
        /\ Len(new) \in Nat /\ Len(t) \in Nat /\ Len(todo) \in Nat /\ Len(t) = Len(todo) - 1
    BY DEF Replaced, SpawnerTypes
  <2>2. Len(todo) = Len(t) + 1
    BY <2>1
  <2>3. new \o t \in Seq(FrameType) /\ Len(new \o t) = Len(new) + Len(t) 
    BY <2>1, ConcatProperties
  <2>5. DOMAIN (new \o t) = 1 .. Len(new) + Len(t)
    BY <2>3
  <2>4. /\ \A k \in 1 .. Len(new) : (new \o t)[k] = new[k]
        /\ \A k \in 1 .. Len(t) : (new \o t)[Len(new) + k] = t[k]
    BY <2>1
  <2>. QED BY <2>1, <2>2, <2>3, <2>4, <2>5
<1>2. \A k \in 1 .. Len(t) : k + 1 \in 2 .. Len(todo) /\ t[k].do = todo[k + 1].do /\ t[k].who = todo[k + 1].who
  BY <1>1 DEF Replaced
<1>3. ASSUME NEW k \in DOMAIN todo'
      PROVE  \/ k \in DOMAIN new /\ todo'[k] = new[k]
             \/ /\ k > Len(new) /\ k - Len(new) + 1 \in 2 .. Len(todo)
                /\ todo'[k].do = todo[k - Len(new) + 1].do /\ todo'[k].who = todo[k - Len(new) + 1].who
  <2>1. CASE k <= Len(new)
    <3>1. k \in 1 .. Len(new)
      BY <1>1, <2>1
    <3>. QED BY <1>1, <3>1
  <2>2. CASE k > Len(new)
    <3>1. PICK l \in 1 .. Len(t) : l = k - Len(new)
      BY <1>1, <2>2
    <3>2. k = Len(new) + l /\ l + 1 = k - Len(new) + 1
      BY <1>1, <3>1
    <3>. QED BY <1>1, <1>2, <2>2, <3>1, <3>2
  <2>. QED BY <1>1, <2>1, <2>2
<1>4. ASSUME NEW k \in 2 .. Len(todo)
      PROVE  /\ k - 1 + Len(new) \in DOMAIN todo'
             /\ todo'[k - 1 + Len(new)].do = todo[k].do /\ todo'[k - 1 + Len(new)].who = todo[k].who
  <2>1. PICK l \in 1 .. Len(t) : l = k - 1
    BY <1>1
  <2>2. k - 1 + Len(new) = Len(new) + l /\ l + 1 = k
    BY <1>1, <2>1
  <2>3. Len(new) + l \in DOMAIN todo' /\ todo'[Len(new) + l] = t[l]
    BY <1>1
  <2>. QED BY <1>2, <2>1, <2>2, <2>3
<1>5. \A k \in DOMAIN new : k \in DOMAIN todo' /\ todo'[k] = new[k]
  BY <1>1
<1>6. \A do, e : Waiting(do, e)' <=> (\E k \in DOMAIN new : new[k].do = do /\ new[k].who = e) \/ Behind(do, e)
  BY <1>3, <1>4, <1>5, SMTT(60) DEF Waiting, Behind
<1>7. \A do : Awaits(do)' <=> (\E k \in DOMAIN new : new[k].do = do) \/ AwaitsBehind(do)
  BY <1>3, <1>4, <1>5, SMTT(60) DEF Awaits, AwaitsBehind
<1>. QED BY <1>1, <1>3, <1>4, <1>5, <1>6, <1>7

\* The stack stays in order when the new frames are of no later stage than
\* the frame they replace.
LEMMA ReplacedStack ==
  ASSUME SpawnerTypes, StackRight, NEW new, NEW t, Replaced(new, t),
         \A i, j \in DOMAIN new : i < j => Fits(new[i], new[j]),
         \A i \in DOMAIN new : /\ Stage(new[i].do) <= Stage(Top.do) /\ new[i].do # "build"
                               /\ Stage(new[i].do) \in {1, 2} => Stage(Top.do) = 1
                               /\ FrameRight(new[i])',
         last_prepared' = last_prepared,
         \A e \in Entity : /\ promised[e] \in Nat /\ promised'[e] \in Nat /\ promised'[e] <= promised[e]
                           /\ life[e] # "free" => life'[e] # "free"
  PROVE  StackRight'
<1>1. todo # <<>>
  BY DEF Replaced
<1>2. /\ 1 \in DOMAIN todo /\ DOMAIN todo = 1 .. Len(todo) /\ Top = todo[1] /\ Len(todo) \in Nat
      /\ \A k \in 2 .. Len(todo) : Fits(Top, todo[k])
  BY <1>1, TopFacts
<1>3. /\ Len(new) \in Nat /\ DOMAIN new = 1 .. Len(new) /\ todo' \in Seq(FrameType)
      /\ \A k \in DOMAIN todo' :
           \/ k \in DOMAIN new /\ todo'[k] = new[k]
           \/ /\ k > Len(new) /\ k - Len(new) + 1 \in 2 .. Len(todo)
              /\ todo'[k].do = todo[k - Len(new) + 1].do /\ todo'[k].who = todo[k - Len(new) + 1].who
  BY ReplacedFacts
<1>4. ASSUME NEW f, NEW g, NEW h, Fits(f, g), h.do = g.do, h.who = g.who PROVE Fits(f, h)
  BY <1>4 DEF Fits
<1>5. ASSUME NEW f, NEW g, NEW h, Fits(g, f), h.do = g.do, h.who = g.who PROVE Fits(h, f)
  BY <1>5 DEF Fits
<1>6. ASSUME NEW i \in DOMAIN new, NEW k \in 2 .. Len(todo) PROVE Fits(new[i], todo[k])
  <2>1. \A do : Stage(do) \in 0 .. 7
    BY Stages
  <2>. QED BY <1>2, <2>1 DEF Fits
<1>7. ASSUME NEW i \in DOMAIN todo', NEW j \in DOMAIN todo', i < j PROVE Fits(todo'[i], todo'[j])
  <2>0. i \in Nat /\ j \in Nat
    BY <1>3
  <2>1. CASE i \in DOMAIN new /\ todo'[i] = new[i]
    <3>1. CASE j \in DOMAIN new /\ todo'[j] = new[j]
      BY <1>7, <2>1, <3>1
    <3>2. CASE /\ j > Len(new) /\ j - Len(new) + 1 \in 2 .. Len(todo)
               /\ todo'[j].do = todo[j - Len(new) + 1].do /\ todo'[j].who = todo[j - Len(new) + 1].who
      <4>1. Fits(new[i], todo[j - Len(new) + 1])
        BY <1>6, <2>1, <3>2
      <4>. QED BY <1>4, <2>1, <3>2, <4>1
    <3>. QED BY <1>3, <3>1, <3>2
  <2>2. CASE /\ i > Len(new) /\ i - Len(new) + 1 \in 2 .. Len(todo)
             /\ todo'[i].do = todo[i - Len(new) + 1].do /\ todo'[i].who = todo[i - Len(new) + 1].who
    <3>1. j \notin DOMAIN new
      BY <1>3, <1>7, <2>0, <2>2
    <3>2. /\ j > Len(new) /\ j - Len(new) + 1 \in 2 .. Len(todo)
          /\ todo'[j].do = todo[j - Len(new) + 1].do /\ todo'[j].who = todo[j - Len(new) + 1].who
      BY <1>3, <3>1
    <3>3. PICK a \in DOMAIN todo, b \in DOMAIN todo : a = i - Len(new) + 1 /\ b = j - Len(new) + 1 /\ a < b
      BY <1>2, <1>3, <1>7, <2>0, <2>2, <3>2
    <3>4. Fits(todo[a], todo[b])
      BY <3>3 DEF StackRight, InOrder
    <3>5. Fits(todo[a], todo'[j])
      BY <1>4, <3>2, <3>3, <3>4
    <3>. QED BY <1>5, <2>2, <3>3, <3>5
  <2>. QED BY <1>3, <2>1, <2>2
<1>8. ASSUME NEW k \in DOMAIN todo' PROVE FrameRight(todo[k])'
  <2>1. CASE k \in DOMAIN new /\ todo'[k] = new[k]
    <3>1. PICK f : f = new[k]
      OBVIOUS
    <3>2. FrameRight(f)' /\ f = todo'[k]
      BY <2>1, <3>1 DEF FrameRight
    <3>. QED BY <3>2 DEF FrameRight
  <2>2. CASE /\ k > Len(new) /\ k - Len(new) + 1 \in 2 .. Len(todo)
             /\ todo'[k].do = todo[k - Len(new) + 1].do /\ todo'[k].who = todo[k - Len(new) + 1].who
    <3>1. PICK a \in DOMAIN todo : a = k - Len(new) + 1
      BY <1>2, <2>2
    <3>2. FrameRight(todo[a])
      BY DEF StackRight
    <3>3. PICK f : f = todo[a]
      OBVIOUS
    <3>4. todo'[k].do = f.do /\ todo'[k].who = f.who /\ FrameRight(f)
      BY <2>2, <3>1, <3>2, <3>3
    <3>5. Root \subseteq Entity /\ last_prepared \in Nat
      BY DEF Entity, SpawnerTypes
    <3>6. f.do \in {"due", "exit_machine", "exit_seat", "remove", "bury"} => f.who \in Entity
      BY <3>4 DEF FrameRight
    <3>7. f.do \in {"build", "enter"} => f.who \in Root
      BY <3>4 DEF FrameRight
    <3>8. f.do \in {"due", "remove"} => promised'[f.who] <= last_prepared'
      <4>. SUFFICES ASSUME f.do \in {"due", "remove"} PROVE promised'[f.who] <= last_prepared
        OBVIOUS
      <4>1. PICK x \in Entity : x = f.who
        BY <3>6
      <4>2. promised[x] <= last_prepared
        BY <3>4, <4>1 DEF FrameRight
      <4>3. promised[x] \in Nat /\ promised'[x] \in Nat /\ promised'[x] <= promised[x]
        OBVIOUS
      <4>. QED BY <3>5, <4>1, <4>2, <4>3
    <3>9. f.do \in {"due", "build"} => life'[f.who] # "free"
      BY <3>4, <3>5, <3>6, <3>7 DEF FrameRight
    <3>. QED BY <3>4, <3>6, <3>7, <3>8, <3>9 DEF FrameRight
  <2>. QED BY <1>3, <2>1, <2>2
<1>9. ASSUME NEW k \in DOMAIN todo', Stage(todo'[k].do) \in {1, 2} PROVE Awaits("flush")' /\ Awaits("realize")'
  <2>1. AwaitsBehind("flush") /\ AwaitsBehind("realize")
    <3>1. \E a \in DOMAIN todo : Stage(todo[a].do) \in {1, 2} /\ Stage(Top.do) \in {0, 1}
      <4>1. CASE k \in DOMAIN new /\ todo'[k] = new[k]
        BY <1>2, <1>9, <4>1
      <4>2. CASE /\ k > Len(new) /\ k - Len(new) + 1 \in 2 .. Len(todo)
                 /\ todo'[k].do = todo[k - Len(new) + 1].do
        <5>1. PICK a \in 2 .. Len(todo) : a = k - Len(new) + 1
          BY <4>2
        <5>2. Fits(Top, todo[a]) /\ Stage(todo[a].do) \in {1, 2} /\ a \in DOMAIN todo
          BY <1>2, <1>9, <4>2, <5>1
        <5>3. Stage(Top.do) \in 0 .. 7
          BY Stages
        <5>4. /\ Stage(Top.do) <= Stage(todo[a].do)
              /\ Stage(Top.do) = Stage(todo[a].do) => Stage(Top.do) \in {1, 4, 6}
          BY <5>2 DEF Fits
        <5>5. Stage(Top.do) \in {0, 1}
          BY <5>2, <5>3, <5>4
        <5>. QED BY <5>2, <5>5
      <4>. QED BY <1>3, <4>1, <4>2
    <3>2. \A do : Awaits(do) <=> Top.do = do \/ AwaitsBehind(do)
      BY <1>1, TopFacts
    <3>3. Awaits("flush") /\ Awaits("realize")
      BY <3>1 DEF StackRight, FlushAhead
    <3>4. ASSUME NEW do, do = Top.do PROVE do # "flush" /\ do # "realize"
      <4>1. Stage(do) \in {0, 1}
        BY <3>1, <3>4
      <4>2. Stage("flush") # Stage(do) /\ Stage("realize") # Stage(do)
        <5>1. Stage("flush") = 2 /\ Stage("realize") = 3
          BY Stages
        <5>. QED BY <4>1, <5>1
      <4>. QED BY <4>2, Zenon
    <3>. QED BY <3>2, <3>3, <3>4
  <2>. QED BY <2>1, ReplacedFacts
<1>10. InOrder'
  BY <1>7 DEF InOrder, Fits
<1>11. FlushAhead'
  BY <1>9 DEF FlushAhead, Stage
<1>12. (\A k \in DOMAIN todo : FrameRight(todo[k]))'
  BY <1>8
<1>. QED BY <1>10, <1>11, <1>12 DEF StackRight

\* What cannot wait behind a frame of a later stage.
LEMMA Beneath ==
  ASSUME SpawnerTypes, StackRight, todo # <<>>
  PROVE  /\ Top.do = "flush" => \A do \in {"hook", "due", "remove", "flush"} : ~AwaitsBehind(do)
         /\ Top.do = "realize" => \A do \in {"hook", "due", "remove", "flush", "realize"} : ~AwaitsBehind(do)
         /\ Top.do \in {"bury", "drain"} => \A do \in {"hook", "flush", "realize"} : ~AwaitsBehind(do)
         /\ Top.do = "drain" => ~AwaitsBehind("drain")
         /\ Top.do \in {"build", "enter", "announce", "settle", "scene_stands"} =>
              \A do \in {"hook", "flush", "realize", "drain"} : ~AwaitsBehind(do)
         /\ Top.do \in {"settle", "scene_stands"} =>
              \A do \in {"build", "enter", "announce", "settle", "scene_stands"} : ~AwaitsBehind(do)
<1>1. \A do : AwaitsBehind(do) =>
        Stage(Top.do) <= Stage(do) /\ (Stage(Top.do) = Stage(do) => Stage(do) \in {1, 4, 6})
  BY TopFacts
<1>2. ASSUME Top.do = "flush"
      PROVE  \A do \in {"hook", "due", "remove", "flush"} : ~AwaitsBehind(do)
  BY <1>1, <1>2 DEF Stage
<1>3. ASSUME Top.do = "realize"
      PROVE  \A do \in {"hook", "due", "remove", "flush", "realize"} : ~AwaitsBehind(do)
  BY <1>1, <1>3 DEF Stage
<1>4. ASSUME Top.do = "drain"
      PROVE  \A do \in {"hook", "flush", "realize", "drain"} : ~AwaitsBehind(do)
  BY <1>1, <1>4 DEF Stage
<1>5. ASSUME Top.do = "bury"
      PROVE  \A do \in {"hook", "flush", "realize"} : ~AwaitsBehind(do)
  BY <1>1, <1>5 DEF Stage
<1>6. ASSUME NEW top \in {"build", "enter", "announce", "settle", "scene_stands"}, Top.do = top
      PROVE  \A do \in {"hook", "flush", "realize", "drain"} : ~AwaitsBehind(do)
  <2>1. Stage(Top.do) \in {6, 7}
    BY <1>6 DEF Stage
  <2>2. \A do \in {"hook", "flush", "realize", "drain"} : Stage(do) \in {0, 2, 3, 5}
    BY DEF Stage
  <2>. QED BY <1>1, <2>1, <2>2
<1>7. ASSUME NEW top \in {"settle", "scene_stands"}, Top.do = top
      PROVE  \A do \in {"build", "enter", "announce", "settle", "scene_stands"} : ~AwaitsBehind(do)
  <2>1. Stage(Top.do) = 7
    BY <1>7 DEF Stage
  <2>2. \A do \in {"build", "enter", "announce", "settle", "scene_stands"} : Stage(do) \in {6, 7}
    BY DEF Stage
  <2>. QED BY <1>1, <2>1, <2>2
<1>. QED BY <1>2, <1>3, <1>4, <1>5, <1>6, <1>7

\* A step that replaces the top frame and leaves the world, the queues and
\* the promises alone.
Quiet(new) ==
  /\ UNCHANGED <<clockVars, worldVars, queueVars, promised>>
  /\ seat' \in [Entity -> {"none", "seated", "exited", "released"}]
  /\ machine' \in [Root -> {"none", "seated", "live", "exited"}]
  /\ Top.do \notin {"flush", "realize", "drain", "scene_stands"}
  /\ \A i, j \in DOMAIN new : i < j => Fits(new[i], new[j])
  /\ \A i \in DOMAIN new :
       /\ \/ new[i].do \in {"hook", "despawned_listener"}
          \/ /\ new[i].do \in {"exit_machine", "exit_seat", "remove"} /\ new[i].who \in Entity
             /\ Stage(Top.do) = 1
             /\ new[i].do = "remove" => promised[new[i].who] <= last_prepared
       /\ phase = "boot" => new[i].do = "hook"
  /\ Top.do \in {"due", "remove"} =>
       ~Live(Top.who) \/ \E i \in DOMAIN new : new[i].do = "remove" /\ new[i].who = Top.who

\* What waits before a quiet step still waits after it, but for what was on top.
LEMMA QuietWaits ==
  ASSUME SpawnerInv, NEW new, NEW t, Replaced(new, t), Quiet(new)
  PROVE  /\ \A do \in {"flush", "realize", "drain", "scene_stands"} : Awaits(do)' <=> Awaits(do)
         /\ \A e : Waiting("build", e)' => Waiting("build", e)
         /\ Awaits("build")' => Awaits("build")
         /\ \A e : Live(e) /\ (Waiting("due", e) \/ Waiting("remove", e)) => Waiting("due", e)' \/ Waiting("remove", e)'
         /\ phase = "boot" /\ SceneEnters => SceneEnters'
<1>1. todo # <<>>
  BY DEF Replaced
<1>2. /\ \A do, e : Waiting(do, e) <=> (Top.do = do /\ Top.who = e) \/ Behind(do, e)
      /\ \A do : Awaits(do) <=> Top.do = do \/ AwaitsBehind(do)
      /\ DOMAIN todo = 1 .. Len(todo)
  BY <1>1, TopFacts DEF SpawnerInv
<1>3. /\ \A do, e : Waiting(do, e)' <=> (\E k \in DOMAIN new : new[k].do = do /\ new[k].who = e) \/ Behind(do, e)
      /\ \A do : Awaits(do)' <=> (\E k \in DOMAIN new : new[k].do = do) \/ AwaitsBehind(do)
      /\ \A k \in DOMAIN todo' :
           \/ k \in DOMAIN new /\ todo'[k] = new[k]
           \/ /\ k > Len(new) /\ k - Len(new) + 1 \in 2 .. Len(todo)
              /\ todo'[k].do = todo[k - Len(new) + 1].do /\ todo'[k].who = todo[k - Len(new) + 1].who
  BY ReplacedFacts DEF SpawnerInv
<1>4. /\ Top.do \notin {"flush", "realize", "drain", "scene_stands"}
      /\ \A i \in DOMAIN new : /\ new[i].do \in {"hook", "despawned_listener", "exit_machine", "exit_seat", "remove"}
                               /\ phase = "boot" => new[i].do = "hook"
      /\ Top.do \in {"due", "remove"} =>
           ~Live(Top.who) \/ \E i \in DOMAIN new : new[i].do = "remove" /\ new[i].who = Top.who
  BY DEF Quiet
<1>5. \A do \in {"flush", "realize", "drain", "scene_stands"} : Awaits(do)' <=> Awaits(do)
  BY <1>2, <1>3, <1>4
<1>6. /\ \A e : Waiting("build", e)' => Waiting("build", e)
      /\ Awaits("build")' => Awaits("build")
  BY <1>2, <1>3, <1>4
<1>7. \A e : Live(e) /\ (Waiting("due", e) \/ Waiting("remove", e)) => Waiting("due", e)' \/ Waiting("remove", e)'
  <2>. SUFFICES ASSUME NEW e, Live(e), Waiting("due", e) \/ Waiting("remove", e)
                PROVE  Waiting("due", e)' \/ Waiting("remove", e)'
    OBVIOUS
  <2>1. CASE Behind("due", e) \/ Behind("remove", e)
    BY <1>3, <2>1
  <2>2. CASE Top.do \in {"due", "remove"} /\ Top.who = e
    BY <1>3, <1>4, <2>2
  <2>. QED BY <1>2, <2>1, <2>2
<1>8. ASSUME phase = "boot", SceneEnters PROVE SceneEnters'
  <2>. SUFFICES ASSUME NEW k \in DOMAIN todo' PROVE todo'[k].do \in {"hook", "enter", "scene_stands"}
    BY DEF SceneEnters
  <2>1. CASE k \in DOMAIN new /\ todo'[k] = new[k]
    BY <1>4, <1>8, <2>1
  <2>2. CASE k - Len(new) + 1 \in 2 .. Len(todo) /\ todo'[k].do = todo[k - Len(new) + 1].do
    <3>1. PICK a \in DOMAIN todo : todo'[k].do = todo[a].do
      <4>1. PICK a \in 2 .. Len(todo) : a = k - Len(new) + 1
        BY <2>2
      <4>. QED BY <1>2, <2>2, <4>1
    <3>. QED BY <1>8, <3>1 DEF SceneEnters
  <2>. QED BY <1>3, <2>1, <2>2
<1>. QED BY <1>5, <1>6, <1>7, <1>8

\* A quiet step keeps the invariant.
LEMMA QuietStep ==
  ASSUME SpawnerInv, NEW new, NEW t, Replaced(new, t), Quiet(new)
  PROVE  SpawnerInv'
<1>1. /\ \A do \in {"flush", "realize", "drain", "scene_stands"} : Awaits(do)' <=> Awaits(do)
      /\ \A e : Waiting("build", e)' => Waiting("build", e)
      /\ \A e : Live(e) /\ (Waiting("due", e) \/ Waiting("remove", e)) => Waiting("due", e)' \/ Waiting("remove", e)'
      /\ phase = "boot" /\ SceneEnters => SceneEnters'
  BY QuietWaits
<1>2. /\ tick' = tick /\ phase' = phase /\ poisoned' = poisoned /\ life' = life /\ parent' = parent /\ adopted' = adopted
      /\ commands' = commands /\ pending' = pending /\ lingers' = lingers /\ last_prepared' = last_prepared
      /\ queued_reaps' = queued_reaps /\ promised' = promised
  BY DEF Quiet, clockVars, worldVars, queueVars
<1>3. SpawnerTypes'
  <2>1. todo' \in Seq(FrameType)
    BY ReplacedFacts DEF SpawnerInv
  <2>. QED BY <1>2, <2>1 DEF SpawnerInv, SpawnerTypes, Quiet
<1>4. StackRight'
  <2>1. \A i \in DOMAIN new : /\ Stage(new[i].do) <= Stage(Top.do) /\ new[i].do # "build"
                              /\ Stage(new[i].do) \in {1, 2} => Stage(Top.do) = 1
    <3>1. Stage(Top.do) \in 0 .. 7
      BY Stages
    <3>. SUFFICES ASSUME NEW i \in DOMAIN new, NEW f, f = new[i]
                  PROVE  /\ Stage(f.do) <= Stage(Top.do) /\ f.do # "build"
                         /\ Stage(f.do) \in {1, 2} => Stage(Top.do) = 1
      OBVIOUS
    <3>2. \/ f.do \in {"hook", "despawned_listener"}
          \/ f.do \in {"exit_machine", "exit_seat", "remove"} /\ Stage(Top.do) = 1
      BY DEF Quiet
    <3>3. f.do \in {"hook", "despawned_listener"} => Stage(f.do) = 0 /\ f.do # "build"
      BY DEF Stage
    <3>4. f.do \in {"exit_machine", "exit_seat", "remove"} => Stage(f.do) = 1 /\ f.do # "build"
      BY DEF Stage
    <3>5. CASE f.do \in {"hook", "despawned_listener"}
      <4>1. Stage(f.do) = 0 /\ f.do # "build"
        BY <3>3, <3>5
      <4>. QED BY <3>1, <4>1
    <3>6. CASE f.do \in {"exit_machine", "exit_seat", "remove"} /\ Stage(Top.do) = 1
      <4>1. Stage(f.do) = 1 /\ f.do # "build"
        BY <3>4, <3>6
      <4>. QED BY <3>6, <4>1
    <3>. QED BY <3>2, <3>5, <3>6
  <2>2. ASSUME NEW i \in DOMAIN new PROVE FrameRight(new[i])'
    <3>1. PICK f : f = new[i]
      OBVIOUS
    <3>2. FrameRight(f)'
      BY <1>2, <3>1 DEF Quiet, FrameRight
    <3>. QED BY <3>1, <3>2
  <2>3. \A i, j \in DOMAIN new : i < j => Fits(new[i], new[j])
    BY DEF Quiet
  <2>4. \A e \in Entity : /\ promised[e] \in Nat /\ promised'[e] \in Nat /\ promised'[e] <= promised[e]
                          /\ life[e] # "free" => life'[e] # "free"
    BY <1>2 DEF SpawnerInv, SpawnerTypes
  <2>. QED BY <1>2, <2>1, <2>2, <2>3, <2>4, ReplacedStack DEF SpawnerInv
<1>5. PhaseRight'
  <2>1. todo # <<>>
    BY DEF Replaced
  <2>2. phase \notin {"between", "open", "aborted"}
    BY <2>1 DEF SpawnerInv, PhaseRight
  <2>. QED BY <1>1, <1>2, <2>1, <2>2 DEF SpawnerInv, PhaseRight
<1>6. PromisesRight'
  BY <1>1, <1>2 DEF SpawnerInv, PromisesRight, Live
<1>7. BirthsRight'
  BY <1>1, <1>2 DEF SpawnerInv, BirthsRight
<1>. QED BY <1>3, <1>4, <1>5, <1>6, <1>7 DEF SpawnerInv

-----------------------------------------------------------------------------
\* The steps that leave the stack as it is.
LEMMA SameStack ==
  ASSUME SpawnerTypes, StackRight, todo' = todo, last_prepared' = last_prepared,
         \A e \in Entity : /\ promised[e] \in Nat /\ promised'[e] \in Nat /\ promised'[e] <= promised[e]
                           /\ life[e] # "free" => life'[e] # "free"
  PROVE  /\ StackRight' /\ (SceneEnters' <=> SceneEnters)
         /\ \A do : Awaits(do)' <=> Awaits(do)
         /\ \A do, e : Waiting(do, e)' <=> Waiting(do, e)
<1>1. \A do : Awaits(do)' <=> Awaits(do)
  BY DEF Awaits
<1>2. \A do, e : Waiting(do, e)' <=> Waiting(do, e)
  BY DEF Waiting
<1>3. ASSUME NEW k \in DOMAIN todo PROVE FrameRight(todo[k])'
  <2>1. PICK f : f = todo[k]
    OBVIOUS
  <2>2. FrameRight(f)
    BY <2>1 DEF StackRight
  <2>3. /\ f.do \in {"due", "exit_machine", "exit_seat", "remove", "bury"} => f.who \in Entity
        /\ f.do \in {"build", "enter"} => f.who \in Root /\ f.who \in Entity
    BY <2>2 DEF FrameRight, Entity
  <2>4. last_prepared \in Nat
    BY DEF SpawnerTypes
  <2>5. f.do \in {"due", "remove"} => promised'[f.who] <= last_prepared'
    <3>. SUFFICES ASSUME f.do \in {"due", "remove"} PROVE promised'[f.who] <= last_prepared
      OBVIOUS
    <3>1. PICK x \in Entity : x = f.who
      BY <2>3
    <3>2. promised[x] <= last_prepared
      BY <2>2, <3>1 DEF FrameRight
    <3>3. promised[x] \in Nat /\ promised'[x] \in Nat /\ promised'[x] <= promised[x]
      OBVIOUS
    <3>. QED BY <2>4, <3>1, <3>2, <3>3
  <2>6. f.do \in {"due", "build"} => life'[f.who] # "free"
    BY <2>2, <2>3 DEF FrameRight
  <2>7. FrameRight(f)'
    BY <2>3, <2>5, <2>6 DEF FrameRight
  <2>. QED BY <2>1, <2>7
<1>4. InOrder'
  BY DEF StackRight, InOrder, Fits
<1>5. FlushAhead'
  BY <1>1 DEF StackRight, FlushAhead, Stage
<1>6. (\A k \in DOMAIN todo : FrameRight(todo[k]))'
  BY <1>3
<1>7. StackRight'
  BY <1>4, <1>5, <1>6 DEF StackRight
<1>8. SceneEnters' <=> SceneEnters
  BY DEF SceneEnters
<1>. QED BY <1>1, <1>2, <1>7, <1>8

\* Without a stack there is nothing to be wrong with it.
LEMMA EmptyStack ==
  /\ todo = <<>> => StackRight /\ (\A do : ~Awaits(do)) /\ \A do, e : ~Waiting(do, e)
  /\ todo' = <<>> => StackRight' /\ (\A do : ~Awaits(do)') /\ \A do, e : ~Waiting(do, e)'
BY DEF StackRight, InOrder, FlushAhead, Awaits, Waiting

\* The clock while user code runs.
LEMMA UserClock ==
  ASSUME SpawnerInv, UserRuns
  PROVE  /\ phase # "aborted" /\ tick \in 0 .. MaxTick /\ last_prepared \in Nat
         /\ tick = IF phase = "open" THEN last_prepared + 1 ELSE last_prepared
<1>1. phase # "aborted"
  BY DEF SpawnerInv, PhaseRight, UserRuns, Doing
<1>. QED BY <1>1 DEF SpawnerInv, SpawnerTypes, PhaseRight

\* The journal starts to refuse.
LEMMA JournalStep ==
  ASSUME SpawnerInv, journal_refuses
  PROVE  SpawnerInv'
<1>1. /\ tick' = tick /\ phase' = phase /\ poisoned' = TRUE /\ life' = life /\ parent' = parent /\ adopted' = adopted
      /\ commands' = commands /\ pending' = pending /\ lingers' = lingers /\ last_prepared' = last_prepared
      /\ queued_reaps' = queued_reaps /\ promised' = promised /\ todo' = todo /\ seat' = seat /\ machine' = machine
  BY DEF journal_refuses, worldVars, queueVars, hostVars
<1>2. SpawnerTypes'
  BY <1>1 DEF SpawnerInv, SpawnerTypes
<1>3. StackRight' /\ PhaseRight' /\ PromisesRight' /\ BirthsRight'
  BY <1>1 DEF SpawnerInv, StackRight, PhaseRight, PromisesRight, BirthsRight, InOrder, FlushAhead,
              FrameRight, Awaits, Waiting, SceneEnters, Untouched, Live
<1>. QED BY <1>2, <1>3 DEF SpawnerInv

\* A prefab is requested: pending, with its command and its place in the list.
LEMMA SpawnStep ==
  ASSUME SpawnerInv, NEW r \in Root, spawn_prefab(r)
  PROVE  SpawnerInv'
<1>0. r \in Entity /\ UserRuns /\ life[r] = "free"
  BY DEF Entity, spawn_prefab
<1>1. /\ life' = [life EXCEPT ![r] = "pending"]
      /\ commands' = Append(commands, Spawn(r)) /\ pending' = Append(pending, r)
      /\ tick' = tick /\ phase' = phase /\ poisoned' = poisoned /\ parent' = parent /\ adopted' = adopted
      /\ lingers' = lingers /\ last_prepared' = last_prepared /\ queued_reaps' = queued_reaps
      /\ promised' = promised /\ todo' = todo /\ seat' = seat /\ machine' = machine
  BY DEF spawn_prefab, clockVars, hostVars
<1>2. /\ life \in [Entity -> {"free", "pending", "alive", "dead"}] /\ promised \in [Entity -> 0 .. Never]
      /\ commands \in Seq(Command) /\ pending \in Seq(Root) /\ Never \in Nat
      /\ Len(commands) \in Nat /\ Len(pending) \in Nat
  BY SpawnerBoundsAssumption DEF SpawnerInv, SpawnerTypes, Never
<1>3. SpawnerTypes'
  <2>1. Spawn(r) \in Command
    BY <1>0 DEF Spawn, Command
  <2>. QED BY <1>0, <1>1, <2>1 DEF SpawnerInv, SpawnerTypes
<1>4. /\ life'[r] = "pending" /\ \A e \in Entity : e # r => life'[e] = life[e]
      /\ \A e \in Entity : life[e] # "free" => life'[e] = life[e] /\ e # r
  BY <1>0, <1>1, <1>2
<1>5. /\ StackRight' /\ (SceneEnters' <=> SceneEnters)
      /\ \A do : Awaits(do)' <=> Awaits(do)
      /\ \A do, e : Waiting(do, e)' <=> Waiting(do, e)
  BY <1>1, <1>2, <1>4, SameStack DEF SpawnerInv
<1>6. /\ DOMAIN commands' = 1 .. Len(commands) + 1 /\ DOMAIN commands = 1 .. Len(commands)
      /\ \A k \in DOMAIN commands : k \in DOMAIN commands' /\ commands'[k] = commands[k] /\ k < Len(commands) + 1
      /\ \A k \in DOMAIN commands' : k \in DOMAIN commands \/ k = Len(commands) + 1
      /\ commands'[Len(commands) + 1] = Spawn(r) /\ Spawn(r).op = "spawn"
  BY <1>1, <1>2 DEF Spawn
<1>7. /\ DOMAIN pending' = 1 .. Len(pending) + 1 /\ DOMAIN pending = 1 .. Len(pending)
      /\ \A k \in DOMAIN pending : k \in DOMAIN pending' /\ pending'[k] = pending[k]
      /\ \A k \in DOMAIN pending' : k \in DOMAIN pending \/ k = Len(pending) + 1
      /\ pending'[Len(pending) + 1] = r
  BY <1>1, <1>2
<1>8. promised[r] = Never /\ Never > last_prepared
  BY <1>0, SpawnerBoundsAssumption DEF SpawnerInv, BirthsRight, SpawnerTypes, Never
<1>9. PhaseRight'
  <2>1. phase = "boot" => todo # <<>>
    BY <1>0 DEF UserRuns, Doing
  <2>. QED BY <1>1, <1>5, <1>6, <2>1 DEF SpawnerInv, PhaseRight
<1>10. PromisesRight'
  <2>1. \A k \in DOMAIN lingers : promised[lingers[k].ref] <= lingers[k].due /\ lingers[k].ref \in Entity
                                  /\ life'[lingers[k].ref] # "free"
    <3>1. \A k \in DOMAIN lingers : lingers[k].ref \in Entity
      BY Typed DEF SpawnerInv
    <3>2. \A k \in DOMAIN lingers : promised[lingers[k].ref] <= lingers[k].due /\ life[lingers[k].ref] # "free"
      BY DEF SpawnerInv, PromisesRight
    <3>. QED BY <1>4, <3>1, <3>2
  <2>2. \A e \in Entity : e # r => (Live(e)' <=> Live(e))
    BY <1>4 DEF Live
  <2>3. \A e \in Entity : Live(e)' /\ promised[e] > last_prepared /\ promised[e] # Never =>
          \E k \in DOMAIN lingers : lingers[k].ref = e /\ lingers[k].due <= promised[e]
    BY <1>8, <2>2 DEF SpawnerInv, PromisesRight
  <2>4. phase # "aborted" =>
       \A e \in Entity : Live(e)' /\ promised[e] <= last_prepared =>
         /\ Awaits("flush")
         /\ Waiting("due", e) \/ Waiting("remove", e) \/ \E j \in DOMAIN commands' : commands'[j] = Despawn(e)
    <3>1. ~(promised[r] <= last_prepared)
      <4>1. last_prepared \in Nat
        BY DEF SpawnerInv, SpawnerTypes
      <4>. QED BY <1>2, <1>8, <4>1
    <3>. QED BY <1>6, <2>2, <3>1 DEF SpawnerInv, PromisesRight
  <2>. QED BY <1>1, <1>5, <2>1, <2>3, <2>4 DEF SpawnerInv, PromisesRight
<1>11. BirthsRight'
  <2>1. \A e \in Entity : life'[e] = "free" => promised'[e] = Never
    BY <1>0, <1>1, <1>4 DEF SpawnerInv, BirthsRight
  <2>2. \A k \in DOMAIN commands : commands[k].op = "despawn" => commands[k].entity \in Entity /\ life[commands[k].entity] # "free"
    BY <1>2 DEF SpawnerInv, BirthsRight, Command
  <2>3. \A k \in DOMAIN commands' : commands'[k].op = "despawn" => life'[commands'[k].entity] # "free"
    BY <1>4, <1>6, <2>2
  <2>4. \A e \in Entity : life'[e] = "pending" =>
          \E j \in DOMAIN commands' :
            commands'[j] = Spawn(e) /\ \A k \in DOMAIN commands' : commands'[k] = Despawn(e) => j < k
    <3>0. Despawn(r).op = "despawn" /\ Despawn(r).entity = r /\ \A e : Despawn(e) # Spawn(r)
      BY DEF Despawn, Spawn
    <3>1. \A k \in DOMAIN commands' : commands'[k] # Despawn(r)
      BY <1>0, <1>6, <2>2, <3>0
    <3>2. ASSUME NEW e \in Entity, e # r, life'[e] = "pending"
          PROVE  \E j \in DOMAIN commands' :
                   commands'[j] = Spawn(e) /\ \A k \in DOMAIN commands' : commands'[k] = Despawn(e) => j < k
      <4>1. PICK j \in DOMAIN commands :
              commands[j] = Spawn(e) /\ \A k \in DOMAIN commands : commands[k] = Despawn(e) => j < k
        BY <1>4, <3>2 DEF SpawnerInv, BirthsRight
      <4>. QED BY <1>6, <3>0, <4>1
    <3>3. Len(commands) + 1 \in DOMAIN commands'
      BY <1>2, <1>6
    <3>. QED BY <1>6, <3>1, <3>2, <3>3
  <2>5. \A k \in DOMAIN pending : pending[k] \in Entity /\ life[pending[k]] # "free" /\ pending[k] # r
    BY <1>0, <1>2 DEF SpawnerInv, BirthsRight, Entity
  <2>6. \A k \in DOMAIN pending' : life'[pending'[k]] # "free"
    BY <1>4, <1>7, <2>5
  <2>7. \A i, j \in DOMAIN pending' : pending'[i] = pending'[j] => i = j
    BY <1>7, <2>5 DEF SpawnerInv, BirthsRight
  <2>8. ~Waiting("build", r)
    BY <1>0 DEF Waiting, SpawnerInv, StackRight, FrameRight
  <2>9. \A k \in DOMAIN pending' : ~Waiting("build", pending'[k])
    BY <1>7, <2>8 DEF SpawnerInv, BirthsRight
  <2>10. ASSUME NEW c \in Child, life'[c] # "free"
         PROVE  /\ life'[ChildOf[c]] # "free" /\ ~Waiting("build", ChildOf[c])
                /\ \A k \in DOMAIN pending' : pending'[k] # ChildOf[c]
    <3>1. c \in Entity /\ c # r /\ ChildOf[c] \in Entity
      BY PrefabAssumption DEF Entity
    <3>2. life[c] # "free"
      BY <1>4, <2>10, <3>1
    <3>3. life[ChildOf[c]] # "free" /\ ~Waiting("build", ChildOf[c]) /\ \A k \in DOMAIN pending : pending[k] # ChildOf[c]
      BY <3>2 DEF SpawnerInv, BirthsRight
    <3>. QED BY <1>0, <1>4, <1>7, <3>1, <3>3
  <2>. QED BY <1>5, <2>1, <2>3, <2>4, <2>6, <2>7, <2>9, <2>10 DEF BirthsRight
<1>. QED BY <1>3, <1>5, <1>9, <1>10, <1>11 DEF SpawnerInv

\* A request: the entry and the promise take the same deadline.
LEMMA DespawnStep ==
  ASSUME SpawnerInv, NEW e \in Entity, NEW delay \in 0 .. MaxDelay, despawn(e, delay)
  PROVE  SpawnerInv'
<1> DEFINE due == Max({tick + delay, last_prepared + 1})
           known == \E k \in DOMAIN lingers : lingers[k].ref = e
           earlier == [k \in DOMAIN lingers |-> IF lingers[k].ref = e /\ due < lingers[k].due
                                                  THEN [ref |-> e, due |-> due] ELSE lingers[k]]
           entry == [ref |-> e, due |-> due]
<1>0. UserRuns /\ Live(e)
  BY DEF despawn, Live
<1>1. /\ lingers' = IF known THEN earlier ELSE Append(lingers, entry)
      /\ promised' = [promised EXCEPT ![e] = Min({promised[e], Deadline(delay)})]
      /\ tick' = tick /\ phase' = phase /\ poisoned' = poisoned /\ life' = life /\ parent' = parent /\ adopted' = adopted
      /\ commands' = commands /\ pending' = pending /\ last_prepared' = last_prepared
      /\ queued_reaps' = queued_reaps /\ todo' = todo /\ seat' = seat /\ machine' = machine
  BY Zenon DEF despawn, clockVars, worldVars, hostVars
<1>2. /\ due \in Nat /\ due > last_prepared /\ due < Never /\ due = Deadline(delay)
      /\ last_prepared \in Nat /\ tick \in Nat /\ Never \in Nat
  <2>1. /\ tick \in 0 .. MaxTick /\ last_prepared \in Nat /\ delay \in Nat /\ delay <= MaxDelay
        /\ tick = IF phase = "open" THEN last_prepared + 1 ELSE last_prepared
        /\ MaxTick \in Nat /\ MaxDelay \in Nat
    BY <1>0, UserClock, SpawnerBoundsAssumption
  <2>2. /\ due = IF tick + delay >= last_prepared + 1 THEN tick + delay ELSE last_prepared + 1
        /\ Deadline(delay) = Max({tick + delay, IF phase = "open" THEN tick ELSE tick + 1})
    BY <2>1, MaxMin DEF Deadline
  <2>3. due = Deadline(delay)
    BY <2>1, <2>2
  <2>. QED BY <2>1, <2>2, <2>3 DEF Never
<1>. HIDE DEF due
<1>3. /\ promised \in [Entity -> 0 .. Never] /\ \A x \in Entity : promised[x] \in Nat
      /\ promised'[e] = (IF promised[e] <= due THEN promised[e] ELSE due)
      /\ \A x \in Entity : x # e => promised'[x] = promised[x]
  <2>1. promised \in [Entity -> 0 .. Never] /\ \A x \in Entity : promised[x] \in Nat
    BY Typed DEF SpawnerInv, SpawnerTypes
  <2>2. Min({promised[e], due}) = IF promised[e] <= due THEN promised[e] ELSE due
    BY <1>2, <2>1, MaxMin
  <2>. QED BY <1>1, <1>2, <2>1, <2>2
<1>4. \A x \in Entity : promised'[x] \in 0 .. Never /\ promised'[x] \in Nat /\ promised'[x] <= promised[x]
  BY <1>2, <1>3
<1>5. /\ Len(lingers) \in Nat /\ DOMAIN lingers = 1 .. Len(lingers)
      /\ \A k \in DOMAIN lingers : /\ lingers[k] \in [ref : Entity, due : Nat]
                                   /\ lingers[k].ref \in Entity /\ lingers[k].due \in Nat
  BY Typed DEF SpawnerInv
<1>6. /\ entry \in [ref : Entity, due : Nat] /\ entry.ref = e /\ entry.due = due
      /\ \A k \in DOMAIN lingers :
           earlier[k] = IF lingers[k].ref = e /\ due < lingers[k].due THEN entry ELSE lingers[k]
  BY <1>2
<1>. HIDE DEF known, entry
<1>7. /\ \A k \in DOMAIN lingers : /\ k \in DOMAIN lingers' /\ lingers'[k].ref = lingers[k].ref
                                   /\ lingers'[k].due <= lingers[k].due
                                   /\ lingers[k].ref = e => lingers'[k].due <= due
      /\ \A k \in DOMAIN lingers' : \/ k \in DOMAIN lingers /\ lingers'[k] = lingers[k]
                                    \/ lingers'[k] = entry
      /\ lingers' \in Seq([ref : Entity, due : Nat])
      /\ \E k \in DOMAIN lingers' : lingers'[k].ref = e /\ lingers'[k].due <= due
  <2>1. CASE known
    <3>1. lingers' = earlier
      BY <1>1, <2>1
    <3>2. DOMAIN lingers' = DOMAIN lingers
      BY <3>1
    <3>3. \A k \in DOMAIN lingers :
            lingers'[k] = IF lingers[k].ref = e /\ due < lingers[k].due THEN entry ELSE lingers[k]
      BY <1>6, <3>1
    <3>4. \A k \in DOMAIN lingers : lingers'[k] \in [ref : Entity, due : Nat]
      BY <1>5, <1>6, <3>3
    <3>5. lingers' \in Seq([ref : Entity, due : Nat])
      BY <1>5, <3>1, <3>2, <3>4
    <3>6. \A k \in DOMAIN lingers : /\ k \in DOMAIN lingers' /\ lingers'[k].ref = lingers[k].ref
                                    /\ lingers'[k].due <= lingers[k].due
                                    /\ lingers[k].ref = e => lingers'[k].due <= due
      BY <1>2, <1>5, <1>6, <3>2, <3>3
    <3>7. \E k \in DOMAIN lingers' : lingers'[k].ref = e /\ lingers'[k].due <= due
      BY <2>1, <3>6 DEF known
    <3>. QED BY <3>2, <3>3, <3>5, <3>6, <3>7
  <2>2. CASE ~known
    <3>1. lingers' = Append(lingers, entry)
      BY <1>1, <2>2
    <3>2. /\ DOMAIN lingers' = 1 .. Len(lingers) + 1 /\ lingers'[Len(lingers) + 1] = entry
          /\ \A k \in DOMAIN lingers : lingers'[k] = lingers[k]
          /\ lingers' \in Seq([ref : Entity, due : Nat])
      <4> DEFINE Entry == [ref : Entity, due : Nat]
      <4>1. lingers \in Seq(Entry) /\ entry \in Entry
        BY <1>6 DEF SpawnerInv, SpawnerTypes
      <4>. HIDE DEF Entry
      <4>2. lingers' \in Seq(Entry)
        BY <3>1, <4>1
      <4>3. /\ DOMAIN lingers' = 1 .. Len(lingers) + 1 /\ lingers'[Len(lingers) + 1] = entry
            /\ \A k \in DOMAIN lingers : lingers'[k] = lingers[k]
        BY <3>1, <4>1
      <4>. QED BY <4>2, <4>3 DEF Entry
    <3>3. \A k \in DOMAIN lingers : lingers[k].ref # e
      BY <2>2 DEF known
    <3>4. Len(lingers) + 1 \in DOMAIN lingers' /\ \A k \in DOMAIN lingers : k \in DOMAIN lingers'
      BY <1>5, <3>2
    <3>5. \A k \in DOMAIN lingers' : k \in DOMAIN lingers \/ k = Len(lingers) + 1
      BY <1>5, <3>2
    <3>. QED BY <1>2, <1>5, <1>6, <3>2, <3>3, <3>4, <3>5
  <2>. QED BY <2>1, <2>2
<1>8. SpawnerTypes'
  <2>1. promised' \in [Entity -> 0 .. Never]
    <3>1. promised' = [x \in Entity |-> promised'[x]]
      BY <1>1, <1>3
    <3>. QED BY <1>4, <3>1
  <2>. QED BY <1>1, <1>7, <2>1 DEF SpawnerInv, SpawnerTypes, Never
<1>9. /\ StackRight' /\ (SceneEnters' <=> SceneEnters)
      /\ \A do : Awaits(do)' <=> Awaits(do)
      /\ \A do, x : Waiting(do, x)' <=> Waiting(do, x)
  BY <1>1, <1>3, <1>4, SameStack DEF SpawnerInv
<1>10. PhaseRight'
  <2>1. phase = "boot" => todo # <<>>
    BY <1>0 DEF UserRuns, Doing
  <2>. QED BY <1>1, <1>9, <2>1 DEF SpawnerInv, PhaseRight
<1>11. PromisesRight'
  <2>1. ASSUME NEW k \in DOMAIN lingers'
        PROVE  promised'[lingers'[k].ref] <= lingers'[k].due /\ life'[lingers'[k].ref] # "free"
    <3>1. CASE lingers'[k] = entry
      BY <1>0, <1>1, <1>2, <1>3, <1>6, <3>1 DEF Live
    <3>2. CASE k \in DOMAIN lingers /\ lingers'[k] = lingers[k]
      <4>1. promised[lingers[k].ref] <= lingers[k].due /\ life[lingers[k].ref] # "free"
        BY <3>2 DEF SpawnerInv, PromisesRight
      <4>2. PICK x \in Entity, d \in Nat : x = lingers[k].ref /\ d = lingers[k].due
        BY <1>5, <3>2
      <4>3. promised'[x] <= promised[x] /\ promised'[x] \in Nat /\ promised[x] \in Nat
        BY <1>3, <1>4
      <4>. QED BY <1>1, <3>2, <4>1, <4>2, <4>3
    <3>. QED BY <1>7, <3>1, <3>2
  <2>2. ASSUME NEW x \in Entity, Live(x), promised'[x] > last_prepared, promised'[x] # Never
        PROVE  \E k \in DOMAIN lingers' : lingers'[k].ref = x /\ lingers'[k].due <= promised'[x]
    <3>1. CASE promised'[x] = promised[x] /\ promised[x] # Never
      <4>1. PICK k \in DOMAIN lingers : lingers[k].ref = x /\ lingers[k].due <= promised[x]
        BY <2>2, <3>1 DEF SpawnerInv, PromisesRight
      <4>2. k \in DOMAIN lingers' /\ lingers'[k].ref = x /\ lingers'[k].due <= lingers[k].due
        BY <1>7, <4>1
      <4>3. lingers'[k].due \in Nat /\ lingers[k].due \in Nat
        BY <1>2, <1>5, <1>6, <1>7, <4>2
      <4>. QED BY <1>3, <3>1, <4>1, <4>2, <4>3
    <3>2. CASE x = e /\ promised'[x] = due
      BY <1>7, <3>2
    <3>. QED BY <1>3, <2>2, <3>1, <3>2
  <2>3. ASSUME phase # "aborted", NEW x \in Entity, Live(x), promised'[x] <= last_prepared
        PROVE  /\ Awaits("flush")
               /\ Waiting("due", x) \/ Waiting("remove", x) \/ \E j \in DOMAIN commands : commands[j] = Despawn(x)
    <3>1. promised[x] <= last_prepared
      BY <1>2, <1>3, <2>3
    <3>. QED BY <2>3, <3>1 DEF SpawnerInv, PromisesRight
  <2>4. \A k \in DOMAIN queued_reaps : promised'[queued_reaps[k].ref] <= tick
    <3>. SUFFICES ASSUME NEW k \in DOMAIN queued_reaps PROVE promised'[queued_reaps[k].ref] <= tick
      OBVIOUS
    <3>1. PICK x \in Entity : x = queued_reaps[k].ref
      BY Typed DEF SpawnerInv
    <3>2. promised[x] <= tick
      BY <3>1 DEF SpawnerInv, PromisesRight
    <3>3. promised'[x] <= promised[x] /\ promised'[x] \in Nat /\ promised[x] \in Nat
      BY <1>3, <1>4
    <3>. QED BY <1>2, <3>1, <3>2, <3>3
  <2>5. \A x \in Entity : Live(x)' <=> Live(x)
    BY <1>1 DEF Live
  <2>. QED BY <1>1, <1>9, <2>1, <2>2, <2>3, <2>4, <2>5 DEF PromisesRight
<1>12. BirthsRight'
  <2>1. \A x \in Entity : life[x] = "free" => promised'[x] = Never
    BY <1>0, <1>3 DEF SpawnerInv, BirthsRight, Live
  <2>. QED BY <1>1, <1>9, <2>1 DEF SpawnerInv, BirthsRight
<1>. QED BY <1>8, <1>9, <1>10, <1>11, <1>12 DEF SpawnerInv

\* A child goes anywhere, a root is only detached.
LEMMA AttachCommand ==
  ASSUME NEW c \in Entity, NEW p \in Root \cup {None}, p # None => c \in Child
  PROVE  Reparent(c, p) \in Command /\ Reparent(c, p).op = "reparent"
<1>1. c \in Child \/ (c \in Root /\ p = None)
  BY DEF Entity
<1>. QED BY <1>1 DEF Reparent, Command

\* A reparent is queued.
LEMMA AttachStep ==
  ASSUME SpawnerInv, NEW c \in Entity, NEW p \in Root \cup {None}, p # None => c \in Child, queue_attach(c, p)
  PROVE  SpawnerInv'
<1>0. UserRuns
  BY DEF queue_attach
<1>1. /\ commands' = Append(commands, Reparent(c, p))
      /\ tick' = tick /\ phase' = phase /\ poisoned' = poisoned /\ life' = life /\ parent' = parent /\ adopted' = adopted
      /\ pending' = pending /\ lingers' = lingers /\ last_prepared' = last_prepared
      /\ queued_reaps' = queued_reaps /\ promised' = promised /\ todo' = todo /\ seat' = seat /\ machine' = machine
  BY DEF queue_attach, clockVars, queueVars, hostVars
<1>2. Len(commands) \in Nat /\ DOMAIN commands = 1 .. Len(commands) /\ commands \in Seq(Command)
      /\ \A e \in Entity : promised[e] \in Nat
  BY Typed DEF SpawnerInv, SpawnerTypes
<1>3. Reparent(c, p) \in Command /\ Reparent(c, p).op = "reparent"
  BY AttachCommand
<1>4. /\ DOMAIN commands' = 1 .. Len(commands) + 1
      /\ \A k \in DOMAIN commands : k \in DOMAIN commands' /\ commands'[k] = commands[k]
      /\ \A k \in DOMAIN commands' : k \in DOMAIN commands \/ k = Len(commands) + 1
      /\ commands'[Len(commands) + 1] = Reparent(c, p)
  BY <1>1, <1>2
<1>5. SpawnerTypes'
  <2>1. commands' \in Seq(Command)
    BY <1>1, <1>2, <1>3
  <2>. QED BY <1>1, <2>1 DEF SpawnerInv, SpawnerTypes, Never
<1>6. /\ StackRight' /\ (SceneEnters' <=> SceneEnters)
      /\ \A do : Awaits(do)' <=> Awaits(do)
      /\ \A do, x : Waiting(do, x)' <=> Waiting(do, x)
  BY <1>1, <1>2, SameStack DEF SpawnerInv
<1>7. PhaseRight'
  <2>1. phase = "boot" => todo # <<>>
    BY <1>0 DEF UserRuns, Doing
  <2>. QED BY <1>1, <1>3, <1>4, <1>6, <2>1 DEF SpawnerInv, PhaseRight
<1>8. \A e : Despawn(e).op = "despawn" /\ Reparent(c, p) # Despawn(e)
  BY <1>3 DEF Despawn
<1>9. PromisesRight'
  BY <1>1, <1>4, <1>6 DEF SpawnerInv, PromisesRight, Live
<1>10. BirthsRight'
  <2>1. \A k \in DOMAIN commands' : commands'[k].op = "despawn" => life[commands'[k].entity] # "free"
    BY <1>3, <1>4 DEF SpawnerInv, BirthsRight
  <2>2. ASSUME NEW e \in Entity, life[e] = "pending"
        PROVE  \E j \in DOMAIN commands' :
                 commands'[j] = Spawn(e) /\ \A k \in DOMAIN commands' : commands'[k] = Despawn(e) => j < k
    <3>1. PICK j \in DOMAIN commands :
            commands[j] = Spawn(e) /\ \A k \in DOMAIN commands : commands[k] = Despawn(e) => j < k
      BY <2>2 DEF SpawnerInv, BirthsRight
    <3>. QED BY <1>4, <1>8, <3>1
  <2>. QED BY <1>1, <1>6, <2>1, <2>2 DEF SpawnerInv, BirthsRight
<1>. QED BY <1>5, <1>6, <1>7, <1>9, <1>10 DEF SpawnerInv

-----------------------------------------------------------------------------
\* The steps that replace the whole stack.
LEMMA FreshFrames ==
  ASSUME NEW head \in Seq(FrameType), NEW tail \in Seq(FrameType), todo' = head \o tail
  PROVE  /\ todo' \in Seq(FrameType)
         /\ DOMAIN head = 1 .. Len(head) /\ DOMAIN tail = 1 .. Len(tail) /\ Len(head) \in Nat /\ Len(tail) \in Nat
         /\ DOMAIN todo' = 1 .. Len(head) + Len(tail)
         /\ \A k \in DOMAIN todo' :
              \/ k \in DOMAIN head /\ todo'[k] = head[k]
              \/ k > Len(head) /\ k - Len(head) \in DOMAIN tail /\ todo'[k] = tail[k - Len(head)]
         /\ \A k \in DOMAIN head : k \in DOMAIN todo' /\ todo'[k] = head[k]
         /\ \A k \in DOMAIN tail : Len(head) + k \in DOMAIN todo' /\ todo'[Len(head) + k] = tail[k]
<1>1. /\ DOMAIN head = 1 .. Len(head) /\ DOMAIN tail = 1 .. Len(tail) /\ Len(head) \in Nat /\ Len(tail) \in Nat
      /\ head \o tail \in Seq(FrameType) /\ Len(head \o tail) = Len(head) + Len(tail)
  BY ConcatProperties
<1>2. todo' \in Seq(FrameType) /\ DOMAIN todo' = 1 .. Len(head) + Len(tail)
  BY <1>1
<1>3. /\ \A k \in 1 .. Len(head) : todo'[k] = head[k]
      /\ \A k \in 1 .. Len(tail) : todo'[Len(head) + k] = tail[k]
  OBVIOUS
<1>4. ASSUME NEW k \in DOMAIN todo'
      PROVE  \/ k \in DOMAIN head /\ todo'[k] = head[k]
             \/ k > Len(head) /\ k - Len(head) \in DOMAIN tail /\ todo'[k] = tail[k - Len(head)]
  <2>1. CASE k <= Len(head)
    <3>1. k \in 1 .. Len(head)
      BY <1>1, <1>2, <2>1
    <3>. QED BY <1>1, <1>3, <3>1
  <2>2. CASE k > Len(head)
    <3>1. PICK l \in 1 .. Len(tail) : l = k - Len(head)
      BY <1>1, <1>2, <2>2
    <3>2. k = Len(head) + l
      BY <1>1, <1>2, <3>1
    <3>. QED BY <1>1, <1>3, <2>2, <3>1, <3>2
  <2>. QED BY <1>1, <1>2, <2>1, <2>2
<1>5. \A k \in DOMAIN head : k \in DOMAIN todo' /\ todo'[k] = head[k]
  BY <1>1, <1>2, <1>3
<1>6. \A k \in DOMAIN tail : Len(head) + k \in DOMAIN todo' /\ todo'[Len(head) + k] = tail[k]
  BY <1>1, <1>2, <1>3
<1>. QED BY <1>1, <1>2, <1>4, <1>5, <1>6

\* What waits in them.
LEMMA FreshWaits ==
  ASSUME NEW head \in Seq(FrameType), NEW tail \in Seq(FrameType), todo' = head \o tail
  PROVE  /\ todo' \in Seq(FrameType)
         /\ \A do, e : Waiting(do, e)' <=> \/ \E k \in DOMAIN head : head[k].do = do /\ head[k].who = e
                                           \/ \E k \in DOMAIN tail : tail[k].do = do /\ tail[k].who = e
         /\ \A do : Awaits(do)' <=> \/ \E k \in DOMAIN head : head[k].do = do
                                    \/ \E k \in DOMAIN tail : tail[k].do = do
<1>1. PICK next : next = todo'
  OBVIOUS
<1>2. /\ \A k \in DOMAIN next : \/ \E i \in DOMAIN head : next[k] = head[i]
                                \/ \E i \in DOMAIN tail : next[k] = tail[i]
      /\ \A i \in DOMAIN head : \E k \in DOMAIN next : next[k] = head[i]
      /\ \A i \in DOMAIN tail : \E k \in DOMAIN next : next[k] = tail[i]
  <2>1. /\ \A k \in DOMAIN todo' :
             \/ k \in DOMAIN head /\ todo'[k] = head[k]
             \/ k > Len(head) /\ k - Len(head) \in DOMAIN tail /\ todo'[k] = tail[k - Len(head)]
        /\ \A k \in DOMAIN head : k \in DOMAIN todo' /\ todo'[k] = head[k]
        /\ \A k \in DOMAIN tail : Len(head) + k \in DOMAIN todo' /\ todo'[Len(head) + k] = tail[k]
    BY FreshFrames
  <2>. QED BY <1>1, <2>1
<1>3. \A do, e : (\E k \in DOMAIN next : next[k].do = do /\ next[k].who = e)
                   <=> \/ \E k \in DOMAIN head : head[k].do = do /\ head[k].who = e
                       \/ \E k \in DOMAIN tail : tail[k].do = do /\ tail[k].who = e
  BY <1>2
<1>4. \A do : (\E k \in DOMAIN next : next[k].do = do)
                <=> \/ \E k \in DOMAIN head : head[k].do = do
                    \/ \E k \in DOMAIN tail : tail[k].do = do
  BY <1>2
<1>5. \A do, e : Waiting(do, e)' <=> \/ \E k \in DOMAIN head : head[k].do = do /\ head[k].who = e
                                     \/ \E k \in DOMAIN tail : tail[k].do = do /\ tail[k].who = e
  <2>1. \A do, e : Waiting(do, e)' <=> \E k \in DOMAIN next : next[k].do = do /\ next[k].who = e
    BY <1>1 DEF Waiting
  <2>. QED BY ONLY <1>3, <2>1, Zenon
<1>6. \A do : Awaits(do)' <=> \/ \E k \in DOMAIN head : head[k].do = do
                              \/ \E k \in DOMAIN tail : tail[k].do = do
  BY <1>1, <1>4, Zenon DEF Awaits
<1>7. todo' \in Seq(FrameType)
  BY FreshFrames
<1>. QED BY <1>5, <1>6, <1>7

\* Frames of one kind, then those of the stages behind them.
LEMMA FreshStack ==
  ASSUME NEW head \in Seq(FrameType), NEW tail \in Seq(FrameType), todo' = head \o tail,
         \A i, j \in DOMAIN head : i < j => Fits(head[i], head[j]),
         \A i, j \in DOMAIN tail : i < j => Fits(tail[i], tail[j]),
         \A i \in DOMAIN head, j \in DOMAIN tail : Fits(head[i], tail[j]),
         \A i \in DOMAIN head : FrameRight(head[i])',
         \A j \in DOMAIN tail : FrameRight(tail[j])',
         \/ Awaits("flush")' /\ Awaits("realize")'
         \/ /\ \A i \in DOMAIN head : Stage(head[i].do) \notin {1, 2}
            /\ \A j \in DOMAIN tail : Stage(tail[j].do) \notin {1, 2}
  PROVE  StackRight'
<1>1. /\ DOMAIN head = 1 .. Len(head) /\ DOMAIN tail = 1 .. Len(tail) /\ Len(head) \in Nat /\ Len(tail) \in Nat
      /\ DOMAIN todo' = 1 .. Len(head) + Len(tail)
      /\ \A k \in DOMAIN todo' :
              \/ k \in DOMAIN head /\ todo'[k] = head[k]
              \/ k > Len(head) /\ k - Len(head) \in DOMAIN tail /\ todo'[k] = tail[k - Len(head)]
  BY FreshFrames
<1>2. ASSUME NEW i \in DOMAIN todo', NEW j \in DOMAIN todo', i < j PROVE Fits(todo'[i], todo'[j])
  <2>1. CASE i \in DOMAIN head /\ todo'[i] = head[i]
    <3>1. CASE j \in DOMAIN head /\ todo'[j] = head[j]
      BY <1>2, <2>1, <3>1
    <3>2. CASE j - Len(head) \in DOMAIN tail /\ todo'[j] = tail[j - Len(head)]
      BY <2>1, <3>2
    <3>. QED BY <1>1, <3>1, <3>2
  <2>2. CASE i > Len(head) /\ i - Len(head) \in DOMAIN tail /\ todo'[i] = tail[i - Len(head)]
    <3>1. j > Len(head) /\ j - Len(head) \in DOMAIN tail /\ todo'[j] = tail[j - Len(head)]
      BY <1>1, <1>2, <2>2
    <3>2. i - Len(head) < j - Len(head)
      BY <1>1, <1>2
    <3>. QED BY <2>2, <3>1, <3>2
  <2>. QED BY <1>1, <2>1, <2>2
<1>3. InOrder'
  BY <1>2 DEF InOrder, Fits
<1>4. FlushAhead'
  BY <1>1 DEF FlushAhead, Stage
<1>5. ASSUME NEW k \in DOMAIN todo' PROVE FrameRight(todo[k])'
  <2>1. PICK f : f = todo'[k]
    OBVIOUS
  <2>2. FrameRight(f)'
    <3>1. CASE k \in DOMAIN head /\ f = head[k]
      BY <3>1
    <3>2. CASE k - Len(head) \in DOMAIN tail /\ f = tail[k - Len(head)]
      BY <3>2
    <3>. QED BY <1>1, <2>1, <3>1, <3>2
  <2>. QED BY <2>1, <2>2
<1>6. (\A k \in DOMAIN todo : FrameRight(todo[k]))'
  BY <1>5
<1>. QED BY <1>3, <1>4, <1>6 DEF StackRight

\* An error drops the stack and the tick, whatever was still to do.
LEMMA AbortStep ==
  ASSUME SpawnerInv, abort, tick' \in 0 .. MaxTick, tick' >= tick, adopted' \in SUBSET Entity
  PROVE  SpawnerInv'
<1>1. /\ phase' = "aborted" /\ todo' = <<>> /\ poisoned' = poisoned /\ life' = life /\ parent' = parent
      /\ commands' = commands /\ pending' = pending /\ lingers' = lingers /\ last_prepared' = last_prepared
      /\ queued_reaps' = queued_reaps /\ promised' = promised /\ seat' = seat /\ machine' = machine
  BY DEF abort, worldVars, queueVars, hostVars
<1>2. SpawnerTypes'
  BY <1>1, SpawnerBoundsAssumption DEF SpawnerInv, SpawnerTypes, Never
<1>3. StackRight' /\ (\A do : ~Awaits(do)') /\ \A do, e : ~Waiting(do, e)'
  BY <1>1, EmptyStack
<1>4. PhaseRight'
  BY <1>1, <1>3 DEF PhaseRight
<1>5. PromisesRight'
  <2>1. \A k \in DOMAIN queued_reaps : promised[queued_reaps[k].ref] <= tick'
    <3>. SUFFICES ASSUME NEW k \in DOMAIN queued_reaps PROVE promised[queued_reaps[k].ref] <= tick'
      OBVIOUS
    <3>1. PICK x \in Entity : x = queued_reaps[k].ref
      BY Typed DEF SpawnerInv
    <3>2. promised[x] <= tick /\ promised[x] \in Nat /\ tick \in Nat /\ tick' \in Nat
      BY <3>1, Typed, SpawnerBoundsAssumption DEF SpawnerInv, PromisesRight
    <3>. QED BY <3>1, <3>2
  <2>. QED BY <1>1, <2>1 DEF SpawnerInv, PromisesRight, Live
<1>6. BirthsRight'
  BY <1>1, <1>3 DEF SpawnerInv, BirthsRight
<1>. QED BY <1>2, <1>3, <1>4, <1>5, <1>6 DEF SpawnerInv

\* A tick opens, or its first marker fails.
LEMMA BeginStep ==
  ASSUME SpawnerInv, begin_tick
  PROVE  SpawnerInv'
<1>1. phase = "between" /\ tick' = tick + 1 /\ tick \in Nat /\ tick' \in 0 .. MaxTick /\ last_prepared \in 0 .. tick
  BY SpawnerBoundsAssumption DEF begin_tick, SpawnerInv, SpawnerTypes
<1>2. CASE poisoned
  <2>1. abort /\ adopted' = adopted /\ adopted \in SUBSET Entity
    BY <1>2 DEF begin_tick, SpawnerInv, SpawnerTypes
  <2>. QED BY <1>1, <2>1, AbortStep
<1>3. CASE ~poisoned
  <2>1. /\ phase' = "open" /\ todo' = todo /\ poisoned' = poisoned /\ life' = life /\ parent' = parent /\ adopted' = adopted
        /\ commands' = commands /\ pending' = pending /\ lingers' = lingers /\ last_prepared' = last_prepared
        /\ queued_reaps' = queued_reaps /\ promised' = promised /\ seat' = seat /\ machine' = machine
    BY <1>3 DEF begin_tick, worldVars, queueVars, hostVars
  <2>2. todo = <<>> /\ tick = last_prepared
    BY <1>1 DEF SpawnerInv, PhaseRight
  <2>3. SpawnerTypes'
    BY <1>1, <2>1 DEF SpawnerInv, SpawnerTypes, Never
  <2>4. StackRight' /\ (\A do : ~Awaits(do)' /\ ~Awaits(do)) /\ \A do, e : ~Waiting(do, e)' /\ ~Waiting(do, e)
    BY <2>1, <2>2, EmptyStack
  <2>5. PhaseRight'
    BY <1>1, <2>1, <2>2, <2>4 DEF SpawnerInv, PhaseRight
  <2>6. PromisesRight'
    <3>1. \A k \in DOMAIN queued_reaps : FALSE
      BY <1>1, <2>4, Typed DEF SpawnerInv, PhaseRight
    <3>. QED BY <1>1, <2>1, <2>4, <3>1 DEF SpawnerInv, PromisesRight, Live
  <2>7. BirthsRight'
    BY <2>1, <2>4 DEF SpawnerInv, BirthsRight
  <2>. QED BY <2>3, <2>4, <2>5, <2>6, <2>7 DEF SpawnerInv
<1>. QED BY <1>2, <1>3

\* A tick ends, or its last marker fails.
LEMMA EndStep ==
  ASSUME SpawnerInv, end_tick
  PROVE  SpawnerInv'
<1>1. /\ phase = "structural" /\ phase' \in {"aborted", "between"} /\ todo = <<>> /\ todo' = todo
      /\ tick' = tick /\ poisoned' = poisoned /\ life' = life /\ parent' = parent /\ adopted' = adopted
      /\ commands' = commands /\ pending' = pending /\ lingers' = lingers /\ last_prepared' = last_prepared
      /\ queued_reaps' = queued_reaps /\ promised' = promised /\ seat' = seat /\ machine' = machine
  BY DEF end_tick, worldVars, queueVars, hostVars
<1>2. SpawnerTypes'
  BY <1>1 DEF SpawnerInv, SpawnerTypes, Never
<1>3. StackRight' /\ (\A do : ~Awaits(do)' /\ ~Awaits(do)) /\ \A do, e : ~Waiting(do, e)' /\ ~Waiting(do, e)
  BY <1>1, EmptyStack
<1>4. PhaseRight'
  BY <1>1, <1>3 DEF SpawnerInv, PhaseRight
<1>5. PromisesRight'
  BY <1>1, <1>3 DEF SpawnerInv, PromisesRight, Live
<1>6. BirthsRight'
  BY <1>1, <1>3 DEF SpawnerInv, BirthsRight
<1>. QED BY <1>2, <1>3, <1>4, <1>5, <1>6 DEF SpawnerInv

\* The scene stands: nothing is left of its entry.
LEMMA StandStep ==
  ASSUME SpawnerInv, scene_stands
  PROVE  SpawnerInv'
<1>1. /\ phase' = "between" /\ todo' = <<>> /\ todo # <<>> /\ Top.do = "scene_stands"
      /\ tick' = tick /\ poisoned' = poisoned /\ life' = life /\ parent' = parent /\ adopted' = adopted
      /\ commands' = commands /\ pending' = pending /\ lingers' = lingers /\ last_prepared' = last_prepared
      /\ queued_reaps' = queued_reaps /\ promised' = promised /\ seat' = seat /\ machine' = machine
  BY DEF scene_stands, Doing, worldVars, queueVars, hostVars
<1>2. SpawnerTypes'
  BY <1>1 DEF SpawnerInv, SpawnerTypes, Never
<1>3. StackRight' /\ (\A do : ~Awaits(do)') /\ \A do, e : ~Waiting(do, e)'
  BY <1>1, EmptyStack
<1>4. Awaits("scene_stands") /\ ~Awaits("flush") /\ ~Awaits("realize") /\ ~Awaits("drain")
  <2>1. \A do : Awaits(do) <=> Top.do = do \/ AwaitsBehind(do)
    BY <1>1, TopFacts DEF SpawnerInv
  <2>2. \A do \in {"hook", "flush", "realize", "drain"} : ~AwaitsBehind(do)
    BY <1>1, Beneath DEF SpawnerInv
  <2>. QED BY <1>1, <2>1, <2>2
<1>5. phase = "boot"
  BY <1>1, <1>4 DEF SpawnerInv, PhaseRight, SpawnerTypes
<1>6. PhaseRight'
  BY <1>1, <1>3, <1>4, <1>5 DEF SpawnerInv, PhaseRight
<1>7. PromisesRight'
  BY <1>1, <1>3, <1>4, <1>5 DEF SpawnerInv, PromisesRight, Live
<1>8. BirthsRight'
  BY <1>1, <1>3 DEF SpawnerInv, BirthsRight
<1>. QED BY <1>2, <1>3, <1>6, <1>7, <1>8 DEF SpawnerInv

\* A frame, with its fields.
LEMMA FrameFacts ==
  ASSUME NEW do \in Op, NEW e \in Entity \cup {None}
  PROVE  Frame(do, e) \in FrameType /\ Frame(do, e).do = do /\ Frame(do, e).who = e
BY DEF Frame, FrameType

\* The scene is spawned, alive and seated at once, and enters.
LEMMA SceneStep ==
  ASSUME SpawnerInv, NEW scene \in SUBSET Root, spawn_scene(scene)
  PROVE  SpawnerInv'
<1> DEFINE kids == UNION {Children(r) : r \in scene}
<1>1. /\ phase = "boot" /\ todo = <<>>
      /\ life' = [e \in Entity |-> IF e \in scene \cup kids THEN "alive" ELSE "free"]
      /\ parent' = [e \in Entity |-> IF e \in kids THEN ChildOf[e] ELSE None]
      /\ seat' = [e \in Entity |-> IF e \in scene \cup kids THEN "seated" ELSE "none"]
      /\ machine' = [r \in Root |-> IF r \in scene \cap Machined THEN "seated" ELSE "none"]
      /\ tick' = tick /\ phase' = phase /\ poisoned' = poisoned /\ commands' = commands
      /\ pending' = pending /\ lingers' = lingers /\ last_prepared' = last_prepared
      /\ queued_reaps' = queued_reaps /\ promised' = promised
  BY DEF spawn_scene, clockVars, queueVars
<1>2. PICK order \in SetToSeqs(scene \cap Machined) :
        todo' = [k \in DOMAIN order |-> Frame("enter", order[k])] \o <<Frame("scene_stands", None)>>
  BY DEF spawn_scene
<1>3. kids \subseteq Child /\ \A c \in Child : c \in kids <=> ChildOf[c] \in scene
  BY DEF Children
<1>4. Untouched /\ tick = last_prepared
  <2>1. ~Awaits("scene_stands")
    BY <1>1, EmptyStack
  <2>. QED BY <1>1, <2>1 DEF SpawnerInv, PhaseRight
<1>. HIDE DEF kids
<1> DEFINE head == [k \in DOMAIN order |-> Frame("enter", order[k])]
           tail == <<Frame("scene_stands", None)>>
<1>5. Cardinality(scene \cap Machined) \in Nat
  <2>1. IsFiniteSet(Root \cup Child) /\ scene \cap Machined \in SUBSET (Root \cup Child)
    BY PrefabAssumption
  <2>. QED BY <2>1, FS_Subset, FS_CardinalityType
<1>6. DOMAIN order = 1 .. Cardinality(scene \cap Machined) /\ \A k \in DOMAIN order : order[k] \in Root
  BY <1>2 DEF SetToSeqs
<1>7. /\ \A k \in DOMAIN order : head[k] \in FrameType /\ head[k].do = "enter" /\ head[k].who \in Root
      /\ DOMAIN head = DOMAIN order
  <2>1. \A e \in Root : Frame("enter", e) \in FrameType /\ Frame("enter", e).do = "enter" /\ Frame("enter", e).who = e
    <3>1. "enter" \in Op /\ \A e \in Root : e \in Entity \cup {None}
      BY DEF Op, Entity
    <3>. QED BY <3>1, FrameFacts
  <2>2. DOMAIN head = DOMAIN order /\ \A k \in DOMAIN order : head[k] = Frame("enter", order[k])
    OBVIOUS
  <2>. HIDE DEF head
  <2>3. ASSUME NEW k \in DOMAIN order PROVE head[k] \in FrameType /\ head[k].do = "enter" /\ head[k].who \in Root
    <3>1. PICK e \in Root : e = order[k]
      BY <1>6
    <3>2. head[k] = Frame("enter", e)
      BY <2>2, <3>1
    <3>3. Frame("enter", e) \in FrameType /\ Frame("enter", e).do = "enter" /\ Frame("enter", e).who = e
      BY <2>1
    <3>. QED BY <3>2, <3>3
  <2>. QED BY <2>2, <2>3
<1>8. head \in Seq(FrameType)
  <2>0. PICK n \in Nat : n = Cardinality(scene \cap Machined)
    BY <1>5
  <2>1. head = [k \in 1 .. n |-> head[k]]
    BY <1>6, <2>0
  <2>. HIDE DEF head
  <2>2. head \in [1 .. n -> FrameType]
    BY <1>6, <1>7, <2>0, <2>1
  <2>. QED BY <2>0, <2>2, ListIn
<1>9. tail \in Seq(FrameType) /\ DOMAIN tail = {1} /\ tail[1].do = "scene_stands"
  <2>1. Frame("scene_stands", None) \in FrameType /\ Frame("scene_stands", None).do = "scene_stands"
    BY FrameFacts DEF Op
  <2>. QED BY <2>1
<1>10. todo' = head \o tail
  BY <1>2
<1>. HIDE DEF head, tail
<1>11. /\ todo' \in Seq(FrameType)
       /\ \A k \in DOMAIN todo' : todo'[k].do \in {"enter", "scene_stands"}
       /\ \A do : Awaits(do)' <=> \/ \E k \in DOMAIN head : head[k].do = do
                                  \/ \E k \in DOMAIN tail : tail[k].do = do
       /\ \A do, e : Waiting(do, e)' => Awaits(do)'
  <2>1. \A do, e : Waiting(do, e)' => Awaits(do)'
    BY DEF Waiting, Awaits
  <2>2. /\ todo' \in Seq(FrameType)
        /\ \A k \in DOMAIN todo' :
             \/ k \in DOMAIN head /\ todo'[k] = head[k]
             \/ k > Len(head) /\ k - Len(head) \in DOMAIN tail /\ todo'[k] = tail[k - Len(head)]
        /\ \A do : Awaits(do)' <=> \/ \E k \in DOMAIN head : head[k].do = do
                                   \/ \E k \in DOMAIN tail : tail[k].do = do
    <3>1. head \in Seq(FrameType) /\ tail \in Seq(FrameType) /\ todo' = head \o tail
      BY <1>8, <1>9, <1>10
    <3>. QED BY <3>1, FreshFrames, FreshWaits
  <2>3. \A k \in DOMAIN todo' : todo'[k].do \in {"enter", "scene_stands"}
    BY <1>7, <1>9, <2>2
  <2>. QED BY <2>1, <2>2, <2>3
<1>12. Awaits("scene_stands")' /\ ~Awaits("build")' /\ ~Awaits("flush")' /\ SceneEnters'
  BY <1>7, <1>9, <1>11 DEF SceneEnters
<1>13. SpawnerTypes'
  <2>1. parent' \in [Entity -> Root \cup {None}]
    BY <1>1, <1>3, PrefabAssumption
  <2>2. adopted' \in SUBSET Entity
    <3>1. adopted' = scene \cup kids
      BY DEF spawn_scene, kids
    <3>. QED BY <1>3, <3>1 DEF Entity
  <2>. QED BY <1>1, <1>11, <2>1, <2>2 DEF SpawnerInv, SpawnerTypes, Never
<1>14. StackRight'
  <2>1. \A f : f.do = "enter" /\ f.who \in Root => FrameRight(f)'
    BY DEF FrameRight, Entity
  <2>2. \A f : f.do = "scene_stands" => FrameRight(f)'
    BY DEF FrameRight
  <2>3. \A f, g : f.do = "enter" /\ g.do \in {"enter", "scene_stands"} => Fits(f, g)
    BY DEF Fits, Stage
  <2>4. \A f : f.do \in {"enter", "scene_stands"} => Stage(f.do) \notin {1, 2}
    BY DEF Stage
  <2>5. \A i \in DOMAIN head : FrameRight(head[i])' /\ Stage(head[i].do) \notin {1, 2}
    BY <1>7, <2>1, <2>4
  <2>6. \A j \in DOMAIN tail : FrameRight(tail[j])' /\ Stage(tail[j].do) \notin {1, 2}
    BY <1>9, <2>2, <2>4
  <2>7. \A i, j \in DOMAIN head : i < j => Fits(head[i], head[j])
    BY <1>7, <2>3
  <2>8. \A i, j \in DOMAIN tail : i < j => Fits(tail[i], tail[j])
    BY <1>9
  <2>9. \A i \in DOMAIN head, j \in DOMAIN tail : Fits(head[i], tail[j])
    BY <1>7, <1>9, <2>3
  <2>. QED BY <1>8, <1>9, <1>10, <2>5, <2>6, <2>7, <2>8, <2>9, FreshStack
<1>15. PhaseRight'
  BY <1>1, <1>4, <1>12 DEF SpawnerInv, PhaseRight, Untouched
<1>16. /\ \A e \in Entity : promised[e] = Never /\ life'[e] \in {"alive", "free"}
       /\ lingers' = <<>> /\ queued_reaps' = <<>> /\ pending' = <<>> /\ commands' = <<>>
       /\ Never > last_prepared /\ Never \in Nat /\ last_prepared \in Nat
  BY <1>1, <1>4, Typed DEF SpawnerInv, Untouched
<1>17. PromisesRight'
  BY <1>1, <1>16 DEF PromisesRight, Live
<1>18. BirthsRight'
  <2>1. ASSUME NEW c \in Child, life'[c] # "free" PROVE life'[ChildOf[c]] # "free"
    <3>1. c \in Entity /\ ChildOf[c] \in Entity /\ c \notin scene
      BY PrefabAssumption DEF Entity
    <3>. QED BY <1>1, <1>3, <2>1, <3>1
  <2>2. \A e : ~Waiting("build", e)'
    BY <1>11, <1>12
  <2>. QED BY <1>1, <1>16, <2>1, <2>2 DEF BirthsRight
<1>. QED BY <1>13, <1>14, <1>15, <1>17, <1>18 DEF SpawnerInv

\* A frame for each entity of a list.
LEMMA EachFrames ==
  ASSUME NEW do \in Op, NEW T \in SUBSET (Entity \cup {None}), NEW list \in Seq(T)
  PROVE  /\ Each(do, list) \in Seq(FrameType) /\ Len(Each(do, list)) = Len(list)
         /\ DOMAIN Each(do, list) = 1 .. Len(list) /\ DOMAIN list = 1 .. Len(list) /\ Len(list) \in Nat
         /\ \A k \in 1 .. Len(list) : Each(do, list)[k].do = do /\ Each(do, list)[k].who = list[k] /\ list[k] \in T
<1>1. PICK n \in Nat : n = Len(list)
  OBVIOUS
<1>2. DOMAIN list = 1 .. n /\ \A k \in 1 .. n : list[k] \in T
  BY <1>1
<1> DEFINE frames == [k \in 1 .. n |-> Frame(do, list[k])]
<1>3. Each(do, list) = frames
  BY <1>2 DEF Each
<1>4. ASSUME NEW k \in 1 .. n PROVE frames[k] \in FrameType /\ frames[k].do = do /\ frames[k].who = list[k]
  <2>1. frames[k] = Frame(do, list[k]) /\ list[k] \in Entity \cup {None}
    BY <1>2
  <2>. HIDE DEF frames
  <2>2. PICK e \in Entity \cup {None} : e = list[k]
    BY <2>1
  <2>. QED BY <2>1, <2>2, FrameFacts
<1>5. frames \in [1 .. n -> FrameType]
  BY <1>4
<1>. HIDE DEF frames
<1>6. frames \in Seq(FrameType) /\ Len(frames) = n /\ DOMAIN frames = 1 .. n
  BY <1>5, ListIn
<1>. QED BY <1>1, <1>2, <1>3, <1>4, <1>6

\* Phase 8 begins: what is due is on the stack, the rest still lingers.
LEMMA ApplyStep ==
  ASSUME SpawnerInv, structural_apply, ~poisoned
  PROVE  /\ SpawnerInv' /\ Awaits("flush")' /\ ~Awaits("build")'
         /\ phase = "open" /\ life' = life /\ seat' = seat /\ pending' = pending
         /\ \A do : Awaits(do)' => do \in {"due", "flush", "realize"}
<1> DEFINE isDue == {k \in DOMAIN lingers : lingers[k].due <= tick}
           due == Kept(lingers, isDue)
           refs == [k \in DOMAIN due |-> due[k].ref]
           dues == [k \in DOMAIN due |-> Frame("due", due[k].ref)]
           tail == <<Frame("flush", None), Frame("realize", None)>>
           rest == DOMAIN lingers \ isDue
           Entry == [ref : Entity, due : Nat]
<1>1. /\ phase = "open" /\ phase' = "structural" /\ last_prepared' = tick
      /\ lingers' = Kept(lingers, rest) /\ todo' = dues \o tail
      /\ tick' = tick /\ poisoned' = poisoned /\ life' = life /\ parent' = parent /\ adopted' = adopted /\ commands' = commands
      /\ pending' = pending /\ queued_reaps' = queued_reaps /\ promised' = promised
      /\ seat' = seat /\ machine' = machine
  BY Zenon DEF structural_apply, worldVars, hostVars
<1>2. todo = <<>> /\ tick = last_prepared + 1 /\ (\A do : ~Awaits(do)) /\ queued_reaps = <<>>
      /\ (\A k \in DOMAIN commands : commands[k].op # "despawn")
  <2>1. todo = <<>> /\ tick = last_prepared + 1
    BY <1>1 DEF SpawnerInv, PhaseRight
  <2>2. \A do : ~Awaits(do)
    BY <2>1, EmptyStack
  <2>. QED BY <1>1, <2>1, <2>2 DEF SpawnerInv, PhaseRight
<1>3. /\ lingers \in Seq(Entry) /\ DOMAIN lingers = 1 .. Len(lingers) /\ Len(lingers) \in Nat
      /\ (\A k \in DOMAIN lingers : /\ lingers[k] \in Entry /\ lingers[k].ref \in Entity /\ lingers[k].due \in Nat
                                    /\ promised[lingers[k].ref] <= lingers[k].due /\ life[lingers[k].ref] # "free")
      /\ (\A e \in Entity : promised[e] \in Nat) /\ tick \in Nat /\ last_prepared \in Nat
  BY Typed DEF SpawnerInv, SpawnerTypes, PromisesRight
<1>4. isDue \in SUBSET DOMAIN lingers /\ rest \in SUBSET DOMAIN lingers
      /\ (\A k \in isDue : lingers[k].due <= tick) /\ (\A k \in DOMAIN lingers : k \in isDue \/ k \in rest)
      /\ (\A k \in DOMAIN lingers : ~(lingers[k].due <= tick) => k \in rest)
      /\ (\A k \in DOMAIN lingers : lingers[k].due <= tick => k \in isDue)
  OBVIOUS
<1>. HIDE DEF isDue, rest, Entry
<1>5. /\ due \in Seq(Entry) /\ Len(due) \in Nat /\ DOMAIN due = 1 .. Len(due)
      /\ (\A n \in DOMAIN due : \E k \in isDue : due[n] = lingers[k])
      /\ (\A k \in isDue : \E n \in DOMAIN due : due[n] = lingers[k])
  <2>1. /\ due \in Seq(Entry) /\ Len(due) = Cardinality(isDue)
        /\ \A n \in 1 .. Cardinality(isDue) : Nth(isDue, n) \in isDue /\ due[n] = lingers[Nth(isDue, n)]
        /\ \A p \in isDue : \E n \in 1 .. Cardinality(isDue) : Nth(isDue, n) = p
    BY <1>3, <1>4, KeptFacts
  <2>. HIDE DEF due
  <2>. QED BY <2>1
<1>6. /\ lingers' \in Seq(Entry) /\ Len(lingers') \in Nat /\ DOMAIN lingers' = 1 .. Len(lingers')
      /\ (\A n \in DOMAIN lingers' : \E k \in rest : lingers'[n] = lingers[k])
      /\ (\A k \in rest : \E n \in DOMAIN lingers' : lingers'[n] = lingers[k])
  <2> DEFINE left == Kept(lingers, rest)
  <2>1. /\ left \in Seq(Entry) /\ Len(left) = Cardinality(rest)
        /\ \A n \in 1 .. Cardinality(rest) : Nth(rest, n) \in rest /\ left[n] = lingers[Nth(rest, n)]
        /\ \A p \in rest : \E n \in 1 .. Cardinality(rest) : Nth(rest, n) = p
    BY <1>3, <1>4, KeptFacts
  <2>2. lingers' = left
    BY <1>1
  <2>. HIDE DEF left
  <2>3. /\ Len(left) \in Nat /\ DOMAIN left = 1 .. Len(left)
        /\ (\A n \in DOMAIN left : \E k \in rest : left[n] = lingers[k])
        /\ (\A k \in rest : \E n \in DOMAIN left : left[n] = lingers[k])
    BY <2>1
  <2>. QED BY <2>1, <2>2, <2>3, Zenon
<1>. HIDE DEF due
<1>20. /\ dues \in Seq(FrameType) /\ DOMAIN dues = DOMAIN due
      /\ \A k \in DOMAIN due : dues[k].do = "due" /\ dues[k].who = due[k].ref /\ due[k].ref \in Entity
  <2>1. DOMAIN refs = DOMAIN due /\ (\A k \in DOMAIN due : refs[k] = due[k].ref /\ due[k].ref \in Entity)
    BY <1>3, <1>4, <1>5
  <2>2. refs \in Seq(Entity) /\ Len(refs) = Len(due)
    <3>1. PICK n \in Nat : n = Len(due)
      BY <1>5
    <3>2. refs \in [1 .. n -> Entity]
      BY <1>5, <2>1, <3>1
    <3>. HIDE DEF refs
    <3>. QED BY <3>1, <3>2, ListIn
  <2>3. dues = Each("due", refs)
    BY DEF Each
  <2>4. Entity \in SUBSET (Entity \cup {None}) /\ "due" \in Op
    BY DEF Op
  <2>. HIDE DEF refs, dues
  <2>5. /\ dues \in Seq(FrameType) /\ DOMAIN dues = 1 .. Len(refs)
        /\ \A k \in 1 .. Len(refs) : dues[k].do = "due" /\ dues[k].who = refs[k]
    BY <2>2, <2>3, <2>4, EachFrames
  <2>. QED BY <1>5, <2>1, <2>2, <2>5
<1>. HIDE DEF dues
<1>21. PICK head : head = dues
  OBVIOUS
<1>7. /\ head \in Seq(FrameType) /\ DOMAIN head = DOMAIN due
      /\ \A k \in DOMAIN due : head[k].do = "due" /\ head[k].who = due[k].ref /\ due[k].ref \in Entity
  BY <1>20, <1>21
<1>22. todo' = head \o tail
  BY <1>1, <1>21
<1>8. /\ tail \in Seq(FrameType) /\ DOMAIN tail = {1, 2} /\ tail[1].do = "flush" /\ tail[2].do = "realize"
  <2>1. "flush" \in Op /\ "realize" \in Op /\ None \in Entity \cup {None}
    BY DEF Op
  <2>2. PICK f \in FrameType, g \in FrameType : f = Frame("flush", None) /\ g = Frame("realize", None)
                                                /\ f.do = "flush" /\ g.do = "realize"
    BY <2>1, FrameFacts
  <2>. QED BY <2>2
<1>. HIDE DEF tail
<1>9. /\ todo' \in Seq(FrameType)
      /\ (\A do, e : Waiting(do, e)' <=> \/ \E k \in DOMAIN head : head[k].do = do /\ head[k].who = e
                                         \/ \E k \in DOMAIN tail : tail[k].do = do /\ tail[k].who = e)
      /\ (\A do : Awaits(do)' <=> \/ \E k \in DOMAIN head : head[k].do = do
                                  \/ \E k \in DOMAIN tail : tail[k].do = do)
  <2>1. head \in Seq(FrameType) /\ tail \in Seq(FrameType) /\ todo' = head \o tail
    BY <1>22, <1>7, <1>8
  <2>. QED BY <2>1, FreshWaits
<1>10. /\ Awaits("flush")' /\ Awaits("realize")' /\ ~Awaits("scene_stands")' /\ ~Awaits("build")'
       /\ (\A e : ~Waiting("build", e)')
       /\ \A e \in Entity, k \in isDue : lingers[k].ref = e => Waiting("due", e)'
  <2>1. ASSUME NEW e \in Entity, NEW k \in isDue, lingers[k].ref = e PROVE Waiting("due", e)'
    <3>1. PICK n \in DOMAIN due : due[n] = lingers[k]
      BY <1>5
    <3>. QED BY <1>7, <1>9, <2>1, <3>1
  <2>. QED BY <1>7, <1>8, <1>9, <2>1
<1>11. SpawnerTypes'
  <2>1. lingers' \in Seq([ref : Entity, due : Nat])
    BY <1>6 DEF Entry
  <2>2. last_prepared' \in 0 .. tick'
    BY <1>1, <1>3
  <2>. QED BY <1>1, <1>9, <2>1, <2>2 DEF SpawnerInv, SpawnerTypes, Never
<1>12. ASSUME NEW k \in DOMAIN due
       PROVE  due[k].ref \in Entity /\ promised[due[k].ref] <= tick /\ life[due[k].ref] # "free"
  <2>1. PICK l \in isDue : due[k] = lingers[l]
    BY <1>5
  <2>2. PICK e \in Entity, d \in Nat : e = lingers[l].ref /\ d = lingers[l].due
    BY <1>3, <1>4
  <2>3. promised[e] <= d /\ d <= tick /\ promised[e] \in Nat /\ life[e] # "free"
    BY <1>3, <1>4, <2>2
  <2>. QED BY <1>3, <2>1, <2>2, <2>3
<1>13. StackRight'
  <2>1. ASSUME NEW i \in DOMAIN head PROVE FrameRight(head[i])' /\ head[i].do = "due"
    <3>1. PICK f : f = head[i]
      OBVIOUS
    <3>2. f.do = "due" /\ f.who \in Entity /\ promised[f.who] <= tick /\ life[f.who] # "free"
      BY <1>7, <1>12, <3>1
    <3>3. FrameRight(f)'
      BY <1>1, <3>2 DEF FrameRight
    <3>. QED BY <3>1, <3>2, <3>3
  <2>2. ASSUME NEW j \in DOMAIN tail PROVE FrameRight(tail[j])' /\ tail[j].do \in {"flush", "realize"}
    <3>1. PICK f : f = tail[j]
      OBVIOUS
    <3>2. f.do \in {"flush", "realize"}
      BY <1>8, <3>1
    <3>3. FrameRight(f)'
      BY <3>2 DEF FrameRight
    <3>. QED BY <3>1, <3>2, <3>3
  <2>3. \A f, g : f.do = "due" /\ g.do \in {"due", "flush", "realize"} => Fits(f, g)
    BY DEF Fits, Stage
  <2>4. \A f, g : f.do = "flush" /\ g.do = "realize" => Fits(f, g)
    BY DEF Fits, Stage
  <2>5. \A i, j \in DOMAIN head : i < j => Fits(head[i], head[j])
    BY <2>1, <2>3
  <2>6. \A i, j \in DOMAIN tail : i < j => Fits(tail[i], tail[j])
    BY <1>8, <2>4
  <2>7. \A i \in DOMAIN head, j \in DOMAIN tail : Fits(head[i], tail[j])
    BY <2>1, <2>2, <2>3
  <2>. QED BY <1>22, <1>7, <1>8, <1>10, <2>1, <2>2, <2>5, <2>6, <2>7, FreshStack
<1>14. PhaseRight'
  BY <1>1, <1>10 DEF PhaseRight
<1>15. PromisesRight'
  <2>1. ASSUME NEW n \in DOMAIN lingers'
        PROVE  promised'[lingers'[n].ref] <= lingers'[n].due /\ life'[lingers'[n].ref] # "free"
    <3>1. PICK k \in rest : lingers'[n] = lingers[k]
      BY <1>6
    <3>. QED BY <1>1, <1>3, <1>4, <3>1
  <2>2. ASSUME NEW e \in Entity, Live(e), promised[e] > tick, promised[e] # Never
        PROVE  \E n \in DOMAIN lingers' : lingers'[n].ref = e /\ lingers'[n].due <= promised[e]
    <3>1. promised[e] > last_prepared
      BY <1>2, <1>3, <2>2
    <3>2. PICK k \in DOMAIN lingers : lingers[k].ref = e /\ lingers[k].due <= promised[e]
      BY <2>2, <3>1 DEF SpawnerInv, PromisesRight
    <3>3. promised[e] <= lingers[k].due /\ lingers[k].due \in Nat
      BY <1>3, <3>2
    <3>4. ~(lingers[k].due <= tick)
      BY <1>3, <2>2, <3>3
    <3>5. PICK n \in DOMAIN lingers' : lingers'[n] = lingers[k]
      BY <1>4, <1>6, <3>4
    <3>. QED BY <3>2, <3>5
  <2>3. ASSUME NEW e \in Entity, Live(e), promised[e] <= tick
        PROVE  Waiting("due", e)'
    <3>1. ~(promised[e] <= last_prepared)
      BY <1>1, <1>2, <2>3 DEF SpawnerInv, PromisesRight
    <3>2. promised[e] > last_prepared /\ promised[e] # Never
      BY <1>3, <2>3, <3>1, Typed DEF SpawnerInv
    <3>3. PICK k \in DOMAIN lingers : lingers[k].ref = e /\ lingers[k].due <= promised[e]
      BY <2>3, <3>2 DEF SpawnerInv, PromisesRight
    <3>4. lingers[k].due <= tick
      BY <1>3, <2>3, <3>3
    <3>. QED BY <1>4, <1>10, <3>3, <3>4
  <2>4. \A e \in Entity : Live(e)' <=> Live(e)
    BY <1>1 DEF Live
  <2>5. \A k \in DOMAIN queued_reaps : promised[queued_reaps[k].ref] <= tick
    BY DEF SpawnerInv, PromisesRight
  <2>. QED BY <1>1, <1>10, <2>1, <2>2, <2>3, <2>4, <2>5 DEF PromisesRight, Never
<1>16. BirthsRight'
  BY <1>1, <1>10 DEF SpawnerInv, BirthsRight
<1>17. \A do : Awaits(do)' => do \in {"due", "flush", "realize"}
  BY <1>7, <1>8, <1>9
<1>. QED BY <1>1, <1>10, <1>11, <1>13, <1>14, <1>15, <1>16, <1>17 DEF SpawnerInv

\* Once the flush has happened no live entity has an overdue promise.
LEMMA NoneOverdue ==
  ASSUME SpawnerInv, phase # "aborted", ~Awaits("flush")
  PROVE  /\ \A e \in Entity : Live(e) => promised[e] > last_prepared
         /\ \A k \in DOMAIN commands : commands[k].op # "despawn"
<1>1. \A e \in Entity : Live(e) => ~(promised[e] <= last_prepared)
  BY DEF SpawnerInv, PromisesRight
<1>2. last_prepared \in Nat /\ \A e \in Entity : promised[e] \in Nat
  BY Typed DEF SpawnerInv
<1>3. \A k \in DOMAIN commands : commands[k].op # "despawn"
  BY DEF SpawnerInv, PhaseRight
<1>. QED BY <1>1, <1>2, <1>3

\* Frames of phase 8 beyond prepare.
LEMMA InPhase8 ==
  ASSUME SpawnerInv, todo # <<>>, Top.do \in {"due", "remove", "flush", "realize", "bury", "drain", "build", "announce", "settle"}
  PROVE  phase = "structural"
<1>1. 1 \in DOMAIN todo /\ Top = todo[1]
  BY TopFacts DEF SpawnerInv
<1>2. ~SceneEnters
  BY <1>1 DEF SceneEnters
<1>. QED BY <1>2 DEF SpawnerInv, PhaseRight, SpawnerTypes

\* A build is that of a root.
LEMMA BuildTop ==
  ASSUME SpawnerInv, todo # <<>>, Top.do = "build"
  PROVE  Top.who \in Root
<1>1. 1 \in DOMAIN todo /\ Top = todo[1]
  BY TopFacts DEF SpawnerInv
<1>. QED BY <1>1 DEF SpawnerInv, StackRight, FrameRight

\* What prepare queued is to be buried, then the pending list is swapped.
LEMMA RealizeStep ==
  ASSUME SpawnerInv, realize
  PROVE  /\ SpawnerInv' /\ phase = "structural" /\ Awaits("realize") /\ ~Awaits("flush")
         /\ ~Awaits("build")' /\ ~Awaits("hook")'
         /\ life' = life /\ seat' = seat /\ pending' = pending
<1> DEFINE buries == [k \in DOMAIN queued_reaps |->
                        [do |-> "bury", who |-> queued_reaps[k].ref, subtree |-> queued_reaps[k].subtree]]
           tail == <<Frame("drain", None)>>
<1>1. /\ todo # <<>> /\ Top.do = "realize" /\ todo' = buries \o tail
      /\ tick' = tick /\ phase' = phase /\ poisoned' = poisoned /\ life' = life /\ parent' = parent /\ adopted' = adopted
      /\ commands' = commands /\ pending' = pending /\ lingers' = lingers /\ last_prepared' = last_prepared
      /\ queued_reaps' = queued_reaps /\ promised' = promised /\ seat' = seat /\ machine' = machine
  BY DEF realize, Doing, clockVars, worldVars, queueVars, hostVars
<1>2. /\ Len(queued_reaps) \in Nat /\ DOMAIN queued_reaps = 1 .. Len(queued_reaps)
      /\ \A k \in DOMAIN queued_reaps : queued_reaps[k].ref \in Entity /\ queued_reaps[k].subtree \in Seq(Entity)
  BY Typed DEF SpawnerInv
<1>3. PICK head : head = buries
  OBVIOUS
<1>4. /\ head \in Seq(FrameType) /\ DOMAIN head = DOMAIN queued_reaps
      /\ \A k \in DOMAIN head : head[k].do = "bury" /\ head[k].who \in Entity
  <2>1. PICK n \in Nat : n = Len(queued_reaps)
    BY <1>2
  <2>2. \A k \in 1 .. n : buries[k] \in FrameType /\ buries[k].do = "bury" /\ buries[k].who \in Entity
    BY <1>2, <2>1 DEF FrameType, Op
  <2>3. buries \in [1 .. n -> FrameType] /\ DOMAIN buries = 1 .. n
    BY <1>2, <2>1, <2>2
  <2>. HIDE DEF buries
  <2>4. buries \in Seq(FrameType)
    BY <2>3, ListIn
  <2>. QED BY <1>2, <1>3, <2>1, <2>2, <2>3, <2>4
<1>. HIDE DEF buries
<1>5. tail \in Seq(FrameType) /\ DOMAIN tail = {1} /\ tail[1].do = "drain"
  <2>1. Frame("drain", None) \in FrameType /\ Frame("drain", None).do = "drain"
    BY FrameFacts DEF Op
  <2>. QED BY <2>1
<1>. HIDE DEF tail
<1>6. todo' = head \o tail
  BY <1>1, <1>3
<1>7. /\ todo' \in Seq(FrameType)
      /\ (\A do, e : Waiting(do, e)' <=> \/ \E k \in DOMAIN head : head[k].do = do /\ head[k].who = e
                                         \/ \E k \in DOMAIN tail : tail[k].do = do /\ tail[k].who = e)
      /\ (\A do : Awaits(do)' <=> \/ \E k \in DOMAIN head : head[k].do = do
                                  \/ \E k \in DOMAIN tail : tail[k].do = do)
  <2>1. head \in Seq(FrameType) /\ tail \in Seq(FrameType) /\ todo' = head \o tail
    BY <1>4, <1>5, <1>6
  <2>. QED BY <2>1, FreshWaits
<1>8. /\ Awaits("drain")' /\ ~Awaits("scene_stands")' /\ ~Awaits("flush")' /\ \A e : ~Waiting("build", e)'
      /\ ~Awaits("build")' /\ ~Awaits("hook")'
  BY <1>4, <1>5, <1>7
<1>9. phase = "structural" /\ ~Awaits("flush") /\ Awaits("realize")
  <2>1. ~AwaitsBehind("flush")
    BY <1>1, Beneath DEF SpawnerInv
  <2>. QED BY <1>1, <2>1, InPhase8, TopFacts DEF SpawnerInv
<1>10. SpawnerTypes'
  BY <1>1, <1>7 DEF SpawnerInv, SpawnerTypes, Never
<1>11. StackRight'
  <2>1. \A f : f.do = "bury" /\ f.who \in Entity => FrameRight(f)'
    BY DEF FrameRight
  <2>2. \A f : f.do = "drain" => FrameRight(f)'
    BY DEF FrameRight
  <2>3. \A f, g : f.do = "bury" /\ g.do \in {"bury", "drain"} => Fits(f, g)
    BY DEF Fits, Stage
  <2>4. \A f : f.do \in {"bury", "drain"} => Stage(f.do) \notin {1, 2}
    BY DEF Stage
  <2>5. \A i \in DOMAIN head : FrameRight(head[i])' /\ Stage(head[i].do) \notin {1, 2}
    BY <1>4, <2>1, <2>4
  <2>6. \A j \in DOMAIN tail : FrameRight(tail[j])' /\ Stage(tail[j].do) \notin {1, 2}
    BY <1>5, <2>2, <2>4 DEF tail
  <2>7. \A i, j \in DOMAIN head : i < j => Fits(head[i], head[j])
    BY <1>4, <2>3
  <2>8. \A i, j \in DOMAIN tail : i < j => Fits(tail[i], tail[j])
    BY <1>5
  <2>9. \A i \in DOMAIN head, j \in DOMAIN tail : Fits(head[i], tail[j])
    BY <1>4, <1>5, <2>3
  <2>. QED BY <1>4, <1>5, <1>6, <2>5, <2>6, <2>7, <2>8, <2>9, FreshStack
<1>12. PhaseRight'
  BY <1>1, <1>8, <1>9 DEF SpawnerInv, PhaseRight
<1>13. PromisesRight'
  <2>1. \A e \in Entity : Live(e) => ~(promised[e] <= last_prepared)
    BY <1>9, NoneOverdue DEF SpawnerInv, PromisesRight
  <2>. QED BY <1>1, <2>1 DEF SpawnerInv, PromisesRight, Live
<1>14. BirthsRight'
  BY <1>1, <1>8 DEF SpawnerInv, BirthsRight
<1>. QED BY <1>1, <1>8, <1>9, <1>10, <1>11, <1>12, <1>13, <1>14 DEF SpawnerInv

\* The swap: every pending spawn has its frame, once.
LEMMA DrainStep ==
  ASSUME SpawnerInv, drain
  PROVE  /\ SpawnerInv' /\ phase = "structural" /\ Awaits("drain") /\ ~Awaits("flush")
         /\ ~Awaits("realize")' /\ ~Awaits("drain")'
         /\ \A e : (\E k \in DOMAIN pending : pending[k] = e) => Waiting("build", e)'
         /\ life' = life /\ seat' = seat
<1> DEFINE builds == Each("build", pending)
           tail == <<Frame("settle", None)>>
<1>1. /\ todo # <<>> /\ Top.do = "drain" /\ todo' = builds \o tail
      /\ pending' = <<>> /\ queued_reaps' = <<>>
      /\ tick' = tick /\ phase' = phase /\ poisoned' = poisoned /\ life' = life /\ parent' = parent /\ adopted' = adopted
      /\ commands' = commands /\ lingers' = lingers /\ last_prepared' = last_prepared
      /\ promised' = promised /\ seat' = seat /\ machine' = machine
  BY DEF drain, Doing, clockVars, worldVars, hostVars
<1>2. /\ pending \in Seq(Root) /\ Len(pending) \in Nat /\ DOMAIN pending = 1 .. Len(pending)
      /\ \A k \in DOMAIN pending : pending[k] \in Root /\ pending[k] \in Entity /\ life[pending[k]] # "free"
  BY Typed DEF SpawnerInv, SpawnerTypes, BirthsRight
<1>3. PICK head : head = builds
  OBVIOUS
<1>4. /\ head \in Seq(FrameType) /\ DOMAIN head = DOMAIN pending
      /\ \A k \in DOMAIN head : head[k].do = "build" /\ head[k].who = pending[k]
  <2>1. Root \in SUBSET (Entity \cup {None}) /\ "build" \in Op
    BY DEF Op, Entity
  <2>. QED BY <1>2, <1>3, <2>1, EachFrames
<1>. HIDE DEF builds
<1>5. tail \in Seq(FrameType) /\ DOMAIN tail = {1} /\ tail[1].do = "settle"
  <2>1. Frame("settle", None) \in FrameType /\ Frame("settle", None).do = "settle"
    BY FrameFacts DEF Op
  <2>. QED BY <2>1
<1>6. todo' = head \o tail
  BY <1>1, <1>3
<1>. HIDE DEF tail
<1>7. /\ todo' \in Seq(FrameType)
      /\ (\A do, e : Waiting(do, e)' <=> \/ \E k \in DOMAIN head : head[k].do = do /\ head[k].who = e
                                         \/ \E k \in DOMAIN tail : tail[k].do = do /\ tail[k].who = e)
      /\ (\A do : Awaits(do)' <=> \/ \E k \in DOMAIN head : head[k].do = do
                                  \/ \E k \in DOMAIN tail : tail[k].do = do)
  <2>1. head \in Seq(FrameType) /\ tail \in Seq(FrameType) /\ todo' = head \o tail
    BY <1>4, <1>5, <1>6
  <2>. QED BY <2>1, FreshWaits
<1>8. /\ ~Awaits("scene_stands")' /\ ~Awaits("flush")'
      /\ \A e : Waiting("build", e)' => \E k \in DOMAIN pending : pending[k] = e
      /\ ~Awaits("realize")' /\ ~Awaits("drain")'
      /\ \A e : (\E k \in DOMAIN pending : pending[k] = e) => Waiting("build", e)'
  <2>1. \A k \in DOMAIN head : head[k].do = "build" /\ head[k].who = pending[k]
    BY <1>4
  <2>2. \A k \in DOMAIN tail : tail[k].do = "settle"
    BY <1>5
  <2>3. \A do : Awaits(do)' => do \in {"build", "settle"}
    BY <1>7, <2>1, <2>2
  <2>4. \A e : Waiting("build", e)' => \E k \in DOMAIN pending : pending[k] = e
    BY <1>4, <1>7, <2>2
  <2>5. \A e : (\E k \in DOMAIN pending : pending[k] = e) => Waiting("build", e)'
    BY <1>4, <1>7
  <2>. QED BY <2>3, <2>4, <2>5
<1>9. phase = "structural" /\ ~Awaits("flush") /\ Awaits("drain")
  <2>1. ~AwaitsBehind("flush")
    BY <1>1, Beneath DEF SpawnerInv
  <2>. QED BY <1>1, <2>1, InPhase8, TopFacts DEF SpawnerInv
<1>10. SpawnerTypes'
  BY <1>1, <1>7 DEF SpawnerInv, SpawnerTypes, Never
<1>11. StackRight'
  <2>1. ASSUME NEW i \in DOMAIN head PROVE FrameRight(head[i])'
    <3>1. PICK f : f = head[i]
      OBVIOUS
    <3>2. f.do = "build" /\ f.who \in Root /\ life[f.who] # "free"
      BY <1>2, <1>4, <3>1
    <3>3. FrameRight(f)'
      BY <1>1, <3>2 DEF FrameRight
    <3>. QED BY <3>1, <3>3
  <2>2. \A f : f.do = "settle" => FrameRight(f)'
    BY DEF FrameRight
  <2>3. \A f, g : f.do = "build" /\ (g.do = "settle" \/ (g.do = "build" /\ f.who # g.who)) => Fits(f, g)
    BY DEF Fits, Stage
  <2>4. \A f : f.do \in {"build", "settle"} => Stage(f.do) \notin {1, 2}
    BY DEF Stage
  <2>5. \A i \in DOMAIN head : FrameRight(head[i])' /\ Stage(head[i].do) \notin {1, 2}
    BY <1>4, <2>1, <2>4
  <2>6. \A j \in DOMAIN tail : FrameRight(tail[j])' /\ Stage(tail[j].do) \notin {1, 2}
    BY <1>5, <2>2, <2>4 DEF tail
  <2>7. \A i, j \in DOMAIN head : i < j => Fits(head[i], head[j])
    <3>. SUFFICES ASSUME NEW i \in DOMAIN head, NEW j \in DOMAIN head, i < j PROVE Fits(head[i], head[j])
      OBVIOUS
    <3>1. i # j
      BY <1>2, <1>4
    <3>2. head[i].who # head[j].who
      BY <1>4, <3>1 DEF SpawnerInv, BirthsRight
    <3>. QED BY <1>4, <2>3, <3>2
  <2>8. \A i, j \in DOMAIN tail : i < j => Fits(tail[i], tail[j])
    BY <1>5
  <2>9. \A i \in DOMAIN head, j \in DOMAIN tail : Fits(head[i], tail[j])
    BY <1>4, <1>5, <2>3
  <2>. QED BY <1>4, <1>5, <1>6, <2>5, <2>6, <2>7, <2>8, <2>9, FreshStack
<1>12. PhaseRight'
  BY <1>1, <1>8, <1>9 DEF SpawnerInv, PhaseRight
<1>13. PromisesRight'
  <2>1. \A e \in Entity : Live(e) => ~(promised[e] <= last_prepared)
    BY <1>9, NoneOverdue DEF SpawnerInv, PromisesRight
  <2>. QED BY <1>1, <2>1 DEF SpawnerInv, PromisesRight, Live
<1>14. BirthsRight'
  BY <1>1, <1>8 DEF SpawnerInv, BirthsRight
<1>. QED BY <1>1, <1>8, <1>9, <1>10, <1>11, <1>12, <1>13, <1>14 DEF SpawnerInv

-----------------------------------------------------------------------------
\* The quiet steps.
LEMMA QuietTail ==
  ASSUME SpawnerInv, todo # <<>>, todo' = Tail(todo),
         UNCHANGED <<clockVars, worldVars, queueVars, promised>>,
         seat' \in [Entity -> {"none", "seated", "exited", "released"}],
         machine' \in [Root -> {"none", "seated", "live", "exited"}],
         Top.do \notin {"flush", "realize", "drain", "scene_stands"},
         Top.do \in {"due", "remove"} => ~Live(Top.who)
  PROVE  SpawnerInv' /\ Replaced(<<>>, Tail(todo)) /\ Quiet(<<>>)
<1>1. Replaced(<<>>, Tail(todo))
  BY TailOnly DEF SpawnerInv
<1>2. Quiet(<<>>)
  <2>1. DOMAIN (<<>>) = {}
    OBVIOUS
  <2>. QED BY <2>1 DEF Quiet
<1>. QED BY <1>1, <1>2, QuietStep

\* Code of the user runs on top of the stack.
LEMMA QuietCall ==
  ASSUME SpawnerInv, todo # <<>>, NEW f \in FrameType, todo' = <<f>> \o Tail(todo),
         f.do = "hook" \/ (f.do = "despawned_listener" /\ Top.do = "bury"),
         UNCHANGED <<clockVars, worldVars, queueVars, promised>>,
         seat' \in [Entity -> {"none", "seated", "exited", "released"}],
         machine' \in [Root -> {"none", "seated", "live", "exited"}],
         Top.do \notin {"flush", "realize", "drain", "scene_stands", "due", "remove"}
  PROVE  SpawnerInv' /\ Replaced(<<f>>, Tail(todo)) /\ Quiet(<<f>>)
<1> DEFINE new == <<f>>
<1>1. new \in Seq(FrameType) /\ DOMAIN new = {1} /\ new[1] = f
  OBVIOUS
<1>. HIDE DEF new
<1>2. Replaced(new, Tail(todo))
  BY <1>1, TailRest DEF SpawnerInv, new
<1>3. phase = "boot" => Top.do # "bury"
  BY InPhase8
<1>4. Quiet(new)
  BY <1>1, <1>3 DEF Quiet
<1>5. SpawnerInv'
  BY <1>2, <1>4, QuietStep
<1>. QED BY <1>2, <1>4, <1>5 DEF new

\* The hosts and the lives, of their types.
LEMMA HostTypes ==
  ASSUME SpawnerInv
  PROVE  /\ seat \in [Entity -> {"none", "seated", "exited", "released"}]
         /\ machine \in [Root -> {"none", "seated", "live", "exited"}]
         /\ life \in [Entity -> {"free", "pending", "alive", "dead"}]
BY DEF SpawnerInv, SpawnerTypes


\* The frames that are dropped: a stale entry, code of the user that returns,
\* a spawn that died before it was built.
LEMMA PopSteps ==
  ASSUME SpawnerInv, drop_stale \/ user_returns \/ drop_unborn
  PROVE  SpawnerInv' /\ Replaced(<<>>, Tail(todo)) /\ Quiet(<<>>) /\ seat' = seat
<1>1. /\ todo # <<>> /\ todo' = Tail(todo)
      /\ UNCHANGED <<clockVars, worldVars, queueVars, promised>> /\ seat' = seat /\ machine' = machine
      /\ Top.do \notin {"flush", "realize", "drain", "scene_stands"}
  BY DEF drop_stale, user_returns, drop_unborn, Doing, hostVars
<1>2. Top.do \in {"due", "remove"} => ~Live(Top.who)
  BY DEF drop_stale, user_returns, drop_unborn, Doing, Live
<1>. QED BY <1>1, <1>2, HostTypes, QuietTail

\* Nothing was spawned below what was built: the queue is not flushed.
LEMMA SettleQuiet ==
  ASSUME SpawnerInv, settle, Top.subtree = <<>>
  PROVE  SpawnerInv' /\ Replaced(<<>>, Tail(todo)) /\ Quiet(<<>>) /\ seat' = seat
<1>1. /\ todo # <<>> /\ todo' = Tail(todo) /\ Top.do = "settle"
      /\ UNCHANGED <<clockVars, worldVars, queueVars, promised>> /\ seat' = seat /\ machine' = machine
  BY DEF settle, Doing, hostVars
<1>. QED BY <1>1, HostTypes, QuietTail

\* The frame of a hook about what is on top.
LEMMA HookFrame ==
  ASSUME SpawnerInv, todo # <<>>, NEW do \in Op
  PROVE  Frame(do, Top.who) \in FrameType /\ Frame(do, Top.who).do = do
<1>1. Top \in FrameType
  BY TopFacts DEF SpawnerInv
<1>2. Top.who \in Entity \cup {None}
  BY <1>1 DEF FrameType
<1>. QED BY <1>2, FrameFacts

\* Machines and seats come and go, and call code of the user.
LEMMA HostSteps ==
  ASSUME SpawnerInv, exit_machine \/ despawn_exit \/ enter \/ announce
  PROVE  /\ SpawnerInv'
         /\ \/ Replaced(<<>>, Tail(todo)) /\ Quiet(<<>>)
            \/ \E f : f.do = "hook" /\ Replaced(<<f>>, Tail(todo)) /\ Quiet(<<f>>)
         /\ \A e \in Entity : seat'[e] = "none" => seat[e] = "none"
         /\ Top.do \in {"exit_machine", "exit_seat", "enter", "announce"}
<1>1. /\ todo # <<>> /\ UNCHANGED <<clockVars, worldVars, queueVars, promised>>
      /\ Top.do \in {"exit_machine", "exit_seat", "enter", "announce"}
  BY DEF exit_machine, despawn_exit, enter, announce, Doing
<1>2. todo' = Tail(todo) \/ todo' = <<Frame("hook", Top.who)>> \o Tail(todo)
  BY DEF exit_machine, despawn_exit, enter, announce
<1>3. /\ seat' \in [Entity -> {"none", "seated", "exited", "released"}]
      /\ machine' \in [Root -> {"none", "seated", "live", "exited"}]
      /\ \A e \in Entity : seat'[e] = "none" => seat[e] = "none"
  BY HostTypes DEF exit_machine, despawn_exit, enter, announce, hostVars
<1>4. CASE todo' = Tail(todo)
  BY <1>1, <1>3, <1>4, QuietTail
<1>5. CASE todo' = <<Frame("hook", Top.who)>> \o Tail(todo)
  <2>1. PICK f \in FrameType : f = Frame("hook", Top.who) /\ f.do = "hook"
    BY <1>1, HookFrame DEF Op
  <2>. QED BY <1>1, <1>3, <1>5, <2>1, QuietCall
<1>. QED BY <1>2, <1>4, <1>5

\* A reap releases its seats, and tells the listeners of the event.
LEMMA BuryStep ==
  ASSUME SpawnerInv, bury
  PROVE  /\ SpawnerInv'
         /\ \/ Replaced(<<>>, Tail(todo)) /\ Quiet(<<>>)
            \/ \E f : f.do = "despawned_listener" /\ Replaced(<<f>>, Tail(todo)) /\ Quiet(<<f>>)
         /\ \A e \in Entity : seat'[e] = "none" => seat[e] = "none"
<1>1. /\ todo # <<>> /\ Top.do = "bury" /\ UNCHANGED <<clockVars, worldVars, queueVars, promised>> /\ machine' = machine
  BY DEF bury, Doing
<1>2. todo' = Tail(todo) \/ todo' = <<Frame("despawned_listener", Top.who)>> \o Tail(todo)
  BY DEF bury
<1>3. /\ seat' \in [Entity -> {"none", "seated", "exited", "released"}]
      /\ machine' \in [Root -> {"none", "seated", "live", "exited"}]
      /\ \A e \in Entity : seat'[e] = "none" => seat[e] = "none"
  BY <1>1, HostTypes DEF bury
<1>4. CASE todo' = Tail(todo)
  BY <1>1, <1>3, <1>4, QuietTail
<1>5. CASE todo' = <<Frame("despawned_listener", Top.who)>> \o Tail(todo)
  <2>1. PICK f \in FrameType : f = Frame("despawned_listener", Top.who) /\ f.do = "despawned_listener"
    BY <1>1, HookFrame DEF Op
  <2>. QED BY <1>1, <1>3, <1>5, <2>1, QuietCall
<1>. QED BY <1>2, <1>4, <1>5

\* A due entity leaves through the exit chain of its subtree.
LEMMA LeaveStep ==
  ASSUME SpawnerInv, despawn_alive
  PROVE  SpawnerInv' /\ \E new, t : /\ Replaced(new, t) /\ Quiet(new) /\ seat' = seat
                                    /\ \A i \in DOMAIN new : new[i].do \notin {"hook", "despawned_listener"}
<1>1. /\ todo # <<>> /\ Top.do = "due" /\ life[Top.who] = "alive"
      /\ UNCHANGED <<clockVars, worldVars, queueVars, promised>> /\ seat' = seat /\ machine' = machine
      /\ todo' = exit_chain(Captured(Top.who))
                   \o <<[do |-> "remove", who |-> Top.who, subtree |-> Captured(Top.who)]>> \o Tail(todo)
  BY DEF despawn_alive, Doing, hostVars
<1>2. PICK e \in Entity : e = Top.who /\ promised[e] <= last_prepared
  <2>1. FrameRight(todo[1]) /\ Top = todo[1]
    BY <1>1, TopFacts DEF SpawnerInv, StackRight
  <2>. QED BY <1>1, <2>1 DEF FrameRight
<1>3. PICK list \in Seq(Entity) : list = Captured(Top.who)
  <2> DEFINE S == {c \in Child : life[c] = "alive" /\ parent[c] = e}
  <2>1. IsFiniteSet(S)
    <3>1. S \in SUBSET (Root \cup Child)
      OBVIOUS
    <3>. HIDE DEF S
    <3>. QED BY <3>1, PrefabAssumption, FS_Subset
  <2>2. S \subseteq Entity /\ Below(e) = SetToSeq(S)
    BY DEF Entity, Below
  <2>. HIDE DEF S
  <2>3. SetToSeq(S) \in Seq(S)
    BY <2>1, ListOfSet
  <2>4. Below(e) \in Seq(Entity)
    BY <2>2, <2>3
  <2>5. <<e>> \o Below(e) \in Seq(Entity)
    BY <2>4
  <2>. QED BY <1>2, <2>5 DEF Captured
<1> DEFINE T == {f \in FrameType : /\ f.do \in {"exit_machine", "exit_seat", "remove"} /\ f.who \in Entity
                                   /\ f.do = "remove" => f.who = e}
           back == Reverse(list)
           out == Each("exit_machine", back)
           seats == Each("exit_seat", back)
           chain == out \o seats
           last == [do |-> "remove", who |-> e, subtree |-> list]
<1>4. back \in Seq(Entity)
  <2>1. PICK n \in Nat : n = Len(list)
    BY <1>3
  <2>2. DOMAIN list = 1 .. n /\ \A i \in 1 .. n : list[i] \in Entity
    BY <1>3, <2>1
  <2>3. \A i \in 1 .. n : n - i + 1 \in 1 .. n
    BY <2>1
  <2>4. back = [i \in 1 .. n |-> list[(n - i) + 1]]
    BY <2>1 DEF Reverse
  <2>5. back \in [1 .. n -> Entity]
    BY <2>2, <2>3, <2>4
  <2>. HIDE DEF back
  <2>. QED BY <2>5, ListIn
<1>. HIDE DEF back
<1>5. ASSUME NEW do \in {"exit_machine", "exit_seat"} PROVE Each(do, back) \in Seq(T)
  <2>1. Entity \in SUBSET (Entity \cup {None}) /\ do \in Op
    BY DEF Op
  <2>2. /\ Each(do, back) \in Seq(FrameType) /\ Len(Each(do, back)) = Len(back) /\ Len(back) \in Nat
        /\ DOMAIN Each(do, back) = 1 .. Len(back)
        /\ \A k \in 1 .. Len(back) : Each(do, back)[k].do = do /\ Each(do, back)[k].who = back[k] /\ back[k] \in Entity
    BY <1>4, <2>1, EachFrames
  <2>3. PICK each \in Seq(FrameType), n \in Nat : each = Each(do, back) /\ n = Len(back)
    BY <2>2
  <2>4. DOMAIN each = 1 .. n /\ \A k \in 1 .. n : each[k] \in FrameType /\ each[k].do = do /\ each[k].who \in Entity
    BY <2>2, <2>3
  <2>5. each \in [1 .. n -> T]
    BY <2>3, <2>4
  <2>. HIDE DEF T
  <2>. QED BY <2>3, <2>5, ListIn
<1>6. last \in T
  BY <1>2, <1>3 DEF FrameType, Op
<1>. HIDE DEF T, out, seats, last
<1>7. chain \in Seq(T)
  BY <1>5, ConcatProperties DEF out, seats
<1>. HIDE DEF chain
<1>8. PICK new \in Seq(T) : new = chain \o <<last>> /\ Len(new) \in 1 .. Len(new) /\ new[Len(new)] = last
  <2>1. chain \o <<last>> \in Seq(T) /\ Len(chain \o <<last>>) = Len(chain) + 1
        /\ (chain \o <<last>>)[Len(chain) + 1] = last /\ Len(chain) \in Nat
    BY <1>6, <1>7
  <2>2. PICK n \in Nat : n = Len(chain) + 1
    BY <2>1
  <2>3. n \in 1 .. n
    BY <2>1, <2>2
  <2>. QED BY <2>1, <2>2, <2>3
<1>9. /\ new \in Seq(FrameType)
      /\ \A i \in DOMAIN new : /\ new[i].do \in {"exit_machine", "exit_seat", "remove"} /\ new[i].who \in Entity
                               /\ new[i].do = "remove" => new[i].who = e
      /\ \E i \in DOMAIN new : new[i].do = "remove" /\ new[i].who = e
  <2>1. PICK n \in Nat : n = Len(new)
    BY <1>8
  <2>2. DOMAIN new = 1 .. n /\ \A i \in 1 .. n : new[i] \in T
    BY <1>8, <2>1
  <2>3. \A f \in T : f \in FrameType /\ f.do \in {"exit_machine", "exit_seat", "remove"} /\ f.who \in Entity
                     /\ (f.do = "remove" => f.who = e)
    BY DEF T
  <2>4. new \in Seq(FrameType)
    <3>1. T \subseteq FrameType
      BY DEF T
    <3>. QED BY <1>8, <3>1
  <2>5. last.do = "remove" /\ last.who = e
    BY DEF last
  <2>. QED BY <1>8, <2>1, <2>2, <2>3, <2>4, <2>5, ListIn
<1>10. Replaced(new, Tail(todo))
  <2>1. todo' = new \o Tail(todo)
    BY <1>1, <1>2, <1>3, <1>8, Zenon DEF exit_chain, chain, out, seats, back, last
  <2>. QED BY <1>1, <1>9, <2>1, TailRest DEF SpawnerInv
<1>11. Quiet(new)
  <2>1. Stage(Top.do) = 1
    BY <1>1 DEF Stage
  <2>2. \A f, g : f.do \in {"exit_machine", "exit_seat", "remove"} /\ g.do \in {"exit_machine", "exit_seat", "remove"} => Fits(f, g)
    BY DEF Fits, Stage
  <2>3. \A i, j \in DOMAIN new : i < j => Fits(new[i], new[j])
    BY <1>9, <2>2
  <2>4. phase # "boot"
    BY <1>1, InPhase8
  <2>5. seat' \in [Entity -> {"none", "seated", "exited", "released"}]
        /\ machine' \in [Root -> {"none", "seated", "live", "exited"}]
    BY <1>1, HostTypes
  <2>6. \A i \in DOMAIN new :
           /\ new[i].do \in {"exit_machine", "exit_seat", "remove"} /\ new[i].who \in Entity
           /\ new[i].do = "remove" => promised[new[i].who] <= last_prepared
    BY <1>2, <1>9
  <2>. QED BY <1>1, <1>2, <1>9, <2>1, <2>3, <2>4, <2>5, <2>6 DEF Quiet
<1>. QED BY <1>1, <1>9, <1>10, <1>11, QuietStep

\* A removal is queued, behind the spawn of an entity still pending.
LEMMA RemovalStep ==
  ASSUME SpawnerInv, despawn_pending \/ remove
  PROVE  SpawnerInv' /\ Replaced(<<>>, Tail(todo)) /\ Top.do \in {"due", "remove"}
<1>1. /\ todo # <<>> /\ todo' = Tail(todo) /\ Top.do \in {"due", "remove"}
      /\ tick' = tick /\ phase' = phase /\ poisoned' = poisoned /\ life' = life /\ parent' = parent /\ adopted' = adopted
      /\ pending' = pending /\ lingers' = lingers /\ last_prepared' = last_prepared
      /\ promised' = promised /\ seat' = seat /\ machine' = machine
  BY DEF despawn_pending, remove, Doing, queue_removal, clockVars, hostVars
<1>2. PICK e \in Entity : e = Top.who /\ promised[e] <= last_prepared /\ life[e] # "free"
  <2>1. FrameRight(todo[1]) /\ Top = todo[1]
    BY <1>1, TopFacts DEF SpawnerInv, StackRight
  <2>2. PICK e \in Entity : e = Top.who /\ promised[e] <= last_prepared
    BY <1>1, <2>1 DEF FrameRight
  <2>3. promised[e] # Never
    BY <2>2, Typed DEF SpawnerInv
  <2>. QED BY <2>2, <2>3 DEF SpawnerInv, BirthsRight
<1>3. PICK list \in Seq(Entity) : /\ commands' = Append(commands, Despawn(e))
                                  /\ queued_reaps' = Append(queued_reaps, [ref |-> e, subtree |-> list])
  <2>1. Top \in FrameType
    BY <1>1, TopFacts DEF SpawnerInv
  <2>2. Top.subtree \in Seq(Entity) /\ <<e>> \in Seq(Entity)
    BY <2>1 DEF FrameType
  <2>. QED BY <1>2, <2>2 DEF despawn_pending, remove, queue_removal
<1>4. /\ Len(commands) \in Nat /\ DOMAIN commands = 1 .. Len(commands) /\ commands \in Seq(Command)
      /\ Len(queued_reaps) \in Nat /\ DOMAIN queued_reaps = 1 .. Len(queued_reaps) /\ queued_reaps \in Seq(Reap)
      /\ (\A x \in Entity : promised[x] \in Nat) /\ tick \in Nat /\ last_prepared \in Nat
      /\ (\A k \in DOMAIN queued_reaps : queued_reaps[k].ref \in Entity)
      /\ last_prepared <= tick
  BY Typed DEF SpawnerInv, SpawnerTypes
<1>5. /\ DOMAIN commands' = 1 .. Len(commands) + 1
      /\ (\A k \in DOMAIN commands : k \in DOMAIN commands' /\ commands'[k] = commands[k] /\ k < Len(commands) + 1)
      /\ (\A k \in DOMAIN commands' : k \in DOMAIN commands \/ k = Len(commands) + 1)
      /\ commands'[Len(commands) + 1] = Despawn(e) /\ Len(commands) + 1 \in DOMAIN commands'
  BY <1>3, <1>4
<1>6. /\ (\A k \in DOMAIN queued_reaps' : \/ k \in DOMAIN queued_reaps /\ queued_reaps'[k] = queued_reaps[k]
                                          \/ queued_reaps'[k].ref = e)
      /\ queued_reaps' \in Seq(Reap)
  <2>1. [ref |-> e, subtree |-> list] \in Reap /\ [ref |-> e, subtree |-> list].ref = e
    BY DEF Reap
  <2>2. PICK reap \in Reap : reap = [ref |-> e, subtree |-> list] /\ reap.ref = e
    BY <2>1
  <2>. QED BY <1>3, <1>4, <2>2
<1>7. Despawn(e) \in Command /\ Despawn(e).op = "despawn" /\ Despawn(e).entity = e
      /\ (\A x : Despawn(e) # Spawn(x)) /\ (\A x : Despawn(x) = Despawn(e) => x = e)
  BY DEF Despawn, Command, Spawn
<1>8. Replaced(<<>>, Tail(todo))
  BY <1>1, TailOnly DEF SpawnerInv
<1>9. /\ (\A do, x : Waiting(do, x) <=> (Top.do = do /\ Top.who = x) \/ Behind(do, x))
      /\ (\A do : Awaits(do) <=> Top.do = do \/ AwaitsBehind(do))
      /\ (\A do, x : Waiting(do, x)' <=> Behind(do, x))
      /\ (\A do : Awaits(do)' <=> AwaitsBehind(do))
      /\ todo' \in Seq(FrameType)
  <2>1. DOMAIN (<<>>) = {}
    OBVIOUS
  <2>2. /\ \A do, x : Waiting(do, x)' <=> (\E k \in DOMAIN (<<>>) : (<<>>)[k].do = do /\ (<<>>)[k].who = x) \/ Behind(do, x)
        /\ \A do : Awaits(do)' <=> (\E k \in DOMAIN (<<>>) : (<<>>)[k].do = do) \/ AwaitsBehind(do)
        /\ todo' \in Seq(FrameType)
    BY <1>8, ReplacedFacts DEF SpawnerInv
  <2>. QED BY <1>1, <2>1, <2>2, TopFacts DEF SpawnerInv
<1>10. SpawnerTypes'
  <2>1. commands' \in Seq(Command)
    BY <1>3, <1>4, <1>7
  <2>. QED BY <1>1, <1>6, <1>9, <2>1 DEF SpawnerInv, SpawnerTypes, Never
<1>11. StackRight'
  <2>1. DOMAIN (<<>>) = {}
    OBVIOUS
  <2>. QED BY <1>1, <1>4, <1>8, <2>1, ReplacedStack DEF SpawnerInv
<1>12. phase = "structural" /\ Awaits("flush")' /\ ~Awaits("scene_stands")' /\ Awaits("flush")
  <2>1. Stage(Top.do) = 1
    BY <1>1 DEF Stage
  <2>2. Awaits("flush")
    <3>1. 1 \in DOMAIN todo /\ Top = todo[1]
      BY <1>1, TopFacts DEF SpawnerInv
    <3>. QED BY <2>1, <3>1 DEF SpawnerInv, StackRight, FlushAhead
  <2>3. phase = "structural"
    BY <1>1, InPhase8
  <2>. QED BY <1>1, <1>9, <2>2, <2>3 DEF SpawnerInv, PhaseRight
<1>13. PhaseRight'
  BY <1>1, <1>12 DEF SpawnerInv, PhaseRight
<1>14. PromisesRight'
  <2>1. ASSUME NEW k \in DOMAIN queued_reaps' PROVE promised'[queued_reaps'[k].ref] <= tick'
    <3>1. CASE queued_reaps'[k].ref = e
      <4>1. promised[e] <= tick
        BY <1>2, <1>4
      <4>. QED BY <1>1, <3>1, <4>1
    <3>2. CASE k \in DOMAIN queued_reaps /\ queued_reaps'[k] = queued_reaps[k]
      BY <1>1, <3>2 DEF SpawnerInv, PromisesRight
    <3>. QED BY <1>6, <3>1, <3>2
  <2>2. ASSUME NEW x \in Entity, Live(x), promised[x] <= last_prepared
        PROVE  Waiting("due", x)' \/ Waiting("remove", x)' \/ \E j \in DOMAIN commands' : commands'[j] = Despawn(x)
    <3>1. CASE x = e
      BY <1>5, <3>1
    <3>2. CASE x # e
      <4>1. Waiting("due", x) \/ Waiting("remove", x) \/ \E j \in DOMAIN commands : commands[j] = Despawn(x)
        BY <1>12, <2>2 DEF SpawnerInv, PromisesRight
      <4>. QED BY <1>2, <1>5, <1>9, <3>2, <4>1
    <3>. QED BY <3>1, <3>2
  <2>3. \A x \in Entity : Live(x)' <=> Live(x)
    BY <1>1 DEF Live
  <2>. QED BY <1>1, <1>12, <2>1, <2>2, <2>3 DEF SpawnerInv, PromisesRight, Never
<1>15. BirthsRight'
  <2>1. \A k \in DOMAIN commands' : commands'[k].op = "despawn" => life[commands'[k].entity] # "free"
    BY <1>2, <1>5, <1>7 DEF SpawnerInv, BirthsRight
  <2>2. ASSUME NEW x \in Entity, life[x] = "pending"
        PROVE  \E j \in DOMAIN commands' :
                 commands'[j] = Spawn(x) /\ \A k \in DOMAIN commands' : commands'[k] = Despawn(x) => j < k
    <3>1. PICK j \in DOMAIN commands :
            commands[j] = Spawn(x) /\ \A k \in DOMAIN commands : commands[k] = Despawn(x) => j < k
      BY <2>2 DEF SpawnerInv, BirthsRight
    <3>. QED BY <1>5, <3>1
  <2>3. \A x : Waiting("build", x)' => Waiting("build", x)
    BY <1>9
  <2>. QED BY <1>1, <2>1, <2>2, <2>3 DEF SpawnerInv, BirthsRight, Never
<1>. QED BY <1>1, <1>8, <1>10, <1>11, <1>13, <1>14, <1>15 DEF SpawnerInv

\* The flush that ends prepare, and the one that settles what was built.
LEMMA FlushStep ==
  ASSUME SpawnerInv, flush_structural \/ (settle /\ Top.subtree # <<>>)
  PROVE  /\ SpawnerInv' /\ Replaced(<<>>, Tail(todo)) /\ Top.do \in {"flush", "settle"}
         /\ \A e \in Entity : life'[e] # "pending" /\ Onward(life[e], life'[e])
         /\ phase' = phase /\ pending' = pending /\ seat' = seat
<1>1. /\ todo # <<>> /\ todo' = Tail(todo) /\ Top.do \in {"flush", "settle"}
      /\ life' = Flushed.life /\ parent' = Flushed.parent /\ adopted' = Flushed.adopted /\ commands' = <<>>
      /\ tick' = tick /\ phase' = phase /\ poisoned' = poisoned
      /\ pending' = pending /\ lingers' = lingers /\ last_prepared' = last_prepared
      /\ queued_reaps' = queued_reaps /\ promised' = promised /\ seat' = seat /\ machine' = machine
  BY DEF flush_structural, settle, Doing, clockVars, queueVars, hostVars
<1>2. /\ Flushed.life \in [Entity -> {"free", "pending", "alive", "dead"}] /\ Flushed.parent \in [Entity -> Root \cup {None}]
      /\ Flushed.adopted \in SUBSET Entity
      /\ \A e \in Entity : Onward(life[e], life'[e])
      /\ \A e \in Entity, j \in DOMAIN commands : commands[j] = Spawn(e) => life'[e] # "pending"
      /\ \A e \in Entity, j, k \in DOMAIN commands :
           commands[k] = Despawn(e) /\ (life[e] = "pending" => j < k /\ commands[j] = Spawn(e)) =>
             life'[e] \notin {"pending", "alive"}
  <2>1. /\ Flushed \in Worlds
        /\ \A e \in Entity : Onward(life[e], Flushed.life[e])
        /\ \A e \in Entity, j \in DOMAIN commands : commands[j] = Spawn(e) => Flushed.life[e] # "pending"
        /\ \A e \in Entity, j, k \in DOMAIN commands :
             commands[k] = Despawn(e) /\ (life[e] = "pending" => j < k /\ commands[j] = Spawn(e)) =>
               Flushed.life[e] \notin {"pending", "alive"}
    BY FlushFacts DEF SpawnerInv
  <2>. QED BY <1>1, <2>1 DEF Worlds
<1>3. \A e \in Entity : life[e] \in {"free", "pending", "alive", "dead"} /\ life'[e] \in {"free", "pending", "alive", "dead"}
  BY <1>1, <1>2, HostTypes
<1>4. \A e \in Entity : life'[e] # "pending"
  <2>. SUFFICES ASSUME NEW e \in Entity, life'[e] = "pending" PROVE FALSE
    OBVIOUS
  <2>1. life[e] = "pending"
    BY <1>2, <1>3 DEF Onward
  <2>2. PICK j \in DOMAIN commands : commands[j] = Spawn(e)
    BY <2>1 DEF SpawnerInv, BirthsRight
  <2>. QED BY <1>2, <2>2
<1>5. \A e \in Entity : /\ Live(e)' => Live(e) /\ life'[e] = "alive"
                        /\ life[e] # "free" <=> life'[e] # "free"
  BY <1>2, <1>3, <1>4 DEF Onward, Live
<1>6. Replaced(<<>>, Tail(todo))
  BY <1>1, TailOnly DEF SpawnerInv
<1>7. /\ (\A do, x : Waiting(do, x) <=> (Top.do = do /\ Top.who = x) \/ Behind(do, x))
      /\ (\A do : Awaits(do) <=> Top.do = do \/ AwaitsBehind(do))
      /\ (\A do, x : Behind(do, x) => AwaitsBehind(do))
      /\ (\A do, x : Waiting(do, x)' <=> Behind(do, x))
      /\ (\A do : Awaits(do)' <=> AwaitsBehind(do))
      /\ todo' \in Seq(FrameType)
  <2>1. DOMAIN (<<>>) = {}
    OBVIOUS
  <2>2. /\ \A do, x : Waiting(do, x)' <=> (\E k \in DOMAIN (<<>>) : (<<>>)[k].do = do /\ (<<>>)[k].who = x) \/ Behind(do, x)
        /\ \A do : Awaits(do)' <=> (\E k \in DOMAIN (<<>>) : (<<>>)[k].do = do) \/ AwaitsBehind(do)
        /\ todo' \in Seq(FrameType)
    BY <1>6, ReplacedFacts DEF SpawnerInv
  <2>. QED BY <1>1, <2>1, <2>2, TopFacts DEF SpawnerInv
<1>8. phase = "structural"
  BY <1>1, InPhase8
<1>9. \A e \in Entity : Live(e)' => ~(promised[e] <= last_prepared)
  <2>1. CASE Top.do = "settle"
    <3>1. ~AwaitsBehind("flush")
      BY <1>1, <2>1, Beneath DEF SpawnerInv
    <3>2. ~Awaits("flush")
      BY <1>7, <2>1, <3>1
    <3>. QED BY <1>5, <1>8, <3>2 DEF SpawnerInv, PromisesRight
  <2>2. CASE Top.do = "flush"
    <3>. SUFFICES ASSUME NEW e \in Entity, Live(e), Live(e)', promised[e] <= last_prepared PROVE FALSE
      BY <1>5
    <3>1. \A do \in {"hook", "due", "remove", "flush"} : ~AwaitsBehind(do)
      BY <1>1, <2>2, Beneath DEF SpawnerInv
    <3>2. ~Waiting("due", e) /\ ~Waiting("remove", e)
      BY <1>7, <2>2, <3>1
    <3>3. PICK k \in DOMAIN commands : commands[k] = Despawn(e)
      BY <1>8, <3>2 DEF SpawnerInv, PromisesRight
    <3>4. \E j \in DOMAIN commands : life[e] = "pending" => j < k /\ commands[j] = Spawn(e)
      <4>1. CASE life[e] = "pending"
        BY <3>3, <4>1 DEF SpawnerInv, BirthsRight
      <4>2. CASE life[e] # "pending"
        BY <4>2
      <4>. QED BY <4>1, <4>2
    <3>5. life'[e] \notin {"pending", "alive"}
      BY <1>2, <3>3, <3>4
    <3>. QED BY <3>5 DEF Live
  <2>. QED BY <1>1, <2>1, <2>2
<1>10. SpawnerTypes'
  BY <1>1, <1>2, <1>7 DEF SpawnerInv, SpawnerTypes, Never
<1>11. StackRight'
  <2>1. DOMAIN (<<>>) = {}
    OBVIOUS
  <2>2. \A e \in Entity : /\ promised[e] \in Nat /\ promised'[e] \in Nat /\ promised'[e] <= promised[e]
                          /\ life[e] # "free" => life'[e] # "free"
    BY <1>1, <1>5, Typed DEF SpawnerInv
  <2>. QED BY <1>1, <1>6, <2>1, <2>2, ReplacedStack DEF SpawnerInv
<1>12. PhaseRight'
  <2>1. ~Awaits("scene_stands")'
    BY <1>7, <1>8 DEF SpawnerInv, PhaseRight
  <2>2. queued_reaps # <<>> => Awaits("flush")' \/ Awaits("realize")' \/ Awaits("drain")'
    <3>1. CASE Top.do = "flush"
      <4>1. Stage(Top.do) = 2
        BY <3>1 DEF Stage
      <4>2. 1 \in DOMAIN todo /\ Top = todo[1]
        BY <1>1, TopFacts DEF SpawnerInv
      <4>3. Awaits("realize")
        BY <4>1, <4>2 DEF SpawnerInv, StackRight, FlushAhead
      <4>. QED BY <1>7, <3>1, <4>3
    <3>2. CASE Top.do = "settle"
      <4>1. queued_reaps # <<>> => Awaits("flush") \/ Awaits("realize") \/ Awaits("drain")
        BY <1>8 DEF SpawnerInv, PhaseRight
      <4>. QED BY <1>7, <3>2, <4>1
    <3>. QED BY <1>1, <3>1, <3>2
  <2>. QED BY <1>1, <1>8, <2>1, <2>2 DEF SpawnerInv, PhaseRight
<1>13. PromisesRight'
  <2>1. \A k \in DOMAIN lingers : promised[lingers[k].ref] <= lingers[k].due /\ life'[lingers[k].ref] # "free"
    <3>. SUFFICES ASSUME NEW k \in DOMAIN lingers
                  PROVE  promised[lingers[k].ref] <= lingers[k].due /\ life'[lingers[k].ref] # "free"
      OBVIOUS
    <3>1. PICK x \in Entity : x = lingers[k].ref
      BY Typed DEF SpawnerInv
    <3>. QED BY <1>5, <3>1 DEF SpawnerInv, PromisesRight
  <2>2. \A e \in Entity : Live(e)' /\ promised[e] > last_prepared /\ promised[e] # Never =>
          \E k \in DOMAIN lingers : lingers[k].ref = e /\ lingers[k].due <= promised[e]
    BY <1>5 DEF SpawnerInv, PromisesRight
  <2>3. \A k \in DOMAIN queued_reaps : promised[queued_reaps[k].ref] <= tick
    BY DEF SpawnerInv, PromisesRight
  <2>. QED BY <1>1, <1>9, <2>1, <2>2, <2>3 DEF PromisesRight, Never
<1>14. BirthsRight'
  <2>1. \A k \in DOMAIN pending : pending[k] \in Entity
    BY Typed DEF SpawnerInv
  <2>2. \A x : Waiting("build", x)' => Waiting("build", x)
    BY <1>7
  <2>3. \A c \in Child : c \in Entity /\ ChildOf[c] \in Entity
    BY PrefabAssumption DEF Entity
  <2>4. \A k \in DOMAIN pending : life'[pending[k]] # "free"
    BY <1>5, <2>1 DEF SpawnerInv, BirthsRight
  <2>5. \A c \in Child : life'[c] # "free" =>
          life'[ChildOf[c]] # "free" /\ ~Waiting("build", ChildOf[c]) /\ \A k \in DOMAIN pending : pending[k] # ChildOf[c]
    BY <1>5, <2>3 DEF SpawnerInv, BirthsRight
  <2>6. DOMAIN commands' = {}
    BY <1>1
  <2>7. \A e \in Entity : life'[e] = "free" => promised[e] = Never
    BY <1>5 DEF SpawnerInv, BirthsRight
  <2>8. /\ \A i, j \in DOMAIN pending : pending[i] = pending[j] => i = j
        /\ \A k \in DOMAIN pending : ~Waiting("build", pending[k])
    BY DEF SpawnerInv, BirthsRight
  <2>. QED BY <1>1, <1>4, <2>2, <2>4, <2>5, <2>6, <2>7, <2>8 DEF BirthsRight, Never
<1>. QED BY <1>1, <1>2, <1>4, <1>6, <1>10, <1>11, <1>12, <1>13, <1>14 DEF SpawnerInv

\* What a build does to the world: its children, which were free, come alive;
\* before that, a machine flushes the queue.
Builds(r, kids, world) ==
  /\ r = Top.who /\ r \in Entity /\ Waiting("build", r) /\ life[r] = "alive"
  /\ kids = Children(r) /\ kids \in SUBSET Child /\ kids \in SUBSET Entity /\ r \notin kids /\ IsFiniteSet(kids)
  /\ \A c \in kids : ChildOf[c] = r /\ life[c] = "free" /\ promised[c] = Never
  /\ life' = [e \in Entity |-> IF e \in kids THEN "alive" ELSE world.life[e]]
  /\ parent' = world.parent /\ adopted' = world.adopted \cup {r}
  /\ \A e \in Entity : Onward(life[e], world.life[e]) /\ (life[e] = "alive" => world.life[e] = "alive")
  /\ \/ r \in Machined /\ world = Flushed /\ \A e \in Entity : world.life[e] # "pending"
     \/ r \notin Machined /\ world.life = life /\ world.parent = parent /\ world.adopted = adopted

LEMMA BuildWorld ==
  ASSUME SpawnerInv, build
  PROVE  /\ phase = "structural" /\ ~Awaits("flush") /\ ~Awaits("realize") /\ ~Awaits("drain")
         /\ \A e \in Entity : Live(e) => promised[e] > last_prepared
         /\ \A k \in DOMAIN commands : commands[k].op # "despawn"
         /\ \E r \in Root, world \in Worlds : \E kids : Builds(r, kids, world)
<1>1. /\ todo # <<>> /\ Top.do = "build" /\ life[Top.who] = "alive"
      /\ tick' = tick /\ phase' = phase /\ poisoned' = poisoned
      /\ pending' = pending /\ lingers' = lingers /\ last_prepared' = last_prepared
      /\ queued_reaps' = queued_reaps /\ promised' = promised
  BY DEF build, Doing, clockVars, queueVars
<1>2. PICK r \in Root : r = Top.who /\ r \in Entity /\ Waiting("build", r)
  <2>1. FrameRight(todo[1]) /\ Top = todo[1] /\ 1 \in DOMAIN todo
    BY <1>1, TopFacts DEF SpawnerInv, StackRight
  <2>. QED BY <1>1, <2>1 DEF FrameRight, Entity, Waiting
<1>3. phase = "structural"
  BY <1>1, InPhase8
<1>4. \A do \in {"hook", "flush", "realize", "drain"} : ~AwaitsBehind(do)
  BY <1>1, Beneath DEF SpawnerInv
<1>5. ~Awaits("flush") /\ ~Awaits("realize") /\ ~Awaits("drain")
  BY <1>1, <1>4, TopFacts DEF SpawnerInv
<1>6. /\ \A e \in Entity : Live(e) => promised[e] > last_prepared
      /\ \A k \in DOMAIN commands : commands[k].op # "despawn"
  BY <1>3, <1>5, NoneOverdue
<1>7. PICK kids : kids = Children(r)
  OBVIOUS
<1>8. /\ kids \in SUBSET Child /\ kids \in SUBSET Entity /\ r \notin kids /\ IsFiniteSet(kids)
      /\ \A c \in kids : ChildOf[c] = r
  <2>1. kids \in SUBSET Child /\ \A c \in kids : ChildOf[c] = r
    BY <1>7 DEF Children
  <2>2. kids \in SUBSET Entity /\ r \notin kids
    BY <2>1, PrefabAssumption DEF Entity
  <2>3. IsFiniteSet(kids)
    BY <2>2, PrefabAssumption, FS_Subset DEF Entity
  <2>. QED BY <2>1, <2>2, <2>3
<1>9. \A c \in kids : life[c] = "free" /\ promised[c] = Never
  <2>1. \A c \in kids : life[c] = "free"
    BY <1>2, <1>8 DEF SpawnerInv, BirthsRight
  <2>. QED BY <1>8, <2>1 DEF SpawnerInv, BirthsRight
<1>10. PICK world \in Worlds :
         /\ life' = [e \in Entity |-> IF e \in kids THEN "alive" ELSE world.life[e]]
         /\ parent' = world.parent /\ adopted' = world.adopted \cup {r}
         /\ \A e \in Entity : Onward(life[e], world.life[e]) /\ (life[e] = "alive" => world.life[e] = "alive")
         /\ \/ r \in Machined /\ world = Flushed /\ \A e \in Entity : world.life[e] # "pending"
            \/ r \notin Machined /\ world.life = life /\ world.parent = parent /\ world.adopted = adopted
  <2>. DEFINE w == IF r \in Machined THEN Flushed ELSE [life |-> life, parent |-> parent, adopted |-> adopted]
  <2>1. life' = [e \in Entity |-> IF e \in kids THEN "alive" ELSE w.life[e]] /\ parent' = w.parent
       /\ adopted' = w.adopted \cup {r}
    BY <1>2, <1>7, Zenon DEF build
  <2>2. CASE r \in Machined
    <3>1. w = Flushed
      BY <2>2
    <3>2. /\ Flushed \in Worlds
          /\ \A e \in Entity : Onward(life[e], Flushed.life[e])
          /\ \A e \in Entity, j \in DOMAIN commands : commands[j] = Spawn(e) => Flushed.life[e] # "pending"
          /\ (\A k \in DOMAIN commands : commands[k].op # "despawn") =>
               \A e \in Entity : life[e] = "alive" => Flushed.life[e] = "alive"
      BY FlushFacts DEF SpawnerInv
    <3>3. \A e \in Entity : Flushed.life[e] # "pending"
      <4>. SUFFICES ASSUME NEW e \in Entity, Flushed.life[e] = "pending" PROVE FALSE
        OBVIOUS
      <4>1. life[e] = "pending"
        BY <3>2, HostTypes DEF Onward
      <4>. QED BY <3>2, <4>1 DEF SpawnerInv, BirthsRight
    <3>. HIDE DEF w
    <3>. QED BY <1>6, <2>1, <2>2, <3>1, <3>2, <3>3
  <2>3. CASE r \notin Machined
    <3>1. w = [life |-> life, parent |-> parent, adopted |-> adopted]
      BY <2>3
    <3>. HIDE DEF w
    <3>2. w.life = life /\ w.parent = parent /\ w.adopted = adopted
      BY <3>1
    <3>3. w \in Worlds
      BY <3>1 DEF Worlds, SpawnerInv, SpawnerTypes
    <3>4. \A e \in Entity : Onward(life[e], life[e])
      BY HostTypes DEF Onward
    <3>. QED BY <2>1, <2>3, <3>2, <3>3, <3>4
  <2>. QED BY <2>2, <2>3
<1>11. Builds(r, kids, world)
  BY <1>1, <1>2, <1>7, <1>8, <1>9, <1>10 DEF Builds
<1>. QED BY <1>3, <1>5, <1>6, <1>11

\* The frames that enter and announce what was built.
LEMMA BuildFrames ==
  ASSUME SpawnerInv, build, NEW r \in Root, r = Top.who,
         NEW kids \in SUBSET Entity, kids = Children(r), IsFiniteSet(kids)
  PROVE  \E new, t \in Seq(FrameType) :
           /\ Replaced(new, t) /\ DOMAIN new = {1, 2}
           /\ new[1].do = "enter" /\ new[1].who = r /\ new[2].do = "announce"
<1>. DEFINE rest == Tail(todo)
            n == Len(rest)
            more == SetToSeq(kids)
            behind == [rest EXCEPT ![n].subtree = @ \o more]
            next == <<Frame("enter", r), Frame("announce", r)>>
<1>1. todo' = next \o behind /\ todo # <<>> /\ r \in Entity \cup {None}
  BY DEF build, Doing, Entity
<1>2. rest \in Seq(FrameType) /\ n \in Nat /\ n = Len(todo) - 1 /\ DOMAIN rest = 1 .. n
      /\ \A k \in 1 .. n : rest[k] = todo[k + 1] /\ rest[k] \in FrameType
  BY <1>1 DEF SpawnerInv, SpawnerTypes
<1>3. more \in Seq(Entity)
  <2>1. more \in Seq(kids)
    BY ListOfSet
  <2>. QED BY <2>1
<1>. HIDE DEF more
<1>4. behind = [k \in 1 .. n |-> IF k = n THEN [rest[k] EXCEPT !.subtree = @ \o more] ELSE rest[k]]
  BY <1>2
<1>5. ASSUME NEW f \in FrameType
      PROVE  /\ [f EXCEPT !.subtree = @ \o more] \in FrameType
             /\ [f EXCEPT !.subtree = @ \o more].do = f.do /\ [f EXCEPT !.subtree = @ \o more].who = f.who
  <2>1. PICK list : list = f.subtree \o more
    OBVIOUS
  <2>2. list \in Seq(Entity)
    <3>1. f.subtree \in Seq(Entity)
      BY DEF FrameType
    <3>. QED BY <1>3, <2>1, <3>1, ConcatProperties
  <2>3. [f EXCEPT !.subtree = @ \o more] = [f EXCEPT !.subtree = list]
    BY <2>1
  <2>. QED BY <2>2, <2>3 DEF FrameType
<1>6. PICK t : t = behind
  OBVIOUS
<1>7. ASSUME NEW k \in 1 .. n
      PROVE  t[k] \in FrameType /\ t[k].do = todo[k + 1].do /\ t[k].who = todo[k + 1].who
  <2>1. t[k] = IF k = n THEN [rest[k] EXCEPT !.subtree = @ \o more] ELSE rest[k]
    BY <1>4, <1>6
  <2>2. rest[k] = todo[k + 1] /\ rest[k] \in FrameType
    BY <1>2
  <2>. HIDE DEF rest
  <2>3. PICK f \in FrameType : f = rest[k]
    BY <2>2
  <2>4. t[k] = f \/ t[k] = [f EXCEPT !.subtree = @ \o more]
    BY <2>1, <2>3
  <2>. QED BY <1>5, <2>2, <2>3, <2>4
<1>8. DOMAIN t = 1 .. n /\ t \in [1 .. n -> FrameType]
  BY <1>2, <1>4, <1>6, <1>7
<1>9. t \in Seq(FrameType) /\ Len(t) = n
  BY <1>2, <1>8, ListIn
<1>10. PICK new : new = next
  OBVIOUS
<1>11. /\ new \in Seq(FrameType) /\ DOMAIN new = {1, 2}
       /\ new[1].do = "enter" /\ new[1].who = r /\ new[2].do = "announce"
  <2>1. /\ Frame("enter", r) \in FrameType /\ Frame("enter", r).do = "enter" /\ Frame("enter", r).who = r
        /\ Frame("announce", r) \in FrameType /\ Frame("announce", r).do = "announce"
    BY <1>1, FrameFacts DEF Op
  <2>. QED BY <1>10, <2>1
<1>12. todo' = new \o t
  BY <1>1, <1>6, <1>10
<1>13. Len(t) = Len(todo) - 1 /\ \A k \in 1 .. Len(t) : t[k].do = todo[k + 1].do /\ t[k].who = todo[k + 1].who
  BY <1>2, <1>7, <1>9
<1>14. Replaced(new, t)
  BY <1>1, <1>9, <1>11, <1>12, <1>13 DEF Replaced
<1>. QED BY <1>9, <1>11, <1>14

\* A prefab is built: the world may be flushed, its children, of which none
\* was ever issued, are alive at once.
LEMMA BuildStep ==
  ASSUME SpawnerInv, build
  PROVE  /\ SpawnerInv' /\ phase' = phase /\ pending' = pending
         /\ \E new, t : /\ Replaced(new, t)
                        /\ \A i \in DOMAIN new : new[i].do \in {"enter", "announce"}
         /\ Top.do = "build" /\ Top.who \in Root
         /\ \A e \in Entity : (Live(e)' /\ seat'[e] = "none") => (Live(e) /\ seat[e] = "none" /\ e # Top.who)
         /\ \A e \in Entity : life'[e] = "pending" => life[e] = "pending"
<1>1. /\ todo # <<>> /\ Top.do = "build" /\ life[Top.who] = "alive"
      /\ tick' = tick /\ phase' = phase /\ poisoned' = poisoned
      /\ pending' = pending /\ lingers' = lingers /\ last_prepared' = last_prepared
      /\ queued_reaps' = queued_reaps /\ promised' = promised
  BY DEF build, Doing, clockVars, queueVars
<1>2. PICK r \in Root, world \in Worlds : \E kids : Builds(r, kids, world)
  BY BuildWorld
<1>3. phase = "structural"
  BY BuildWorld
<1>4. PICK kids : Builds(r, kids, world)
  BY <1>2
<1>5. ~Awaits("flush") /\ ~Awaits("realize") /\ ~Awaits("drain")
  BY BuildWorld
<1>6. /\ \A e \in Entity : Live(e) => promised[e] > last_prepared
      /\ \A k \in DOMAIN commands : commands[k].op # "despawn"
  BY BuildWorld
<1>7. r = Top.who /\ r \in Entity /\ Waiting("build", r) /\ kids = Children(r)
  BY <1>4 DEF Builds
<1>8. /\ kids \in SUBSET Child /\ kids \in SUBSET Entity /\ r \notin kids /\ IsFiniteSet(kids)
      /\ \A c \in kids : ChildOf[c] = r
  BY <1>4 DEF Builds
<1>9. \A c \in kids : life[c] = "free" /\ promised[c] = Never
  BY <1>4 DEF Builds
<1>10. /\ life' = [e \in Entity |-> IF e \in kids THEN "alive" ELSE world.life[e]]
       /\ parent' = world.parent
       /\ \A e \in Entity : Onward(life[e], world.life[e]) /\ (life[e] = "alive" => world.life[e] = "alive")
       /\ \/ r \in Machined /\ \A e \in Entity : world.life[e] # "pending"
          \/ r \notin Machined /\ world.life = life
  BY <1>4 DEF Builds
<1>11. \A e \in Entity : /\ life'[e] = IF e \in kids THEN "alive" ELSE world.life[e]
                         /\ world.life[e] \in {"free", "pending", "alive", "dead"}
                         /\ life[e] \in {"free", "pending", "alive", "dead"}
  BY <1>10, HostTypes DEF Worlds
<1>12. \A e \in Entity : /\ life[e] # "free" => life'[e] # "free" /\ e \notin kids
                         /\ life'[e] = "free" => life[e] = "free"
                         /\ life'[e] = "pending" => life[e] = "pending" /\ r \notin Machined
                         /\ Live(e)' => Live(e) \/ e \in kids
                         /\ e \notin kids /\ life'[e] # "free" => life[e] # "free"
  BY <1>8, <1>9, <1>10, <1>11 DEF Onward, Live
<1>13. /\ commands' \in Seq(Command)
       /\ \A k \in DOMAIN commands' : commands'[k].op # "despawn" /\ (\A x : commands'[k] # Despawn(x))
       /\ r \notin Machined => \A k \in DOMAIN commands : k \in DOMAIN commands' /\ commands'[k] = commands[k]
  <2>. DEFINE before == IF r \in Machined THEN <<>> ELSE commands
              list == SetToSeq(kids)
              moves == [k \in 1 .. Cardinality(kids) |-> Reparent(list[k], r)]
  <2>1. commands' = before \o moves
    BY <1>7 DEF build, Attachments
  <2>2. list \in Seq(kids) /\ Len(list) = Cardinality(kids) /\ Cardinality(kids) \in Nat
    BY <1>8, ListOfSet, FS_CardinalityType
  <2>3. PICK n \in Nat : n = Cardinality(kids)
    BY <2>2
  <2>4. \A k \in 1 .. n : list[k] \in Child
    BY <1>8, <2>2, <2>3
  <2>. HIDE DEF list
  <2>5. \A k \in 1 .. n : moves[k] \in Command /\ moves[k].op = "reparent"
    <3>1. \A c \in Child : Reparent(c, r) \in Command /\ Reparent(c, r).op = "reparent"
      BY DEF Reparent, Command
    <3>. QED BY <2>3, <2>4, <3>1
  <2>6. moves \in [1 .. n -> Command] /\ DOMAIN moves = 1 .. n
    BY <2>3, <2>5
  <2>7. PICK tail : tail = moves
    OBVIOUS
  <2>8. tail \in Seq(Command) /\ DOMAIN tail = 1 .. n /\ Len(tail) = n /\ \A k \in 1 .. n : tail[k].op = "reparent"
    <3>1. tail \in [1 .. n -> Command]
      BY <2>6, <2>7
    <3>2. tail \in Seq(Command)
      BY <3>1, ListIn
    <3>. HIDE DEF moves
    <3>3. \A k \in 1 .. n : tail[k].op = "reparent"
      BY <2>5, <2>7
    <3>. QED BY <3>1, <3>2, <3>3
  <2>9. PICK head : head = before
    OBVIOUS
  <2>. HIDE DEF before, moves
  <2>10. head \in Seq(Command) /\ \A k \in DOMAIN head : head[k].op # "despawn"
    <3>1. commands \in Seq(Command)
      BY DEF SpawnerInv, SpawnerTypes
    <3>. QED BY <1>6, <2>9, <3>1 DEF before
  <2>11. commands' = head \o tail
    BY <2>1, <2>7, <2>9
  <2>12. /\ Len(head) \in Nat /\ DOMAIN head = 1 .. Len(head) /\ DOMAIN commands' = 1 .. Len(head) + n
         /\ commands' \in Seq(Command)
         /\ \A k \in DOMAIN head : commands'[k] = head[k]
         /\ \A k \in 1 .. n : commands'[Len(head) + k] = tail[k]
    BY <2>3, <2>8, <2>10, <2>11
  <2>13. ASSUME NEW k \in DOMAIN commands' PROVE commands'[k].op # "despawn"
    <3>1. CASE k \in DOMAIN head
      BY <2>10, <2>12, <3>1
    <3>2. CASE k \notin DOMAIN head
      <4>1. PICK l \in 1 .. n : l = k - Len(head)
        BY <2>3, <2>12, <3>2
      <4>2. k = Len(head) + l
        BY <2>3, <2>12, <4>1
      <4>3. commands'[k] = tail[l]
        BY <2>12, <4>2
      <4>. QED BY <2>8, <4>3
    <3>. QED BY <3>1, <3>2
  <2>14. r \notin Machined => head = commands
    BY <2>9 DEF before
  <2>15. \A x : Despawn(x).op = "despawn"
    BY DEF Despawn
  <2>16. r \notin Machined => \A k \in DOMAIN commands : k \in DOMAIN commands' /\ commands'[k] = commands[k]
    BY <2>3, <2>12, <2>14
  <2>. QED BY <2>12, <2>13, <2>15, <2>16
<1>14. PICK new \in Seq(FrameType), t \in Seq(FrameType) :
         /\ Replaced(new, t) /\ DOMAIN new = {1, 2}
         /\ new[1].do = "enter" /\ new[1].who = r /\ new[2].do = "announce"
  BY <1>7, <1>8, BuildFrames
<1>15. /\ (\A do, x : Waiting(do, x) <=> (Top.do = do /\ Top.who = x) \/ Behind(do, x))
       /\ (\A do : Awaits(do) <=> Top.do = do \/ AwaitsBehind(do))
       /\ (\A k \in 2 .. Len(todo) : Fits(Top, todo[k]))
  BY <1>1, TopFacts DEF SpawnerInv
<1>16. /\ (\A do, x : Waiting(do, x)' <=> (\E k \in DOMAIN new : new[k].do = do /\ new[k].who = x) \/ Behind(do, x))
       /\ (\A do : Awaits(do)' <=> (\E k \in DOMAIN new : new[k].do = do) \/ AwaitsBehind(do))
       /\ todo' \in Seq(FrameType)
  <2>1. SpawnerTypes /\ Replaced(new, t)
    BY <1>14 DEF SpawnerInv
  <2>. QED BY <2>1, ReplacedFacts
<1>17. /\ \A x : Waiting("build", x)' => Waiting("build", x) /\ x # r
       /\ ~Awaits("scene_stands")'
  <2>1. \A x : Behind("build", x) => x # r
    BY <1>1, <1>7, <1>15 DEF Behind, Fits
  <2>2. ~AwaitsBehind("scene_stands")
    BY <1>3, <1>15 DEF SpawnerInv, PhaseRight
  <2>. QED BY <1>14, <1>15, <1>16, <2>1, <2>2
<1>18. \A k \in DOMAIN pending : pending[k] # r
  BY <1>7 DEF SpawnerInv, BirthsRight
<1>19. seat' = [e \in Entity |-> IF e \in kids \cup {r} THEN "seated" ELSE seat[e]]
  BY <1>7 DEF build
<1>20. SpawnerTypes'
  <2>1. life' \in [Entity -> {"free", "pending", "alive", "dead"}] /\ parent' \in [Entity -> Root \cup {None}]
    BY <1>10, <1>11 DEF Worlds
  <2>2. seat' \in [Entity -> {"none", "seated", "exited", "released"}]
    BY <1>19, HostTypes
  <2>3. machine' \in [Root -> {"none", "seated", "live", "exited"}]
    <3>1. machine' = machine \/ machine' = [machine EXCEPT ![r] = "seated"]
      BY <1>7 DEF build
    <3>. QED BY <3>1, HostTypes
  <2>4. adopted' \in SUBSET Entity
    <3>1. adopted' = world.adopted \cup {r} /\ world.adopted \in SUBSET Entity
      BY <1>4 DEF Builds, Worlds
    <3>. QED BY <1>7, <3>1
  <2>. QED BY <1>1, <1>13, <1>16, <2>1, <2>2, <2>3, <2>4 DEF SpawnerInv, SpawnerTypes, Never
<1>21. StackRight'
  <2>1. \A e \in Entity : /\ promised[e] \in Nat /\ promised'[e] \in Nat /\ promised'[e] <= promised[e]
                          /\ life[e] # "free" => life'[e] # "free"
    BY <1>1, <1>12, Typed DEF SpawnerInv
  <2>2. Stage("enter") = 6 /\ Stage("announce") = 6 /\ Stage(Top.do) = 6
    BY <1>1 DEF Stage
  <2>3. \A i, j \in DOMAIN new : i < j => Fits(new[i], new[j])
    BY <1>14, <2>2 DEF Fits
  <2>4. ASSUME NEW i \in DOMAIN new
        PROVE  /\ Stage(new[i].do) <= Stage(Top.do) /\ new[i].do # "build"
               /\ Stage(new[i].do) \in {1, 2} => Stage(Top.do) = 1
               /\ FrameRight(new[i])'
    <3>1. PICK f : f = new[i]
      OBVIOUS
    <3>2. (f.do = "enter" /\ f.who = r) \/ f.do = "announce"
      BY <1>14, <3>1
    <3>3. FrameRight(f)'
      BY <1>7, <3>2 DEF FrameRight
    <3>4. Stage(f.do) = 6 /\ f.do # "build"
      BY <2>2, <3>2
    <3>. QED BY <2>2, <3>1, <3>3, <3>4
  <2>. QED BY <1>1, <1>14, <2>1, <2>3, <2>4, ReplacedStack DEF SpawnerInv
<1>22. PhaseRight'
  <2>1. queued_reaps = <<>>
    BY <1>3, <1>5 DEF SpawnerInv, PhaseRight
  <2>. QED BY <1>1, <1>3, <1>13, <1>17, <2>1 DEF SpawnerInv, PhaseRight
<1>23. PromisesRight'
  <2>1. \A e \in Entity : Live(e)' => ~(promised[e] <= last_prepared)
    <3>1. Never > last_prepared /\ Never \in Nat /\ last_prepared \in Nat /\ \A e \in Entity : promised[e] \in Nat
      BY Typed DEF SpawnerInv
    <3>. QED BY <1>6, <1>9, <1>12, <3>1
  <2>2. \A e \in Entity : Live(e)' /\ promised[e] > last_prepared /\ promised[e] # Never =>
          \E k \in DOMAIN lingers : lingers[k].ref = e /\ lingers[k].due <= promised[e]
    BY <1>9, <1>12 DEF SpawnerInv, PromisesRight
  <2>3. \A k \in DOMAIN lingers : promised[lingers[k].ref] <= lingers[k].due /\ life'[lingers[k].ref] # "free"
    <3>1. \A k \in DOMAIN lingers : lingers[k].ref \in Entity
      BY Typed DEF SpawnerInv
    <3>. QED BY <1>12, <3>1 DEF SpawnerInv, PromisesRight
  <2>4. \A k \in DOMAIN queued_reaps : promised[queued_reaps[k].ref] <= tick
    BY DEF SpawnerInv, PromisesRight
  <2>. QED BY <1>1, <2>1, <2>2, <2>3, <2>4 DEF PromisesRight, Never
<1>24. BirthsRight'
  <2>1. \A e \in Entity : life'[e] = "free" => promised[e] = Never
    BY <1>12 DEF SpawnerInv, BirthsRight
  <2>2. ASSUME NEW e \in Entity, life'[e] = "pending"
        PROVE  \E j \in DOMAIN commands' :
                 commands'[j] = Spawn(e) /\ \A k \in DOMAIN commands' : commands'[k] = Despawn(e) => j < k
    <3>1. life[e] = "pending" /\ r \notin Machined
      BY <1>12, <2>2
    <3>2. PICK j \in DOMAIN commands : commands[j] = Spawn(e)
      BY <3>1 DEF SpawnerInv, BirthsRight
    <3>. QED BY <1>13, <3>1, <3>2
  <2>3. \A k \in DOMAIN pending : life'[pending[k]] # "free"
    <3>1. \A k \in DOMAIN pending : pending[k] \in Entity
      BY Typed DEF SpawnerInv
    <3>. QED BY <1>12, <3>1 DEF SpawnerInv, BirthsRight
  <2>4. ASSUME NEW c \in Child, life'[c] # "free"
        PROVE  /\ life'[ChildOf[c]] # "free" /\ ~Waiting("build", ChildOf[c])'
               /\ \A k \in DOMAIN pending : pending[k] # ChildOf[c]
    <3>1. c \in Entity /\ ChildOf[c] \in Entity
      BY PrefabAssumption DEF Entity
    <3>2. CASE c \in kids
      <4>1. ChildOf[c] = r
        BY <1>8, <3>2
      <4>2. life'[r] # "free"
        BY <1>1, <1>7, <1>12
      <4>. QED BY <1>17, <1>18, <4>1, <4>2
    <3>3. CASE c \notin kids
      <4>1. life[c] # "free"
        BY <1>12, <2>4, <3>1, <3>3
      <4>2. /\ life[ChildOf[c]] # "free" /\ ~Waiting("build", ChildOf[c])
            /\ \A k \in DOMAIN pending : pending[k] # ChildOf[c]
        BY <4>1 DEF SpawnerInv, BirthsRight
      <4>. QED BY <1>12, <1>17, <3>1, <4>2
    <3>. QED BY <3>2, <3>3
  <2>5. /\ \A i, j \in DOMAIN pending : pending[i] = pending[j] => i = j
        /\ \A k \in DOMAIN pending : ~Waiting("build", pending[k])
    BY DEF SpawnerInv, BirthsRight
  <2>. QED BY <1>1, <1>13, <1>17, <2>1, <2>2, <2>3, <2>4, <2>5 DEF BirthsRight, Never
<1>25. \A i \in DOMAIN new : new[i].do \in {"enter", "announce"}
  BY <1>14
<1>26. \A e \in Entity : (Live(e)' /\ seat'[e] = "none") => (Live(e) /\ seat[e] = "none" /\ e # Top.who)
  BY <1>7, <1>12, <1>19
<1>. QED BY <1>1, <1>7, <1>12, <1>14, <1>20, <1>21, <1>22, <1>23, <1>24, <1>25, <1>26 DEF SpawnerInv

-----------------------------------------------------------------------------
\* The first state.
LEMMA SpawnerStart ==
  ASSUME SpawnerInit
  PROVE  SpawnerInv
<1>1. /\ tick = 0 /\ phase = "boot" /\ poisoned = FALSE /\ todo = <<>> /\ last_prepared = 0
      /\ commands = <<>> /\ pending = <<>> /\ lingers = <<>> /\ queued_reaps = <<>>
      /\ life = [e \in Entity |-> "free"] /\ parent = [e \in Entity |-> None] /\ adopted = {}
      /\ seat = [e \in Entity |-> "none"] /\ machine = [r \in Root |-> "none"]
      /\ promised = [e \in Entity |-> Never]
  BY DEF SpawnerInit
<1>2. DOMAIN (<<>>) = {}
  OBVIOUS
<1>3. SpawnerTypes
  <2>1. commands \in Seq(Command) /\ pending \in Seq(Root) /\ queued_reaps \in Seq(Reap) /\ todo \in Seq(FrameType)
    BY <1>1
  <2>2. lingers \in Seq([ref : Entity, due : Nat])
    BY <1>1
  <2>3. Never \in 0 .. Never /\ tick \in 0 .. MaxTick /\ last_prepared \in 0 .. tick
    BY <1>1, SpawnerBoundsAssumption DEF Never
  <2>. QED BY <1>1, <2>1, <2>2, <2>3, Zenon DEF SpawnerTypes
<1>4. StackRight /\ (\A do : ~Awaits(do)) /\ \A do, e : ~Waiting(do, e)
  BY <1>1, EmptyStack
<1>5. PhaseRight
  BY <1>1, <1>2 DEF PhaseRight, Untouched
<1>6. \A e \in Entity : life[e] = "free" /\ promised[e] = Never /\ ~Live(e)
  BY <1>1 DEF Live
<1>7. PromisesRight
  BY <1>1, <1>2, <1>6 DEF PromisesRight
<1>8. BirthsRight
  BY <1>1, <1>2, <1>6, PrefabAssumption DEF BirthsRight, Entity
<1>. QED BY <1>3, <1>4, <1>5, <1>7, <1>8 DEF SpawnerInv

\* Every error ends the tick where it stands.
LEMMA AbortSteps ==
  ASSUME SpawnerInv, refuse_despawn \/ refuse_build \/ (structural_apply /\ poisoned)
  PROVE  SpawnerInv' /\ phase' = "aborted"
<1>1. abort /\ tick' = tick
  BY DEF refuse_despawn, refuse_build, structural_apply
<1>4. adopted' \in SUBSET Entity
  <2>1. adopted \in SUBSET Entity
    BY DEF SpawnerInv, SpawnerTypes
  <2>2. refuse_build => Top.who \in Entity
    BY BuildTop DEF refuse_build, Doing, Entity
  <2>. QED BY <2>1, <2>2 DEF refuse_despawn, refuse_build, structural_apply
<1>2. tick \in 0 .. MaxTick /\ tick' >= tick
  BY <1>1, SpawnerBoundsAssumption DEF SpawnerInv, SpawnerTypes
<1>3. SpawnerInv'
  BY <1>1, <1>2, <1>4, AbortStep
<1>. QED BY <1>1, <1>3 DEF abort

\* Any other error of a build ends the tick, and the list with it.
LEMMA GiveUpStep ==
  ASSUME SpawnerInv, refuse_adopted \/ refuse_prefab
  PROVE  SpawnerInv' /\ phase = "structural" /\ Top.who \in Root
<1>1. /\ todo # <<>> /\ Top.do = "build" /\ give_up
      /\ adopted' = adopted \/ adopted' = adopted \cup {Top.who}
  BY DEF refuse_adopted, refuse_prefab, Doing
<1>2. Top.who \in Root /\ phase = "structural"
  BY <1>1, BuildTop, InPhase8
<1>3. /\ phase' = "between" /\ todo' = <<>> /\ tick' = tick /\ poisoned' = poisoned
      /\ life' = life /\ parent' = parent /\ commands' = commands /\ pending' = pending
      /\ lingers' = lingers /\ last_prepared' = last_prepared /\ queued_reaps' = queued_reaps
      /\ promised' = promised /\ seat' = seat /\ machine' = machine
  BY <1>1 DEF give_up, queueVars
<1>4. SpawnerTypes'
  <2>1. adopted' \in SUBSET Entity
    BY <1>1, <1>2 DEF SpawnerInv, SpawnerTypes, Entity
  <2>. QED BY <1>3, <2>1 DEF SpawnerInv, SpawnerTypes, Never
<1>5. StackRight' /\ (\A do : ~Awaits(do)') /\ \A do, e : ~Waiting(do, e)'
  BY <1>3, EmptyStack
<1>6. ~Awaits("flush") /\ ~Awaits("realize") /\ ~Awaits("drain")
  <2>1. \A do : Awaits(do) <=> Top.do = do \/ AwaitsBehind(do)
    BY <1>1, TopFacts DEF SpawnerInv
  <2>2. \A do \in {"hook", "flush", "realize", "drain"} : ~AwaitsBehind(do)
    BY <1>1, Beneath DEF SpawnerInv
  <2>. QED BY <1>1, <2>1, <2>2
<1>7. PhaseRight'
  BY <1>2, <1>3, <1>5, <1>6 DEF SpawnerInv, PhaseRight
<1>8. PromisesRight'
  BY <1>2, <1>3, <1>5, <1>6 DEF SpawnerInv, PromisesRight, Live
<1>9. BirthsRight'
  BY <1>3, <1>5 DEF SpawnerInv, BirthsRight
<1>. QED BY <1>2, <1>4, <1>5, <1>7, <1>8, <1>9 DEF SpawnerInv

\* A step that changes nothing.
LEMMA SameInv ==
  ASSUME SpawnerInv, UNCHANGED spawnerVars
  PROVE  SpawnerInv'
<1>1. /\ tick' = tick /\ phase' = phase /\ poisoned' = poisoned /\ life' = life /\ parent' = parent /\ adopted' = adopted
      /\ commands' = commands /\ pending' = pending /\ lingers' = lingers /\ last_prepared' = last_prepared
      /\ queued_reaps' = queued_reaps /\ promised' = promised /\ todo' = todo /\ seat' = seat /\ machine' = machine
  BY DEF spawnerVars, clockVars, worldVars, queueVars, hostVars
<1>2. SpawnerTypes'
  BY <1>1 DEF SpawnerInv, SpawnerTypes
<1>3. StackRight' /\ PhaseRight' /\ PromisesRight' /\ BirthsRight'
  BY <1>1 DEF SpawnerInv, StackRight, PhaseRight, PromisesRight, BirthsRight, InOrder, FlushAhead,
              FrameRight, Awaits, Waiting, SceneEnters, Untouched, Live
<1>. QED BY <1>2, <1>3 DEF SpawnerInv

\* Whatever is called, refused or run next.
LEMMA SpawnerStep ==
  ASSUME SpawnerInv, [SpawnerNext]_spawnerVars
  PROVE  SpawnerInv'
<1>1. CASE Calls
  <2>1. ASSUME NEW r \in Root, spawn_prefab(r) PROVE SpawnerInv'
    BY <2>1, SpawnStep
  <2>2. ASSUME NEW e \in Entity, NEW delay \in 0 .. MaxDelay, despawn(e, delay) PROVE SpawnerInv'
    BY <2>2, DespawnStep
  <2>3. ASSUME NEW c \in Child, NEW p \in Root, queue_attach(c, p) PROVE SpawnerInv'
    <3>1. c \in Entity /\ p \in Root \cup {None}
      BY DEF Entity
    <3>. QED BY <2>3, <3>1, AttachStep
  <2>4. ASSUME NEW e \in Entity, queue_attach(e, None) PROVE SpawnerInv'
    BY <2>4, AttachStep
  <2>. QED BY <1>1, <2>1, <2>2, <2>3, <2>4, Zenon DEF Calls
<1>2. CASE drop_stale \/ user_returns \/ drop_unborn
  BY <1>2, PopSteps
<1>3. CASE journal_refuses
  BY <1>3, JournalStep
<1>4. ASSUME NEW scene \in SUBSET Root, spawn_scene(scene) PROVE SpawnerInv'
  BY <1>4, SceneStep
<1>5. CASE scene_stands
  BY <1>5, StandStep
<1>6. CASE begin_tick
  BY <1>6, BeginStep
<1>7. CASE structural_apply /\ ~poisoned
  BY <1>7, ApplyStep
<1>8. CASE refuse_despawn \/ refuse_build \/ (structural_apply /\ poisoned)
  BY <1>8, AbortSteps
<1>9. CASE end_tick
  BY <1>9, EndStep
<1>10. CASE despawn_pending \/ remove
  BY <1>10, RemovalStep
<1>11. CASE despawn_alive
  BY <1>11, LeaveStep
<1>12. CASE exit_machine \/ despawn_exit \/ enter \/ announce
  BY <1>12, HostSteps
<1>13. CASE flush_structural \/ (settle /\ Top.subtree # <<>>)
  BY <1>13, FlushStep
<1>14. CASE settle /\ Top.subtree = <<>>
  BY <1>14, SettleQuiet
<1>15. CASE realize
  BY <1>15, RealizeStep
<1>16. CASE bury
  BY <1>16, BuryStep
<1>17. CASE drain
  BY <1>17, DrainStep
<1>18. CASE build
  BY <1>18, BuildStep
<1>19. CASE UNCHANGED spawnerVars
  BY <1>19, SameInv
<1>20. CASE refuse_adopted \/ refuse_prefab
  BY <1>20, GiveUpStep
<1>. QED
  BY <1>1, <1>2, <1>3, <1>4, <1>5, <1>6, <1>7, <1>8, <1>9, <1>10, <1>11, <1>12, <1>13, <1>14,
     <1>15, <1>16, <1>17, <1>18, <1>19, <1>20, Zenon DEF SpawnerNext, Prepare, Realize

\* The queues, the stack and the promises of every reachable state.
THEOREM SpawnerRight == SpawnerSpec => []SpawnerInv
<1>1. SpawnerInit => SpawnerInv
  BY SpawnerStart
<1>2. SpawnerInv /\ [SpawnerNext]_spawnerVars => SpawnerInv'
  BY SpawnerStep
<1>. QED BY <1>1, <1>2, PTL DEF SpawnerSpec

\* A despawned entity dies in the phase 8 of its earliest deadline, neither
\* later nor earlier (despawn and prepare, prefab_spawn.cpp).
THEOREM EveryDeadlineKept == SpawnerSpec => []DeadlinesKept
<1>1. ASSUME SpawnerInv PROVE DeadlinesKept
  <2>1. phase \in {"between", "open"} =>
          /\ todo = <<>> /\ queued_reaps = <<>>
          /\ \A k \in DOMAIN commands : commands[k].op # "despawn"
    BY <1>1, EmptyStack DEF SpawnerInv, PhaseRight
  <2>2. SpawnerTypeOK
    BY <1>1, <2>1 DEF SpawnerTypeOK, SpawnerInv, SpawnerTypes, BirthsRight, PromisesRight
  <2>3. phase = "between" => \A e \in Entity : life[e] \in {"pending", "alive"} => promised[e] > tick
    <3>. SUFFICES ASSUME phase = "between"
                  PROVE  \A e \in Entity : life[e] \in {"pending", "alive"} => promised[e] > tick
      OBVIOUS
    <3>1. ~Awaits("flush")
      BY <2>1, EmptyStack
    <3>2. tick = last_prepared
      BY <1>1 DEF SpawnerInv, PhaseRight
    <3>. QED BY <1>1, <3>1, <3>2, NoneOverdue DEF Live
  <2>4. \A k \in DOMAIN queued_reaps : promised[queued_reaps[k].ref] <= tick
    BY <1>1 DEF SpawnerInv, PromisesRight
  <2>. QED BY <2>2, <2>3, <2>4 DEF DeadlinesKept
<1>. QED BY <1>1, SpawnerRight, PTL

-----------------------------------------------------------------------------
\* Every spawn lands.  A step that replaces the top frame, brings no spawn
\* into being and calls hooks only out of an exit, an entry or an event.
LEMMA LandReplaced ==
  ASSUME SpawnerInv, LandInv, NEW new, NEW t, Replaced(new, t),
         phase' = phase, pending' = pending, lost \subseteq lost',
         \A e \in Entity : (Live(e)' /\ seat'[e] = "none") =>
           Live(e) /\ seat[e] = "none" /\ ~(Top.do = "build" /\ Top.who = e),
         \A e \in Entity : life'[e] = "pending" => life[e] = "pending" /\ Top.do # "flush",
         \A i \in DOMAIN new :
           /\ new[i].do \notin {"build", "flush", "realize", "drain"}
           /\ new[i].do = "hook" => Top.do \in {"exit_machine", "exit_seat", "enter", "announce"}
  PROVE  LandInv'
<1>1. todo # <<>>
  BY DEF Replaced
<1>2. /\ (\A do, x : Waiting(do, x) <=> (Top.do = do /\ Top.who = x) \/ Behind(do, x))
      /\ (\A do : Awaits(do) <=> Top.do = do \/ AwaitsBehind(do))
      /\ 1 \in DOMAIN todo /\ Top = todo[1]
  BY <1>1, TopFacts DEF SpawnerInv
<1>3. /\ (\A do, x : Waiting(do, x)' <=> (\E k \in DOMAIN new : new[k].do = do /\ new[k].who = x) \/ Behind(do, x))
      /\ (\A do : Awaits(do)' <=> (\E k \in DOMAIN new : new[k].do = do) \/ AwaitsBehind(do))
  BY ReplacedFacts DEF SpawnerInv
<1>4. /\ \A x : Waiting("build", x)' <=> Behind("build", x)
      /\ \A do \in {"build", "flush", "realize", "drain"} : Awaits(do)' <=> AwaitsBehind(do)
  BY <1>3
<1>5. Root \in SUBSET Entity
  BY DEF Entity
<1>6. ASSUME NEW r \in Root, phase' # "aborted", Live(r)', seat'[r] = "none"
      PROVE  Waiting("build", r)' \/ (\E k \in DOMAIN pending' : pending'[k] = r) \/ r \in lost'
  <2>1. Live(r) /\ seat[r] = "none" /\ ~(Top.do = "build" /\ Top.who = r)
    BY <1>5, <1>6
  <2>2. Waiting("build", r) \/ (\E k \in DOMAIN pending : pending[k] = r) \/ r \in lost
    BY <1>6, <2>1 DEF LandInv
  <2>. QED BY <1>2, <1>4, <2>1, <2>2
<1>7. ASSUME NEW r \in Root, Waiting("build", r)' PROVE life'[r] # "pending"
  <2>1. Waiting("build", r)
    BY <1>2, <1>4, <1>7
  <2>. QED BY <1>5, <2>1 DEF LandInv
<1>8. Awaits("realize")' \/ Awaits("drain")' => ~Awaits("build")'
  BY <1>2, <1>4 DEF LandInv
<1>9. ASSUME Awaits("realize")' \/ Awaits("drain")', ~Awaits("flush")'
      PROVE  ~Awaits("hook")' /\ \A e \in Entity : life'[e] # "pending"
  <2>1. AwaitsBehind("realize") \/ AwaitsBehind("drain")
    BY <1>4, <1>9
  <2>2. ~AwaitsBehind("flush")
    BY <1>4, <1>9
  <2>3. ASSUME NEW i \in DOMAIN new, new[i].do = "hook" PROVE FALSE
    <3>1. CASE Top.do \in {"enter", "announce"}
      BY <1>1, <2>1, <3>1, Beneath DEF SpawnerInv
    <3>2. CASE Top.do \in {"exit_machine", "exit_seat"}
      <4>1. Stage(Top.do) = 1 /\ Top.do # "flush"
        BY <3>2 DEF Stage
      <4>2. Awaits("flush")
        BY <1>2, <4>1 DEF SpawnerInv, StackRight, FlushAhead
      <4>. QED BY <1>2, <2>2, <4>1, <4>2
    <3>. QED BY <2>3, <3>1, <3>2
  <2>4. ~AwaitsBehind("hook") /\ \A e \in Entity : life'[e] # "pending"
    <3>1. CASE Top.do = "flush"
      BY <1>1, <3>1, Beneath DEF SpawnerInv
    <3>2. CASE Top.do # "flush"
      <4>1. ~Awaits("flush") /\ (Awaits("realize") \/ Awaits("drain"))
        BY <1>2, <2>1, <2>2, <3>2
      <4>2. ~Awaits("hook") /\ \A e \in Entity : life[e] # "pending"
        BY <4>1 DEF LandInv
      <4>. QED BY <1>2, <4>2
    <3>. QED BY <3>1, <3>2
  <2>. QED BY <1>3, <2>3, <2>4
<1>. QED BY <1>6, <1>7, <1>8, <1>9 DEF LandInv

\* A quiet step.
LEMMA LandQuiet ==
  ASSUME SpawnerInv, LandInv, NEW new, NEW t, Replaced(new, t), Quiet(new), lost \subseteq lost',
         \A e \in Entity : seat'[e] = "none" => seat[e] = "none",
         Top.do = "build" => life[Top.who] # "alive",
         \A i \in DOMAIN new :
           new[i].do = "hook" => Top.do \in {"exit_machine", "exit_seat", "enter", "announce"}
  PROVE  LandInv'
<1>1. life' = life /\ phase' = phase /\ pending' = pending
  BY DEF Quiet, clockVars, worldVars, queueVars
<1>2. /\ Top.do # "flush"
      /\ \A i \in DOMAIN new : new[i].do \notin {"build", "flush", "realize", "drain"}
  BY DEF Quiet
<1>3. ASSUME NEW e \in Entity, Top.do = "build", Top.who = e PROVE ~Live(e)
  <2>1. 1 \in DOMAIN todo /\ Top = todo[1] /\ todo # <<>>
    <3>1. todo # <<>>
      BY DEF Replaced
    <3>. QED BY <3>1, TopFacts DEF SpawnerInv
  <2>2. FrameRight(Top)
    BY <2>1 DEF SpawnerInv, StackRight
  <2>3. e \in Root /\ Waiting("build", e)
    BY <1>3, <2>1, <2>2 DEF FrameRight, Waiting
  <2>4. life[e] # "pending"
    BY <2>3 DEF LandInv
  <2>. QED BY <1>3, <2>4 DEF Live
<1>4. \A e \in Entity : (Live(e)' /\ seat'[e] = "none") =>
        Live(e) /\ seat[e] = "none" /\ ~(Top.do = "build" /\ Top.who = e)
  BY <1>1, <1>3 DEF Live
<1>. QED BY <1>1, <1>2, <1>4, LandReplaced

\* A step that leaves the stack, the lives, the seats and the list alone.
LEMMA LandSame ==
  ASSUME LandInv, phase # "aborted", todo' = todo, life' = life, seat' = seat, pending' = pending,
         lost \subseteq lost'
  PROVE  LandInv'
BY DEF LandInv, Live, Waiting, Awaits

\* Nothing is left to do, and no spawn had its frame.
LEMMA LandEmpty ==
  ASSUME LandInv, todo' = <<>>, lost \subseteq lost',
         \/ phase' = "aborted"
         \/ /\ phase # "aborted" /\ ~Awaits("build")
            /\ life' = life /\ seat' = seat /\ pending' = pending
  PROVE  LandInv'
<1>1. (\A do : ~Awaits(do)') /\ \A do, e : ~Waiting(do, e)'
  BY EmptyStack
<1>2. \A r : Waiting("build", r) => Awaits("build")
  BY DEF Waiting, Awaits
<1>. QED BY <1>1, <1>2 DEF LandInv, Live

\* A prefab is requested.  The call cannot come between the flush and the
\* swap: no hook runs there, and no listener of entity.despawned makes it.
LEMMA LandSpawn ==
  ASSUME SpawnerInv, LandInv, ~DespawnListenersSpawn, NEW r \in Root, spawn_prefab(r)
  PROVE  LandInv'
<1>1. /\ UserRuns /\ life[r] = "free" /\ ~Doing("despawned_listener")
      /\ life' = [life EXCEPT ![r] = "pending"] /\ pending' = Append(pending, r)
      /\ phase' = phase /\ todo' = todo /\ seat' = seat /\ lost' = lost
  BY DEF spawn_prefab, clockVars, hostVars, lossVars
<1>2. /\ r \in Entity /\ Root \in SUBSET Entity /\ pending \in Seq(Root)
      /\ \A e \in Entity : e # r => (life'[e] = life[e] /\ (Live(e)' <=> Live(e)))
  BY <1>1 DEF Entity, SpawnerInv, SpawnerTypes, Live
<1>3. /\ \A k \in DOMAIN pending : k \in DOMAIN pending' /\ pending'[k] = pending[k]
      /\ \E k \in DOMAIN pending' : pending'[k] = r
  <2>1. /\ Len(pending) \in Nat /\ Len(pending) + 1 \in DOMAIN pending' /\ pending'[Len(pending) + 1] = r
        /\ \A k \in DOMAIN pending : k \in DOMAIN pending' /\ pending'[k] = pending[k]
    BY <1>1, <1>2
  <2>. QED BY <2>1
<1>4. /\ (\A do : Awaits(do)' <=> Awaits(do))
      /\ (\A do, e : Waiting(do, e)' <=> Waiting(do, e))
  BY <1>1 DEF Awaits, Waiting
<1>5. ~Waiting("build", r)
  BY <1>1 DEF Waiting, SpawnerInv, StackRight, FrameRight
<1>6. Awaits("realize") \/ Awaits("drain") => Awaits("flush")
  <2>1. CASE todo = <<>>
    BY <2>1, EmptyStack
  <2>2. CASE todo # <<>>
    <3>1. Top.do = "hook"
      BY <1>1, <2>2 DEF UserRuns, Doing
    <3>2. Awaits("hook")
      BY <2>2, <3>1, TopFacts DEF SpawnerInv
    <3>. QED BY <3>2 DEF LandInv
  <2>. QED BY <2>1, <2>2
<1>7. ASSUME NEW s \in Root, phase # "aborted", Live(s)', seat[s] = "none"
      PROVE  Waiting("build", s) \/ (\E k \in DOMAIN pending' : pending'[k] = s) \/ s \in lost
  <2>1. CASE s = r
    BY <1>3, <2>1
  <2>2. CASE s # r
    <3>1. Live(s)
      BY <1>2, <1>7, <2>2
    <3>2. Waiting("build", s) \/ (\E k \in DOMAIN pending : pending[k] = s) \/ s \in lost
      BY <1>7, <3>1 DEF LandInv
    <3>. QED BY <1>3, <3>2
  <2>. QED BY <2>1, <2>2
<1>8. \A s \in Root : Waiting("build", s) => life'[s] # "pending"
  BY <1>2, <1>5 DEF LandInv
<1>. QED BY <1>1, <1>4, <1>6, <1>7, <1>8 DEF LandInv

\* The steps of phase 8 that replace the top frame.
LEMMA LandPhase ==
  ASSUME SpawnerInv, LandInv, lost \subseteq lost',
         \/ drop_stale \/ user_returns \/ drop_unborn \/ despawn_alive \/ settle \/ bury \/ build
         \/ exit_machine \/ despawn_exit \/ enter \/ announce
         \/ despawn_pending \/ remove \/ flush_structural
  PROVE  LandInv'
<1>1. DOMAIN (<<>>) = {}
  OBVIOUS
<1>2. CASE drop_stale \/ user_returns \/ drop_unborn
  <2>1. Replaced(<<>>, Tail(todo)) /\ Quiet(<<>>) /\ seat' = seat
    BY <1>2, PopSteps
  <2>2. Top.do = "build" => life[Top.who] # "alive"
    BY <1>2 DEF drop_stale, user_returns, drop_unborn, Doing
  <2>. QED BY <1>1, <2>1, <2>2, LandQuiet
<1>3. CASE despawn_alive
  <2>1. PICK new, t : /\ Replaced(new, t) /\ Quiet(new) /\ seat' = seat
                      /\ \A i \in DOMAIN new : new[i].do \notin {"hook", "despawned_listener"}
    BY <1>3, LeaveStep
  <2>2. Top.do = "due"
    BY <1>3 DEF despawn_alive, Doing
  <2>3. \A i \in DOMAIN new : new[i].do # "hook"
    BY <2>1
  <2>. QED BY <2>1, <2>2, <2>3, LandQuiet
<1>4. CASE settle /\ Top.subtree = <<>>
  <2>1. Replaced(<<>>, Tail(todo)) /\ Quiet(<<>>) /\ seat' = seat
    BY <1>4, SettleQuiet
  <2>2. Top.do = "settle"
    BY <1>4 DEF settle, Doing
  <2>. QED BY <1>1, <2>1, <2>2, LandQuiet
<1>5. CASE exit_machine \/ despawn_exit \/ enter \/ announce
  <2>1. /\ \/ Replaced(<<>>, Tail(todo)) /\ Quiet(<<>>)
           \/ \E f : f.do = "hook" /\ Replaced(<<f>>, Tail(todo)) /\ Quiet(<<f>>)
        /\ \A e \in Entity : seat'[e] = "none" => seat[e] = "none"
        /\ Top.do \in {"exit_machine", "exit_seat", "enter", "announce"}
    BY <1>5, HostSteps
  <2>2. Top.do # "build"
    BY <2>1
  <2>. QED BY <1>1, <2>1, <2>2, LandQuiet
<1>6. CASE bury
  <2>1. /\ \/ Replaced(<<>>, Tail(todo)) /\ Quiet(<<>>)
           \/ \E f : f.do = "despawned_listener" /\ Replaced(<<f>>, Tail(todo)) /\ Quiet(<<f>>)
        /\ \A e \in Entity : seat'[e] = "none" => seat[e] = "none"
    BY <1>6, BuryStep
  <2>2. Top.do = "bury"
    BY <1>6 DEF bury, Doing
  <2>3. CASE Replaced(<<>>, Tail(todo)) /\ Quiet(<<>>)
    BY <1>1, <2>1, <2>2, <2>3, LandQuiet
  <2>4. ASSUME NEW f, f.do = "despawned_listener", Replaced(<<f>>, Tail(todo)), Quiet(<<f>>) PROVE LandInv'
    <3>1. DOMAIN <<f>> = {1} /\ <<f>>[1] = f
      OBVIOUS
    <3>2. \A i \in DOMAIN <<f>> : <<f>>[i].do # "hook"
      BY <2>4, <3>1
    <3>. QED BY <2>1, <2>2, <2>4, <3>2, LandQuiet
  <2>. QED BY <2>1, <2>3, <2>4
<1>7. CASE despawn_pending \/ remove
  <2>1. Replaced(<<>>, Tail(todo)) /\ Top.do \in {"due", "remove"}
    BY <1>7, RemovalStep
  <2>2. phase' = phase /\ pending' = pending /\ life' = life /\ seat' = seat
    BY <1>7 DEF despawn_pending, remove, queue_removal, clockVars, hostVars
  <2>3. Top.do # "build" /\ Top.do # "flush"
    BY <2>1
  <2>. QED BY <1>1, <2>1, <2>2, <2>3, LandReplaced DEF Live
<1>8. CASE flush_structural \/ (settle /\ Top.subtree # <<>>)
  <2>1. /\ Replaced(<<>>, Tail(todo)) /\ Top.do \in {"flush", "settle"}
        /\ \A e \in Entity : life'[e] # "pending" /\ Onward(life[e], life'[e])
        /\ phase' = phase /\ pending' = pending /\ seat' = seat
    BY <1>8, FlushStep
  <2>2. \A e \in Entity : Live(e)' => Live(e)
    BY <2>1, HostTypes DEF Onward, Live
  <2>3. Top.do # "build"
    BY <2>1
  <2>. QED BY <1>1, <2>1, <2>2, <2>3, LandReplaced
<1>9. CASE build
  <2>1. /\ phase' = phase /\ pending' = pending /\ Top.do = "build"
        /\ \A e \in Entity : (Live(e)' /\ seat'[e] = "none") => (Live(e) /\ seat[e] = "none" /\ e # Top.who)
        /\ \A e \in Entity : life'[e] = "pending" => life[e] = "pending"
    BY <1>9, BuildStep
  <2>2. PICK new, t : /\ Replaced(new, t)
                      /\ \A i \in DOMAIN new : new[i].do \in {"enter", "announce"}
    BY <1>9, BuildStep
  <2>3. Top.do # "flush"
    BY <2>1
  <2>4. \A i \in DOMAIN new : new[i].do \notin {"build", "flush", "realize", "drain", "hook"}
    BY <2>2
  <2>5. \A e \in Entity : (Live(e)' /\ seat'[e] = "none") =>
          (Live(e) /\ seat[e] = "none" /\ ~(Top.do = "build" /\ Top.who = e))
    BY <2>1
  <2>. QED BY <2>1, <2>2, <2>3, <2>4, <2>5, LandReplaced
<1>. QED BY <1>2, <1>3, <1>4, <1>5, <1>6, <1>7, <1>8, <1>9

\* The scene, the clock and the two swaps of phase 8.
LEMMA LandClock ==
  ASSUME SpawnerInv, LandInv, lost \subseteq lost',
         \/ \E scene \in SUBSET Root : spawn_scene(scene)
         \/ scene_stands \/ begin_tick \/ end_tick \/ structural_apply
         \/ refuse_despawn \/ refuse_build \/ realize \/ drain \/ refuse_adopted \/ refuse_prefab
  PROVE  LandInv'
<1>0. /\ Root \in SUBSET Entity /\ phase \in {"boot", "between", "open", "structural", "aborted"}
      /\ \A do, e : Waiting(do, e) => Awaits(do)
      /\ todo = <<>> => \A do : ~Awaits(do)
  BY EmptyStack DEF Entity, SpawnerInv, SpawnerTypes, Waiting, Awaits
<1>1. ASSUME NEW scene \in SUBSET Root, spawn_scene(scene) PROVE LandInv'
  <2>1. phase = "boot" /\ phase' = "boot"
    BY <1>1 DEF spawn_scene, clockVars
  <2>2. PhaseRight'
    BY <1>1, SceneStep DEF SpawnerInv
  <2>3. todo' = <<>> \/ SceneEnters'
    BY <2>1, <2>2 DEF PhaseRight
  <2>4. ~Awaits("build")' /\ ~Awaits("realize")' /\ ~Awaits("drain")' /\ \A e : ~Waiting("build", e)'
    <3>1. CASE todo' = <<>>
      BY <3>1, EmptyStack
    <3>2. CASE SceneEnters'
      BY <3>2 DEF SceneEnters, Awaits, Waiting
    <3>. QED BY <2>3, <3>1, <3>2
  <2>5. \A e \in Entity : ~(Live(e)' /\ seat'[e] = "none")
    BY <1>1 DEF spawn_scene, Live
  <2>. QED BY <1>0, <2>4, <2>5 DEF LandInv
<1>2. CASE scene_stands
  <2>1. /\ todo # <<>> /\ Top.do = "scene_stands" /\ todo' = <<>> /\ phase' = "between"
        /\ life' = life /\ seat' = seat /\ pending' = pending
    BY <1>2 DEF scene_stands, Doing, worldVars, hostVars, queueVars
  <2>2. phase = "boot"
    <3>1. Awaits("scene_stands")
      BY <2>1, TopFacts DEF SpawnerInv
    <3>. QED BY <1>0, <2>1, <3>1 DEF SpawnerInv, PhaseRight
  <2>3. ~Awaits("build")
    BY <2>1, <2>2 DEF SpawnerInv, PhaseRight, SceneEnters, Awaits
  <2>. QED BY <2>1, <2>2, <2>3, LandEmpty
<1>3. CASE begin_tick
  <2>1. phase = "between" /\ todo = <<>>
    BY <1>3 DEF begin_tick, SpawnerInv, PhaseRight
  <2>2. /\ todo' = <<>>
        /\ phase' = "aborted" \/ (life' = life /\ seat' = seat /\ pending' = pending)
    BY <1>3, <2>1 DEF begin_tick, abort, worldVars, hostVars, queueVars
  <2>. QED BY <1>0, <2>1, <2>2, LandEmpty
<1>4. CASE end_tick
  <2>1. /\ phase = "structural" /\ todo = <<>> /\ todo' = <<>>
        /\ life' = life /\ seat' = seat /\ pending' = pending
    BY <1>4 DEF end_tick, worldVars, hostVars, queueVars
  <2>. QED BY <1>0, <2>1, LandEmpty
<1>5. CASE structural_apply /\ ~poisoned
  <2>1. /\ Awaits("flush")' /\ ~Awaits("build")'
        /\ phase = "open" /\ life' = life /\ seat' = seat /\ pending' = pending
    BY <1>5, ApplyStep
  <2>2. \A e : ~Waiting("build", e)'
    BY <2>1 DEF Waiting, Awaits
  <2>3. \A e : ~Waiting("build", e)
    BY <1>0, <2>1 DEF SpawnerInv, PhaseRight
  <2>. QED BY <2>1, <2>2, <2>3 DEF LandInv, Live
<1>6. CASE refuse_despawn \/ refuse_build \/ (structural_apply /\ poisoned)
  <2>1. todo' = <<>> /\ phase' = "aborted"
    BY <1>6 DEF refuse_despawn, refuse_build, structural_apply, abort
  <2>. QED BY <2>1, LandEmpty
<1>7. CASE realize
  <2>1. /\ phase = "structural" /\ Awaits("realize") /\ ~Awaits("flush")
        /\ ~Awaits("build")' /\ ~Awaits("hook")'
        /\ life' = life /\ seat' = seat /\ pending' = pending
    BY <1>7, RealizeStep
  <2>2. \A e : ~Waiting("build", e)'
    BY <2>1 DEF Waiting, Awaits
  <2>3. \A e : ~Waiting("build", e)
    BY <1>0, <2>1 DEF LandInv
  <2>4. \A e \in Entity : life[e] # "pending"
    BY <2>1 DEF LandInv
  <2>. QED BY <2>1, <2>2, <2>3, <2>4 DEF LandInv, Live
<1>8. CASE drain
  <2>1. /\ phase = "structural" /\ Awaits("drain") /\ ~Awaits("flush")
        /\ ~Awaits("realize")' /\ ~Awaits("drain")'
        /\ \A e : (\E k \in DOMAIN pending : pending[k] = e) => Waiting("build", e)'
        /\ life' = life /\ seat' = seat
    BY <1>8, DrainStep
  <2>2. \A e : ~Waiting("build", e)
    BY <1>0, <2>1 DEF LandInv
  <2>3. \A e \in Entity : life[e] # "pending"
    BY <2>1 DEF LandInv
  <2>4. ASSUME NEW r \in Root, Live(r)', seat'[r] = "none" PROVE Waiting("build", r)' \/ r \in lost'
    <3>1. Live(r) /\ seat[r] = "none"
      BY <2>1, <2>4 DEF Live
    <3>2. (\E k \in DOMAIN pending : pending[k] = r) \/ r \in lost
      BY <2>1, <2>2, <3>1 DEF LandInv
    <3>. QED BY <2>1, <3>2
  <2>. QED BY <1>0, <2>1, <2>3, <2>4 DEF LandInv
<1>9. CASE refuse_adopted \/ refuse_prefab
  <2>1. /\ todo' = <<>> /\ phase = "structural"
        /\ life' = life /\ seat' = seat /\ pending' = pending
        /\ lost' = lost \cup {todo[k].who : k \in {j \in DOMAIN todo : todo[j].do = "build"}}
    BY <1>9, GiveUpStep DEF refuse_adopted, refuse_prefab, give_up, queueVars
  <2>2. (\A do : ~Awaits(do)') /\ \A do, e : ~Waiting(do, e)'
    BY <2>1, EmptyStack
  <2>3. ASSUME NEW r \in Root, Live(r)', seat'[r] = "none"
        PROVE  (\E k \in DOMAIN pending' : pending'[k] = r) \/ r \in lost'
    <3>1. Waiting("build", r) \/ (\E k \in DOMAIN pending : pending[k] = r) \/ r \in lost
      BY <2>1, <2>3 DEF LandInv, Live
    <3>2. Waiting("build", r) => r \in lost'
      BY <2>1 DEF Waiting
    <3>. QED BY <2>1, <3>1, <3>2
  <2>. QED BY <2>2, <2>3 DEF LandInv
<1>. QED BY <1>1, <1>2, <1>3, <1>4, <1>5, <1>6, <1>7, <1>8, <1>9

\* The abandoned lists only grow.
LEMMA LostGrows ==
  ASSUME [SpawnerNext]_spawnerVars
  PROVE  lost \subseteq lost'
<1>1. CASE Calls
  BY <1>1 DEF Calls, spawn_prefab, despawn, queue_attach, hostVars, lossVars
<1>2. CASE \/ user_returns \/ journal_refuses \/ (\E scene \in SUBSET Root : spawn_scene(scene))
          \/ scene_stands \/ begin_tick \/ structural_apply \/ end_tick
  BY <1>2 DEF user_returns, journal_refuses, spawn_scene, scene_stands, begin_tick, structural_apply,
              end_tick, abort, hostVars, lossVars
<1>3. CASE Prepare
  BY <1>3 DEF Prepare, drop_stale, refuse_despawn, abort, despawn_pending, queue_removal, despawn_alive,
              exit_machine, despawn_exit, remove, flush_structural, hostVars, lossVars
<1>4. CASE Realize
  BY <1>4 DEF Realize, realize, bury, drain, drop_unborn, refuse_adopted, refuse_build, refuse_prefab,
              give_up, abort, build, enter, announce, settle, hostVars, lossVars
<1>5. CASE UNCHANGED spawnerVars
  BY <1>5 DEF spawnerVars, hostVars, lossVars
<1>. QED BY <1>1, <1>2, <1>3, <1>4, <1>5, Zenon DEF SpawnerNext

\* Whatever happens next, what is neither built nor dead is on a list.
LEMMA LandStep ==
  ASSUME SpawnerInv, LandInv, ~DespawnListenersSpawn, [SpawnerNext]_spawnerVars
  PROVE  LandInv'
<1>1. lost \subseteq lost'
  BY LostGrows
<1>2. ASSUME NEW r \in Root, spawn_prefab(r) PROVE LandInv'
  BY <1>2, LandSpawn
<1>3. ASSUME NEW e \in Entity, NEW delay \in 0 .. MaxDelay, despawn(e, delay) PROVE LandInv'
  <2>1. todo' = todo /\ life' = life /\ seat' = seat /\ pending' = pending /\ UserRuns
    BY <1>3 DEF despawn, worldVars, hostVars
  <2>. QED BY <1>1, <2>1, UserClock, LandSame
<1>4. ASSUME NEW e, NEW p, queue_attach(e, p) PROVE LandInv'
  <2>1. todo' = todo /\ life' = life /\ seat' = seat /\ pending' = pending /\ UserRuns
    BY <1>4 DEF queue_attach, queueVars
  <2>. QED BY <1>1, <2>1, UserClock, LandSame
<1>5. CASE Calls
  BY <1>2, <1>3, <1>4, <1>5, Zenon DEF Calls
<1>6. CASE journal_refuses
  <2>1. todo' = todo /\ life' = life /\ seat' = seat /\ pending' = pending /\ phase # "aborted"
    BY <1>6 DEF journal_refuses, worldVars, queueVars, hostVars
  <2>. QED BY <1>1, <2>1, LandSame
<1>7. CASE UNCHANGED spawnerVars
  BY <1>7 DEF LandInv, Live, Waiting, Awaits, spawnerVars, clockVars, worldVars, queueVars, hostVars, lossVars
<1>8. CASE \/ drop_stale \/ user_returns \/ drop_unborn \/ despawn_alive \/ settle \/ bury \/ build
          \/ exit_machine \/ despawn_exit \/ enter \/ announce
          \/ despawn_pending \/ remove \/ flush_structural
  BY <1>1, <1>8, LandPhase
<1>9. CASE \/ \E scene \in SUBSET Root : spawn_scene(scene)
          \/ scene_stands \/ begin_tick \/ end_tick \/ structural_apply
          \/ refuse_despawn \/ refuse_build \/ realize \/ drain \/ refuse_adopted \/ refuse_prefab
  BY <1>1, <1>9, LandClock
<1>. QED BY <1>5, <1>6, <1>7, <1>8, <1>9, Zenon DEF SpawnerNext, Prepare, Realize

-----------------------------------------------------------------------------
\* The lives.  A child is attached to an alive parent, and only while it is
\* alive itself.
ParentsAlive ==
  \A c \in Entity : parent[c] # None =>
    c \in Child /\ life[c] = "alive" /\ life[parent[c]] = "alive"

\* What the seat and the notes of an entity say of its life.
StagesRight ==
  \A e \in Entity :
    /\ life[e] \in {"free", "pending"} => seat[e] = "none" /\ e \notin noted \cup told
    /\ e \in Child => life[e] # "pending" /\ (life[e] = "alive" => seat[e] # "none")
    /\ e \in told => life[e] = "dead"
    /\ e \in noted /\ life[e] = "alive" => seat[e] = "released"

\* What waits to be built has no seat yet; a machine that has not entered
\* waits for it, once, and nothing is built before.
BuildsRight ==
  /\ \A r \in Root : Waiting("build", r) => seat[r] = "none"
  /\ \A k \in DOMAIN pending : seat[pending[k]] = "none"
  /\ \A r \in Machined : Waiting("enter", r) => machine[r] = "seated"
  /\ \A r \in Machined : seat[r] = "seated" /\ machine[r] \notin {"live", "exited"} => Waiting("enter", r)
  /\ \A i, j \in DOMAIN todo : i < j /\ todo[j].do = "enter" =>
       todo[i].do # "build" /\ ~(todo[i].do = "enter" /\ todo[i].who = todo[j].who)
  /\ Awaits("realize") \/ Awaits("drain") => ~Awaits("enter") /\ ~Awaits("build")

AheadOf(stack, k, do, e) == \E j \in DOMAIN stack : j < k /\ stack[j].do = do /\ stack[j].who = e
SubtreeOf(e) == {e} \cup {c \in Child : parent[c] = e}

\* A seat exits after the machine of its entity and the seats of its children.
SeatRight(k) ==
  todo[k].do = "exit_seat" /\ ~poisoned =>
    /\ todo[k].who \in Machined /\ seat[todo[k].who] = "seated" =>
         machine[todo[k].who] = "exited" \/ AheadOf(todo, k, "exit_machine", todo[k].who)
    /\ \A c \in Child : parent[c] = todo[k].who /\ seat[c] = "seated" => AheadOf(todo, k, "exit_seat", c)

\* A subtree is removed after all of its seats exited.
RemoveRight(k) ==
  todo[k].do = "remove" =>
    /\ life[todo[k].who] = "alive" /\ ToSet(todo[k].subtree) = SubtreeOf(todo[k].who)
    /\ ~poisoned => \A x \in SubtreeOf(todo[k].who) : seat[x] = "seated" => AheadOf(todo, k, "exit_seat", x)

ExitsRight == \A k \in DOMAIN todo : SeatRight(k) /\ RemoveRight(k)

\* A captured subtree has left.
LeftRight(ref, subtree) ==
  \A x \in ToSet(subtree) :
    /\ x = ref \/ x \in Child
    /\ life[x] # "free"
    /\ ~poisoned => seat[x] # "seated"

\* What a reap is about is dead after the flush; before it, it is alive and its
\* despawn is in the queue.
ReapRight(reap) ==
  /\ LeftRight(reap.ref, reap.subtree)
  /\ ~Awaits("flush") => life[reap.ref] = "dead"
  /\ Awaits("flush") =>
       /\ Live(reap.ref) /\ ToSet(reap.subtree) = SubtreeOf(reap.ref)
       /\ \E j \in DOMAIN commands : commands[j] = Despawn(reap.ref)

ReapsRight ==
  /\ \A k \in DOMAIN queued_reaps : ReapRight(queued_reaps[k])
  /\ \A j \in DOMAIN commands : commands[j].op = "despawn" =>
       \E k \in DOMAIN queued_reaps : queued_reaps[k].ref = commands[j].entity
  /\ \A k \in DOMAIN todo : todo[k].do = "bury" =>
       life[todo[k].who] = "dead" /\ LeftRight(todo[k].who, todo[k].subtree)

LifeInv == ParentsAlive /\ StagesRight /\ BuildsRight /\ ExitsRight /\ ReapsRight

\* Where the frames are after the top one was replaced.
LEMMA PushedFacts ==
  ASSUME SpawnerTypes, todo # <<>>, NEW new \in Seq(FrameType), todo' = new \o Tail(todo)
  PROVE  /\ Replaced(new, Tail(todo)) /\ Len(new) \in Nat /\ DOMAIN new = 1 .. Len(new)
         /\ Len(todo) \in Nat \ {0} /\ DOMAIN todo = 1 .. Len(todo) /\ Top = todo[1]
         /\ \A k \in DOMAIN todo' :
              \/ k \in DOMAIN new /\ todo'[k] = new[k]
              \/ \E l \in 2 .. Len(todo) : k = l - 1 + Len(new) /\ todo'[k] = todo[l]
         /\ \A k \in DOMAIN new : k \in DOMAIN todo' /\ todo'[k] = new[k]
         /\ \A l \in 2 .. Len(todo) : l - 1 + Len(new) \in DOMAIN todo' /\ todo'[l - 1 + Len(new)] = todo[l]
         /\ \A l \in 2 .. Len(todo) : \A do, e : AheadOf(todo, l, do, e) =>
              (Top.do = do /\ Top.who = e) \/ AheadOf(todo', l - 1 + Len(new), do, e)
<1>1. Replaced(new, Tail(todo))
  BY TailRest
<1>2. /\ Len(todo) \in Nat \ {0} /\ DOMAIN todo = 1 .. Len(todo) /\ Top = todo[1]
      /\ Tail(todo) \in Seq(FrameType) /\ Len(Tail(todo)) = Len(todo) - 1
      /\ \A k \in 1 .. Len(todo) - 1 : Tail(todo)[k] = todo[k + 1]
  BY DEF SpawnerTypes, Top
<1>3. PICK t \in Seq(FrameType) : t = Tail(todo)
  BY <1>2
<1>4. PICK n \in Nat : n = Len(todo) - 1
  <2>1. Len(todo) - 1 \in Nat
    BY <1>2
  <2>. QED BY <2>1
<1>5. /\ DOMAIN new = 1 .. Len(new) /\ DOMAIN todo' = 1 .. Len(new) + n /\ Len(new) \in Nat
      /\ \A k \in 1 .. Len(new) : todo'[k] = new[k]
      /\ \A k \in 1 .. n : todo'[Len(new) + k] = t[k]
  <2>1. Len(t) = n /\ todo' = new \o t
    BY <1>2, <1>3, <1>4
  <2>. QED BY <2>1
<1>6. \A k \in 1 .. n : t[k] = todo[k + 1]
  BY <1>2, <1>3, <1>4
<1>7. ASSUME NEW k \in DOMAIN todo'
      PROVE  \/ k \in DOMAIN new /\ todo'[k] = new[k]
             \/ \E l \in 2 .. Len(todo) : k = l - 1 + Len(new) /\ todo'[k] = todo[l]
  <2>1. CASE k \in 1 .. Len(new)
    BY <1>5, <2>1
  <2>2. CASE k \notin 1 .. Len(new)
    <3>1. PICK m \in 1 .. n : k = Len(new) + m
      <4>1. k - Len(new) \in 1 .. n /\ k = Len(new) + (k - Len(new))
        BY <1>5, <2>2
      <4>. QED BY <4>1
    <3>2. m + 1 \in 2 .. Len(todo) /\ k = (m + 1) - 1 + Len(new) /\ todo'[k] = todo[m + 1]
      BY <1>2, <1>4, <1>5, <1>6, <3>1
    <3>. QED BY <3>2
  <2>. QED BY <2>1, <2>2
<1>8. ASSUME NEW l \in 2 .. Len(todo)
      PROVE  l - 1 + Len(new) \in DOMAIN todo' /\ todo'[l - 1 + Len(new)] = todo[l]
  <2>1. PICK m \in 1 .. n : l = m + 1
    BY <1>2, <1>4
  <2>2. l - 1 + Len(new) = Len(new) + m
    BY <1>5, <2>1
  <2>3. Len(new) + m \in DOMAIN todo'
    BY <1>5
  <2>. QED BY <1>5, <1>6, <2>1, <2>2, <2>3
<1>9. ASSUME NEW l \in 2 .. Len(todo), NEW do, NEW e, AheadOf(todo, l, do, e), ~(Top.do = do /\ Top.who = e)
      PROVE  AheadOf(todo', l - 1 + Len(new), do, e)
  <2>1. PICK j \in DOMAIN todo : j < l /\ todo[j].do = do /\ todo[j].who = e
    BY <1>9 DEF AheadOf
  <2>2. j \in 2 .. Len(todo)
    BY <1>2, <1>9, <2>1
  <2>3. j - 1 + Len(new) \in DOMAIN todo' /\ todo'[j - 1 + Len(new)] = todo[j]
    BY <1>8, <2>2
  <2>4. j - 1 + Len(new) < l - 1 + Len(new)
    <3>1. j \in Nat /\ l \in Nat /\ Len(new) \in Nat /\ j < l
      BY <1>5, <2>1, <2>2
    <3>. QED BY <3>1
  <2>. QED BY <2>1, <2>3, <2>4 DEF AheadOf
<1>. QED BY <1>1, <1>2, <1>5, <1>7, <1>8, <1>9

Attached(w) ==
  \A c \in Entity : w.parent[c] # None =>
    c \in Child /\ w.life[c] = "alive" /\ w.life[w.parent[c]] = "alive"

\* What one command does to the lives and to the tree.
LEMMA ApplyCases ==
  ASSUME NEW w \in Worlds, NEW c \in Command
  PROVE  \/ Apply(w, c) = w
         \/ /\ c.op = "spawn" /\ w.life[c.entity] = "pending"
            /\ \A x \in Entity : /\ Apply(w, c).life[x] = IF x = c.entity THEN "alive" ELSE w.life[x]
                                 /\ Apply(w, c).parent[x] = w.parent[x]
         \/ /\ c.op = "despawn" /\ w.life[c.entity] = "alive"
            /\ \A x \in Entity :
                 /\ Apply(w, c).life[x] = IF x \in Cascade(w, c.entity) THEN "dead" ELSE w.life[x]
                 /\ Apply(w, c).parent[x] = IF x \in Cascade(w, c.entity) THEN None ELSE w.parent[x]
         \/ /\ c.op = "reparent" /\ w.life[c.entity] = "alive" /\ (c.parent # None => c.entity \in Child)
            /\ c.parent = None \/ w.life[c.parent] = "alive"
            /\ \A x \in Entity : /\ Apply(w, c).life[x] = w.life[x]
                                 /\ Apply(w, c).parent[x] = IF x = c.entity THEN c.parent ELSE w.parent[x]
<1> DEFINE spawns == c.op = "spawn" /\ w.life[c.entity] = "pending"
           despawns == c.op = "despawn" /\ w.life[c.entity] = "alive"
           moves == c.op = "reparent" /\ w.life[c.entity] = "alive"
                    /\ (c.parent = None \/ w.life[c.parent] = "alive")
           spawned == [w EXCEPT !.life[c.entity] = "alive"]
           despawned == [life |-> [x \in Entity |-> IF x \in Cascade(w, c.entity) THEN "dead" ELSE w.life[x]],
                         parent |-> [x \in Entity |-> IF x \in Cascade(w, c.entity) THEN None ELSE w.parent[x]],
                         adopted |-> w.adopted \ Cascade(w, c.entity)]
           moved == Moved(w, c)
<1>1. Apply(w, c) = IF spawns THEN spawned ELSE IF despawns THEN despawned ELSE IF moves THEN moved ELSE w
  BY Zenon DEF Apply, Moved
<1>2. /\ \A x \in Entity : spawned.life[x] = IF x = c.entity THEN "alive" ELSE w.life[x]
      /\ \A x \in Entity : spawned.parent[x] = w.parent[x]
  BY DEF Worlds
<1>3. /\ \A x \in Entity : moved.life[x] = w.life[x]
      /\ \A x \in Entity : moved.parent[x] = IF x = c.entity THEN c.parent ELSE w.parent[x]
  BY DEF Worlds, Moved
<1>4. /\ \A x \in Entity : despawned.life[x] = IF x \in Cascade(w, c.entity) THEN "dead" ELSE w.life[x]
      /\ \A x \in Entity : despawned.parent[x] = IF x \in Cascade(w, c.entity) THEN None ELSE w.parent[x]
  <2> DEFINE gone == Cascade(w, c.entity)
  <2>. HIDE DEF gone
  <2>1. despawned = [life |-> [x \in Entity |-> IF x \in gone THEN "dead" ELSE w.life[x]],
                     parent |-> [x \in Entity |-> IF x \in gone THEN None ELSE w.parent[x]],
                     adopted |-> w.adopted \ gone]
    BY DEF gone
  <2>. HIDE DEF despawned
  <2>2. /\ \A x \in Entity : despawned.life[x] = IF x \in gone THEN "dead" ELSE w.life[x]
        /\ \A x \in Entity : despawned.parent[x] = IF x \in gone THEN None ELSE w.parent[x]
    BY <2>1
  <2>. QED BY <2>2 DEF gone
<1>5. moves => (c.parent # None => c.entity \in Child)
  BY DEF Command
<1>. HIDE DEF spawned, despawned, moved
<1>. QED BY <1>1, <1>2, <1>3, <1>4, <1>5

\* One command keeps children attached to alive parents; an entity it does not
\* move stays where it is or dies, and dies only by a despawn of it or its
\* parent.
LEMMA ApplyTree ==
  ASSUME NEW w \in Worlds, NEW c \in Command, Attached(w)
  PROVE  /\ Attached(Apply(w, c))
         /\ \A x \in Entity : ~(c.op = "reparent" /\ c.entity = x /\ x \in Child) =>
              /\ \/ Apply(w, c).parent[x] = w.parent[x]
                 \/ Apply(w, c).parent[x] = None /\ Apply(w, c).life[x] = "dead"
              /\ Apply(w, c).life[x] = "dead" /\ w.life[x] # "dead" =>
                   c.op = "despawn" /\ (c.entity = x \/ w.parent[x] = c.entity)
<1> DEFINE v == Apply(w, c)
<1>1. v \in Worlds
  BY ApplyFacts
<1>2. /\ \A x \in Entity : w.parent[x] \in Root \cup {None}
      /\ Root \subseteq Entity /\ None \notin Entity /\ Root \cap Child = {} /\ Child \subseteq Entity
      /\ c.entity \in Entity
  BY PrefabAssumption DEF Worlds, Entity, Command
<1>3. \/ v = w
      \/ /\ c.op = "spawn" /\ w.life[c.entity] = "pending"
         /\ \A x \in Entity : /\ v.life[x] = IF x = c.entity THEN "alive" ELSE w.life[x]
                              /\ v.parent[x] = w.parent[x]
      \/ /\ c.op = "despawn" /\ w.life[c.entity] = "alive"
         /\ \A x \in Entity :
              /\ v.life[x] = IF x \in Cascade(w, c.entity) THEN "dead" ELSE w.life[x]
              /\ v.parent[x] = IF x \in Cascade(w, c.entity) THEN None ELSE w.parent[x]
      \/ /\ c.op = "reparent" /\ w.life[c.entity] = "alive" /\ (c.parent # None => c.entity \in Child)
         /\ c.parent = None \/ w.life[c.parent] = "alive"
         /\ \A x \in Entity : /\ v.life[x] = w.life[x]
                              /\ v.parent[x] = IF x = c.entity THEN c.parent ELSE w.parent[x]
  BY ApplyCases
<1>4. c.op = "reparent" => c.parent \in Root \cup {None}
  BY DEF Command
<1>. HIDE DEF v
<1>5. CASE v = w
  BY <1>5 DEF v
<1>6. CASE /\ c.op = "spawn" /\ w.life[c.entity] = "pending"
           /\ \A x \in Entity : /\ v.life[x] = IF x = c.entity THEN "alive" ELSE w.life[x]
                                /\ v.parent[x] = w.parent[x]
  <2>1. Attached(v)
    BY <1>2, <1>6 DEF Attached
  <2>. QED BY <1>6, <2>1 DEF v
<1>7. CASE /\ c.op = "despawn" /\ w.life[c.entity] = "alive"
           /\ \A x \in Entity :
                /\ v.life[x] = IF x \in Cascade(w, c.entity) THEN "dead" ELSE w.life[x]
                /\ v.parent[x] = IF x \in Cascade(w, c.entity) THEN None ELSE w.parent[x]
  <2>1. \A x : x \in Cascade(w, c.entity) <=>
          x = c.entity \/ (x \in Child /\ w.life[x] = "alive" /\ w.parent[x] = c.entity)
    BY DEF Cascade
  <2>2. ASSUME NEW x \in Entity, v.parent[x] # None
        PROVE  x \in Child /\ v.life[x] = "alive" /\ v.life[v.parent[x]] = "alive"
    <3>1. x \notin Cascade(w, c.entity) /\ v.parent[x] = w.parent[x] /\ w.parent[x] \in Root /\ v.life[x] = w.life[x]
      BY <1>2, <1>7, <2>2
    <3>2. x \in Child /\ w.life[x] = "alive" /\ w.life[w.parent[x]] = "alive"
      BY <2>2, <3>1 DEF Attached
    <3>3. w.parent[x] \notin Cascade(w, c.entity) /\ w.parent[x] \in Entity
      BY <1>2, <2>1, <3>1, <3>2
    <3>. QED BY <1>7, <3>1, <3>2, <3>3
  <2>3. Attached(v)
    BY <2>2 DEF Attached
  <2>. QED BY <1>7, <2>1, <2>3 DEF v
<1>8. CASE /\ c.op = "reparent" /\ w.life[c.entity] = "alive" /\ (c.parent # None => c.entity \in Child)
           /\ c.parent = None \/ w.life[c.parent] = "alive"
           /\ \A x \in Entity : /\ v.life[x] = w.life[x]
                                /\ v.parent[x] = IF x = c.entity THEN c.parent ELSE w.parent[x]
  <2>1. ASSUME NEW x \in Entity, v.parent[x] # None
        PROVE  x \in Child /\ v.life[x] = "alive" /\ v.life[v.parent[x]] = "alive"
    <3>1. CASE x = c.entity
      BY <1>2, <1>4, <1>8, <2>1, <3>1
    <3>2. CASE x # c.entity
      BY <1>2, <1>8, <2>1, <3>2 DEF Attached
    <3>. QED BY <3>1, <3>2
  <2>2. Attached(v)
    BY <2>1 DEF Attached
  <2>3. ASSUME NEW x \in Entity, x \notin Child PROVE v.parent[x] = w.parent[x]
    <3>1. w.parent[x] = None
      BY <2>3 DEF Attached
    <3>2. x = c.entity => c.parent = None
      BY <1>8, <2>3
    <3>. QED BY <1>8, <3>1, <3>2
  <2>. QED BY <1>8, <2>2, <2>3 DEF v
<1>. QED BY <1>3, <1>5, <1>6, <1>7, <1>8

\* The flush keeps children attached; an entity that no command moves stays
\* where it is or dies, and dies only by a despawn of it or its parent.
LEMMA FlushTree ==
  ASSUME SpawnerTypes, ParentsAlive
  PROVE  /\ Attached(Flushed)
         /\ \A x \in Entity \ Moving :
              /\ \/ Flushed.parent[x] = parent[x]
                 \/ Flushed.parent[x] = None /\ Flushed.life[x] = "dead"
              /\ Flushed.life[x] = "dead" /\ life[x] # "dead" =>
                   \E j \in DOMAIN commands : /\ commands[j].op = "despawn"
                                              /\ commands[j].entity = x \/ parent[x] = commands[j].entity
<1>1. /\ Len(commands) \in Nat /\ DOMAIN commands = 1 .. Len(commands)
      /\ \A k \in 1 .. Len(commands) : commands[k] \in Command /\ commands[k].entity \in Entity
  BY Typed
<1>2. PICK world : Flushed = world[Len(commands)] /\ Passes(world, Len(commands))
  <2> DEFINE world == CHOOSE g : Passes(g, Len(commands))
  <2>1. Flushed = world[Len(commands)]
    BY DEF Flushed, Passes
  <2>2. Passes(world, Len(commands))
    BY <1>1, PassesExist
  <2>. QED BY <2>1, <2>2
<1>3. PICK n \in Nat : n = Len(commands)
  BY <1>1
<1>4. /\ world[0] = [life |-> life, parent |-> parent, adopted |-> adopted]
      /\ \A m \in 1 .. n : world[m] = Apply(world[m - 1], commands[m])
  BY <1>2, <1>3 DEF Passes
<1> DEFINE Right(w) ==
      /\ w \in Worlds /\ Attached(w)
      /\ \A x \in Entity \ Moving :
           /\ w.parent[x] = parent[x] \/ (w.parent[x] = None /\ w.life[x] = "dead")
           /\ w.life[x] = "dead" /\ life[x] # "dead" =>
                \E j \in DOMAIN commands : /\ commands[j].op = "despawn"
                                           /\ commands[j].entity = x \/ parent[x] = commands[j].entity
<1>5. Right(world[0])
  <2>1. world[0].life = life /\ world[0].parent = parent
    BY <1>4
  <2>2. world[0] \in Worlds
    BY <1>4 DEF SpawnerTypes, Worlds
  <2>. QED BY <2>1, <2>2 DEF ParentsAlive, Attached
<1>6. ASSUME NEW m \in 1 .. n, Right(world[m - 1])
      PROVE  Right(world[m])
  <2>1. PICK w \in Worlds : w = world[m - 1] /\ Right(w)
    BY <1>6
  <2>2. PICK c \in Command : c = commands[m] /\ m \in DOMAIN commands /\ c.entity \in Entity
    BY <1>1, <1>3
  <2>3. PICK v : v = Apply(w, c)
    OBVIOUS
  <2>4. world[m] = v
    BY <1>4, <2>1, <2>2, <2>3
  <2>5. v \in Worlds /\ Attached(v)
    BY <2>1, <2>3, ApplyFacts, ApplyTree
  <2>6. ASSUME NEW x \in Entity \ Moving
        PROVE  /\ v.parent[x] = w.parent[x] \/ (v.parent[x] = None /\ v.life[x] = "dead")
               /\ v.life[x] = "dead" /\ w.life[x] # "dead" =>
                    c.op = "despawn" /\ (c.entity = x \/ w.parent[x] = c.entity)
               /\ w.life[x] = "dead" => v.life[x] = "dead"
    <3>1. ~(c.op = "reparent" /\ c.entity = x /\ x \in Child)
      BY <2>2, <2>6 DEF Moving
    <3>2. w.life[x] = "dead" => v.life[x] = "dead"
      BY <2>3, ApplyFacts DEF Onward
    <3>. QED BY <2>1, <2>3, <3>1, <3>2, ApplyTree
  <2>7. ASSUME NEW x \in Entity \ Moving
        PROVE  /\ v.parent[x] = parent[x] \/ (v.parent[x] = None /\ v.life[x] = "dead")
               /\ v.life[x] = "dead" /\ life[x] # "dead" =>
                    \E j \in DOMAIN commands : /\ commands[j].op = "despawn"
                                               /\ commands[j].entity = x \/ parent[x] = commands[j].entity
    <3>1. /\ w.parent[x] = parent[x] \/ (w.parent[x] = None /\ w.life[x] = "dead")
          /\ w.life[x] = "dead" /\ life[x] # "dead" =>
               \E j \in DOMAIN commands : /\ commands[j].op = "despawn"
                                          /\ commands[j].entity = x \/ parent[x] = commands[j].entity
      BY <2>1
    <3>2. v.parent[x] = parent[x] \/ (v.parent[x] = None /\ v.life[x] = "dead")
      BY <2>6, <3>1
    <3>3. ASSUME v.life[x] = "dead", life[x] # "dead"
          PROVE  \E j \in DOMAIN commands : /\ commands[j].op = "despawn"
                                            /\ commands[j].entity = x \/ parent[x] = commands[j].entity
      <4>1. CASE w.life[x] = "dead"
        BY <3>1, <3>3, <4>1
      <4>2. CASE w.life[x] # "dead"
        <5>1. c.op = "despawn" /\ (c.entity = x \/ w.parent[x] = c.entity)
          BY <2>6, <3>3, <4>2
        <5>2. w.parent[x] = parent[x]
          BY <3>1, <4>2
        <5>. QED BY <2>2, <5>1, <5>2
      <4>. QED BY <4>1, <4>2
    <3>. QED BY <3>2, <3>3
  <2>. QED BY <2>4, <2>5, <2>7
<1>. HIDE DEF Right
<1>7. \A m \in 0 .. n : Right(world[m])
  <2> DEFINE Bad == {m \in 0 .. n : ~Right(world[m])}
  <2>. SUFFICES ASSUME Bad # {} PROVE FALSE
    OBVIOUS
  <2>1. PICK m \in Bad : \A l \in Bad : m <= l
    <3>1. Bad \in SUBSET Nat
      OBVIOUS
    <3>. QED BY <3>1, LeastOf
  <2>2. m # 0
    BY <1>5, <2>1
  <2>3. m \in 1 .. n /\ m - 1 \in 0 .. n /\ m - 1 \notin Bad
    BY <2>1, <2>2
  <2>. QED BY <1>6, <2>1, <2>3
<1>8. Right(Flushed)
  BY <1>2, <1>3, <1>7
<1>. QED BY <1>8 DEF Right

\* The flush of phase 8 kills what is queued for removal.
LEMMA FlushReaps ==
  ASSUME SpawnerInv, LifeInv, Awaits("flush"), NEW k \in DOMAIN queued_reaps
  PROVE  Flushed.life[queued_reaps[k].ref] = "dead"
<1>1. PICK e \in Entity : e = queued_reaps[k].ref /\ Live(e) /\ \E j \in DOMAIN commands : commands[j] = Despawn(e)
  BY Typed DEF SpawnerInv, LifeInv, ReapsRight, ReapRight
<1>2. PICK i \in DOMAIN commands : commands[i] = Despawn(e)
  BY <1>1
<1>3. Flushed.life[e] \notin {"pending", "alive"}
  <2>1. life[e] = "pending" =>
          \E j \in DOMAIN commands : commands[j] = Spawn(e) /\ j < i
    BY <1>2 DEF SpawnerInv, BirthsRight
  <2>2. PICK j \in DOMAIN commands : life[e] = "pending" => j < i /\ commands[j] = Spawn(e)
    BY <1>2, <2>1
  <2>3. SpawnerTypes
    BY DEF SpawnerInv
  <2>. QED BY <1>2, <2>2, <2>3, FlushFacts
<1>4. Flushed \in Worlds /\ Onward(life[e], Flushed.life[e])
  BY FlushFacts DEF SpawnerInv
<1>. QED BY <1>1, <1>3, <1>4 DEF Onward, Live, Worlds

\* What the flush of phase 8 kills, apart from what it moves, is what was
\* captured.
LEMMA FlushTakes ==
  ASSUME SpawnerInv, LifeInv, Awaits("flush"), NEW x \in Entity \ Moving
  PROVE  (Live(x) /\ Flushed.life[x] = "dead") <=> x \in Doomed
<1>1. /\ Attached(Flushed)
      /\ \/ Flushed.parent[x] = parent[x]
         \/ Flushed.parent[x] = None /\ Flushed.life[x] = "dead"
      /\ Flushed.life[x] = "dead" /\ life[x] # "dead" =>
           \E j \in DOMAIN commands : /\ commands[j].op = "despawn"
                                      /\ commands[j].entity = x \/ parent[x] = commands[j].entity
  BY FlushTree DEF SpawnerInv, LifeInv
<1>2. \A k \in DOMAIN queued_reaps :
        /\ queued_reaps[k].ref \in Entity /\ Live(queued_reaps[k].ref)
        /\ ToSet(queued_reaps[k].subtree) = SubtreeOf(queued_reaps[k].ref)
        /\ \E j \in DOMAIN commands : commands[j] = Despawn(queued_reaps[k].ref)
  BY Typed DEF SpawnerInv, LifeInv, ReapsRight, ReapRight
<1>3. x \in Doomed <=> \E k \in DOMAIN queued_reaps : x \in SubtreeOf(queued_reaps[k].ref)
  BY <1>2 DEF Doomed
<1>4. parent[x] # None => x \in Child /\ life[x] = "alive" /\ life[parent[x]] = "alive"
  BY DEF LifeInv, ParentsAlive
<1>5. ASSUME Live(x), Flushed.life[x] = "dead" PROVE x \in Doomed
  <2>1. PICK j \in DOMAIN commands : /\ commands[j].op = "despawn"
                                     /\ commands[j].entity = x \/ parent[x] = commands[j].entity
    BY <1>1, <1>5 DEF Live
  <2>2. PICK k \in DOMAIN queued_reaps : queued_reaps[k].ref = commands[j].entity
    BY <2>1 DEF LifeInv, ReapsRight
  <2>3. queued_reaps[k].ref # None
    BY <1>2, <2>2, PrefabAssumption DEF Entity
  <2>4. x \in SubtreeOf(queued_reaps[k].ref)
    BY <1>4, <2>1, <2>2, <2>3 DEF SubtreeOf
  <2>. QED BY <1>3, <2>4
<1>6. ASSUME x \in Doomed PROVE Live(x) /\ Flushed.life[x] = "dead"
  <2>1. PICK k \in DOMAIN queued_reaps : x \in SubtreeOf(queued_reaps[k].ref)
    BY <1>3, <1>6
  <2>2. PICK e \in Entity : e = queued_reaps[k].ref
    BY <1>2
  <2>4. Live(e)
    BY <1>2, <2>2
  <2>5. Flushed.life[e] = "dead"
    BY <2>2, FlushReaps
  <2>6. CASE x = e
    BY <2>4, <2>5, <2>6
  <2>7. CASE x # e
    <3>1. x \in Child /\ parent[x] = e /\ e # None /\ life[x] = "alive"
      BY <1>4, <2>1, <2>2, <2>7, PrefabAssumption DEF SubtreeOf, Entity
    <3>2. Flushed.parent[x] # parent[x]
      BY <1>1, <2>5, <3>1 DEF Attached
    <3>. QED BY <1>1, <3>1, <3>2 DEF Live
  <2>. QED BY <2>6, <2>7
<1>. QED BY <1>5, <1>6

-----------------------------------------------------------------------------
\* The lives, step by step.  Children stay attached while the tree stands and
\* nothing alive dies.
LEMMA ParentsKept ==
  ASSUME SpawnerTypes, ParentsAlive, parent' = parent,
         \A e \in Entity : life[e] = "alive" => life'[e] = "alive"
  PROVE  ParentsAlive'
<1>1. \A e \in Entity : parent[e] \in Entity \cup {None}
  BY DEF SpawnerTypes, Entity
<1>. QED BY <1>1 DEF ParentsAlive

\* Seats exit, and spawns become known.
LEMMA StagesKept ==
  ASSUME SpawnerTypes, StagesRight, noted' = noted, told' = told,
         \A e \in Entity : /\ life'[e] = life[e] \/ (e \in Root /\ life[e] = "free" /\ life'[e] = "pending")
                           /\ seat'[e] = seat[e] \/ (seat[e] = "seated" /\ seat'[e] = "exited")
  PROVE  StagesRight'
<1>1. Root \cap Child = {}
  BY PrefabAssumption
<1>. QED BY <1>1 DEF StagesRight

\* Frames that neither build nor enter come and go.
LEMMA BuildsKept ==
  ASSUME SpawnerInv, BuildsRight, todo # <<>>, NEW new \in Seq(FrameType), todo' = new \o Tail(todo),
         \A i \in DOMAIN new : new[i].do \notin {"build", "enter", "realize", "drain"},
         pending' = pending,
         \A e \in Entity : /\ seat[e] = "none" <=> seat'[e] = "none"
                           /\ seat'[e] = "seated" => seat[e] = "seated",
         \A r \in Machined : \/ machine'[r] = machine[r]
                             \/ machine[r] = "live" /\ machine'[r] = "exited"
                             \/ Top.do = "enter" /\ Top.who = r /\ machine'[r] = "live",
         Top.do = "enter" /\ Top.who \in Machined => machine'[Top.who] = "live"
  PROVE  BuildsRight'
<1>1. SpawnerTypes /\ StackRight
  BY DEF SpawnerInv
<1>2. /\ Replaced(new, Tail(todo)) /\ Len(new) \in Nat /\ DOMAIN new = 1 .. Len(new)
      /\ Len(todo) \in Nat \ {0} /\ DOMAIN todo = 1 .. Len(todo) /\ Top = todo[1]
      /\ \A k \in DOMAIN todo' :
           \/ k \in DOMAIN new /\ todo'[k] = new[k]
           \/ \E l \in 2 .. Len(todo) : k = l - 1 + Len(new) /\ todo'[k] = todo[l]
  BY <1>1, PushedFacts
<1>3. /\ \A do, e : Waiting(do, e)' <=> (\E k \in DOMAIN new : new[k].do = do /\ new[k].who = e) \/ Behind(do, e)
      /\ \A do : Awaits(do)' <=> (\E k \in DOMAIN new : new[k].do = do) \/ AwaitsBehind(do)
  <2>1. PICK t : Replaced(new, t)
    BY <1>2
  <2>. QED BY <1>1, <2>1, ReplacedFacts
<1>4. /\ \A do, e : Waiting(do, e) <=> (Top.do = do /\ Top.who = e) \/ Behind(do, e)
      /\ \A do : Awaits(do) <=> Top.do = do \/ AwaitsBehind(do)
  BY <1>1, TopFacts
<1>5. Machined \subseteq Root /\ Root \subseteq Entity
  BY PrefabAssumption DEF Entity
<1>6. \A r \in Root : Waiting("build", r)' => seat'[r] = "none"
  BY <1>3, <1>4, <1>5 DEF BuildsRight
<1>7. \A k \in DOMAIN pending' : seat'[pending'[k]] = "none"
  BY <1>1, <1>5, Typed DEF BuildsRight
<1>8. ASSUME NEW r \in Machined PROVE Waiting("enter", r)' => machine'[r] = "seated"
  <2>. SUFFICES ASSUME Waiting("enter", r)' PROVE machine'[r] = "seated"
    OBVIOUS
  <2>1. Behind("enter", r)
    BY <1>3
  <2>2. machine[r] = "seated"
    BY <1>4, <2>1 DEF BuildsRight
  <2>3. ~(Top.do = "enter" /\ Top.who = r)
    <3>1. PICK k \in 2 .. Len(todo) : todo[k].do = "enter" /\ todo[k].who = r
      BY <2>1 DEF Behind
    <3>2. 1 \in DOMAIN todo /\ k \in DOMAIN todo /\ 1 < k
      BY <1>2
    <3>. QED BY <1>2, <3>1, <3>2 DEF BuildsRight
  <2>. QED BY <2>2, <2>3
<1>9. ASSUME NEW r \in Machined, seat'[r] = "seated", machine'[r] \notin {"live", "exited"}
      PROVE  Waiting("enter", r)'
  <2>1. seat[r] = "seated" /\ machine[r] \notin {"live", "exited"}
    BY <1>5, <1>9
  <2>2. Waiting("enter", r) /\ ~(Top.do = "enter" /\ Top.who = r)
    BY <1>9, <2>1 DEF BuildsRight
  <2>. QED BY <1>3, <1>4, <2>2
<1>10. ASSUME NEW i \in DOMAIN todo', NEW j \in DOMAIN todo', i < j, todo'[j].do = "enter"
       PROVE  todo'[i].do # "build" /\ ~(todo'[i].do = "enter" /\ todo'[i].who = todo'[j].who)
  <2>1. PICK m \in 2 .. Len(todo) : j = m - 1 + Len(new) /\ todo'[j] = todo[m]
    BY <1>2, <1>10
  <2>2. CASE i \in DOMAIN new /\ todo'[i] = new[i]
    BY <2>2
  <2>3. ASSUME NEW l \in 2 .. Len(todo), i = l - 1 + Len(new), todo'[i] = todo[l]
        PROVE  todo'[i].do # "build" /\ ~(todo'[i].do = "enter" /\ todo'[i].who = todo'[j].who)
    <3>1. l \in DOMAIN todo /\ m \in DOMAIN todo /\ l < m
      <4>1. Len(new) \in Nat /\ l \in Nat /\ m \in Nat /\ l - 1 + Len(new) < m - 1 + Len(new)
        BY <1>2, <1>10, <2>1, <2>3
      <4>2. l < m
        BY <4>1
      <4>. QED BY <1>2, <4>2
    <3>2. todo[m].do = "enter"
      BY <1>10, <2>1
    <3>3. todo[l].do # "build" /\ ~(todo[l].do = "enter" /\ todo[l].who = todo[m].who)
      BY <3>1, <3>2 DEF BuildsRight
    <3>. QED BY <2>1, <2>3, <3>3
  <2>. QED BY <1>2, <2>2, <2>3
<1>11. Awaits("realize")' \/ Awaits("drain")' => ~Awaits("enter")' /\ ~Awaits("build")'
  <2>1. Awaits("realize") \/ Awaits("drain") => ~Awaits("enter") /\ ~Awaits("build")
    BY DEF BuildsRight
  <2>. QED BY <1>3, <1>4, <2>1
<1>. QED BY <1>6, <1>7, <1>8, <1>9, <1>10, <1>11 DEF BuildsRight

\* No seat is about to exit, no subtree to be removed.
LEMMA NoExits ==
  ASSUME \A k \in DOMAIN todo' : todo'[k].do \notin {"exit_seat", "remove"}
  PROVE  ExitsRight'
BY DEF ExitsRight, SeatRight, RemoveRight

\* What waits to exit and to be removed stays in order when the top frame is
\* replaced: what it was about has exited.
LEMMA ExitsKept ==
  ASSUME SpawnerInv, ExitsRight, todo # <<>>, NEW new \in Seq(FrameType), todo' = new \o Tail(todo),
         parent' = parent, poisoned' = poisoned,
         \A e \in Entity : /\ life[e] = "alive" => life'[e] = "alive"
                           /\ seat'[e] = "seated" => seat[e] = "seated",
         \A e \in Machined : machine[e] = "exited" => machine'[e] = "exited",
         Top.do = "exit_seat" => poisoned \/ seat'[Top.who] # "seated",
         Top.do = "exit_machine" /\ Top.who \in Machined /\ seat'[Top.who] = "seated" =>
           machine'[Top.who] = "exited",
         \A i \in DOMAIN new : new[i].do \in {"exit_seat", "remove"} => SeatRight(i)' /\ RemoveRight(i)'
  PROVE  ExitsRight'
<1>1. SpawnerTypes /\ StackRight
  BY DEF SpawnerInv
<1>2. /\ Len(new) \in Nat /\ DOMAIN new = 1 .. Len(new)
      /\ Len(todo) \in Nat \ {0} /\ DOMAIN todo = 1 .. Len(todo) /\ Top = todo[1]
      /\ \A k \in DOMAIN todo' :
           \/ k \in DOMAIN new /\ todo'[k] = new[k]
           \/ \E l \in 2 .. Len(todo) : k = l - 1 + Len(new) /\ todo'[k] = todo[l]
      /\ \A l \in 2 .. Len(todo) : \A do, e : AheadOf(todo, l, do, e) =>
           (Top.do = do /\ Top.who = e) \/ AheadOf(todo', l - 1 + Len(new), do, e)
  BY <1>1, PushedFacts
<1>3. Machined \subseteq Root /\ Root \subseteq Entity /\ Child \subseteq Entity
  BY PrefabAssumption DEF Entity
<1>4. \A l \in 2 .. Len(todo) : l \in DOMAIN todo /\ todo[l].do \in {"exit_seat", "remove"} => todo[l].who \in Entity
  BY <1>1, <1>2 DEF StackRight, FrameRight
<1>5. ASSUME NEW l \in 2 .. Len(todo), NEW k \in DOMAIN todo', k = l - 1 + Len(new), todo'[k] = todo[l]
      PROVE  SeatRight(k)' /\ RemoveRight(k)'
  <2>1. l \in DOMAIN todo /\ SeatRight(l) /\ RemoveRight(l)
    BY <1>2 DEF ExitsRight
  <2>2. \A do, e : AheadOf(todo, l, do, e) => (Top.do = do /\ Top.who = e) \/ AheadOf(todo', k, do, e)
    BY <1>2, <1>5
  <2>3. SeatRight(k)'
    <3>. SUFFICES ASSUME todo[l].do = "exit_seat", ~poisoned
                  PROVE  /\ todo[l].who \in Machined /\ seat'[todo[l].who] = "seated" =>
                              machine'[todo[l].who] = "exited" \/ AheadOf(todo', k, "exit_machine", todo[l].who)
                         /\ \A c \in Child : parent[c] = todo[l].who /\ seat'[c] = "seated" => AheadOf(todo', k, "exit_seat", c)
      BY <1>5, Zenon DEF SeatRight
    <3>1. /\ todo[l].who \in Machined /\ seat[todo[l].who] = "seated" =>
               machine[todo[l].who] = "exited" \/ AheadOf(todo, l, "exit_machine", todo[l].who)
          /\ \A c \in Child : parent[c] = todo[l].who /\ seat[c] = "seated" => AheadOf(todo, l, "exit_seat", c)
      BY <2>1 DEF SeatRight
    <3>2. \A e \in Entity : seat'[e] = "seated" => seat[e] = "seated"
      OBVIOUS
    <3>3. ASSUME todo[l].who \in Machined, seat'[todo[l].who] = "seated"
          PROVE  machine'[todo[l].who] = "exited" \/ AheadOf(todo', k, "exit_machine", todo[l].who)
      BY <1>3, <2>2, <3>1, <3>2, <3>3
    <3>4. ASSUME NEW c \in Child, parent[c] = todo[l].who, seat'[c] = "seated"
          PROVE  AheadOf(todo', k, "exit_seat", c)
      BY <1>3, <2>2, <3>1, <3>2, <3>4
    <3>. QED BY <3>3, <3>4
  <2>4. RemoveRight(k)'
    <3>. SUFFICES ASSUME todo[l].do = "remove" PROVE RemoveRight(k)'
      BY <1>5 DEF RemoveRight
    <3>1. PICK e \in Entity : e = todo[l].who
      BY <1>4, <2>1
    <3>2. SubtreeOf(e)' = SubtreeOf(e) /\ SubtreeOf(e) \subseteq Entity
      BY <1>3 DEF SubtreeOf
    <3>3. /\ life[e] = "alive" /\ ToSet(todo[l].subtree) = SubtreeOf(e)
          /\ ~poisoned => \A x \in SubtreeOf(e) : seat[x] = "seated" => AheadOf(todo, l, "exit_seat", x)
      BY <2>1, <3>1 DEF RemoveRight
    <3>4. life'[e] = "alive"
      BY <3>3
    <3>5. ASSUME ~poisoned, NEW x \in SubtreeOf(e), seat'[x] = "seated"
          PROVE  AheadOf(todo', k, "exit_seat", x)
      <4>1. x \in Entity /\ seat[x] = "seated"
        BY <3>2, <3>5
      <4>. QED BY <2>2, <3>3, <3>5, <4>1
    <3>6. todo'[k].who = e /\ todo'[k].subtree = todo[l].subtree
      BY <1>5, <3>1
    <3>7. /\ life'[e] = "alive" /\ ToSet(todo'[k].subtree) = SubtreeOf(e)'
          /\ ~poisoned' => \A x \in SubtreeOf(e)' : seat'[x] = "seated" => AheadOf(todo', k, "exit_seat", x)
      BY <3>2, <3>3, <3>4, <3>5, <3>6
    <3>. QED BY <3>6, <3>7, Zenon DEF RemoveRight
  <2>. QED BY <2>3, <2>4
<1>6. ASSUME NEW k \in DOMAIN todo', k \in DOMAIN new, todo'[k] = new[k]
      PROVE  SeatRight(k)' /\ RemoveRight(k)'
  <2>1. CASE new[k].do \in {"exit_seat", "remove"}
    BY <1>6, <2>1
  <2>2. CASE new[k].do \notin {"exit_seat", "remove"}
    BY <1>6, <2>2 DEF SeatRight, RemoveRight
  <2>. QED BY <2>1, <2>2
<1>. QED BY <1>2, <1>5, <1>6 DEF ExitsRight

\* What has left stays so.
LEMMA LeftKept ==
  ASSUME NEW ref \in Entity, NEW subtree \in Seq(Entity), LeftRight(ref, subtree), poisoned => poisoned',
         \A e \in Entity : /\ life[e] # "free" => life'[e] # "free"
                           /\ seat'[e] = "seated" => seat[e] = "seated"
  PROVE  LeftRight(ref, subtree)'
<1>1. ToSet(subtree) \subseteq Entity
  BY DEF ToSet
<1>. QED BY <1>1 DEF LeftRight

\* No reap is left.
LEMMA NoReaps ==
  ASSUME queued_reaps' = <<>>,
         \A j \in DOMAIN commands' : commands'[j].op # "despawn",
         \A k \in DOMAIN todo' : todo'[k].do # "bury"
  PROVE  ReapsRight'
<1>1. DOMAIN queued_reaps' = {}
  OBVIOUS
<1>. QED BY <1>1 DEF ReapsRight

\* A reap stays right while the tree stands.
LEMMA ReapStays ==
  ASSUME NEW reap \in Reap, ReapRight(reap), parent' = parent, poisoned => poisoned',
         Awaits("flush")' <=> Awaits("flush"),
         \A e \in Entity : /\ life'[e] = life[e] \/ (life[e] = "free" /\ life'[e] = "pending")
                           /\ seat'[e] = "seated" => seat[e] = "seated",
         \A j \in DOMAIN commands : j \in DOMAIN commands' /\ commands'[j] = commands[j]
  PROVE  ReapRight(reap)'
<1>2. PICK e \in Entity : e = reap.ref
  BY DEF Reap
<1>3. PICK sub \in Seq(Entity) : sub = reap.subtree
  BY DEF Reap
<1>4. LeftRight(e, sub)'
  <2>1. LeftRight(e, sub)
    BY <1>2, <1>3 DEF ReapRight
  <2>. QED BY <2>1, LeftKept
<1>5. ~Awaits("flush")' => life'[e] = "dead"
  BY <1>2 DEF ReapRight
<1>6. Awaits("flush")' =>
        /\ Live(e)' /\ ToSet(sub) = SubtreeOf(e)'
        /\ \E j \in DOMAIN commands' : commands'[j] = Despawn(e)
  BY <1>2, <1>3 DEF ReapRight, Live, SubtreeOf
<1>. QED BY <1>2, <1>3, <1>4, <1>5, <1>6 DEF ReapRight

\* What is about to be buried stays dead and gone.
LEMMA BuriesStay ==
  ASSUME SpawnerInv, ReapsRight, poisoned => poisoned',
         \A e \in Entity : /\ life[e] = "dead" => life'[e] = "dead"
                           /\ life[e] # "free" => life'[e] # "free"
                           /\ seat'[e] = "seated" => seat[e] = "seated",
         NEW k \in DOMAIN todo', todo'[k].do = "bury",
         \E l \in DOMAIN todo : todo'[k] = todo[l]
  PROVE  life'[todo'[k].who] = "dead" /\ LeftRight(todo[k].who, todo[k].subtree)'
<1>1. \A l \in DOMAIN todo : todo[l] \in FrameType /\ (todo[l].do = "bury" => todo[l].who \in Entity)
  BY DEF SpawnerInv, SpawnerTypes, StackRight, FrameRight
<1>2. PICK l \in DOMAIN todo : todo'[k] = todo[l]
  OBVIOUS
<1>3. PICK e \in Entity : e = todo[l].who
  BY <1>1, <1>2
<1>4. PICK sub \in Seq(Entity) : sub = todo[l].subtree
  BY <1>1 DEF FrameType
<1>5. life[e] = "dead" /\ LeftRight(e, sub)
  BY <1>2, <1>3, <1>4 DEF ReapsRight
<1>6. life'[e] = "dead" /\ LeftRight(e, sub)'
  BY <1>5, LeftKept
<1>7. todo'[k].who = e /\ todo'[k].subtree = sub
  BY <1>2, <1>3, <1>4
<1>. QED BY <1>6, <1>7

\* The reaps stay right while no removal is queued and the tree stands.
LEMMA ReapsKept ==
  ASSUME SpawnerInv, ReapsRight, queued_reaps' = queued_reaps, parent' = parent, poisoned => poisoned',
         Awaits("flush")' <=> Awaits("flush"),
         \A e \in Entity : /\ life'[e] = life[e] \/ (life[e] = "free" /\ life'[e] = "pending")
                           /\ seat'[e] = "seated" => seat[e] = "seated",
         \A j \in DOMAIN commands : j \in DOMAIN commands' /\ commands'[j] = commands[j],
         \A j \in DOMAIN commands' : commands'[j].op = "despawn" => j \in DOMAIN commands /\ commands'[j] = commands[j],
         \A k \in DOMAIN todo' : todo'[k].do = "bury" =>
           \E l \in DOMAIN todo : todo'[k] = todo[l]
  PROVE  ReapsRight'
<1>1. \A k \in DOMAIN queued_reaps : queued_reaps[k] \in Reap
  BY DEF SpawnerInv, SpawnerTypes
<1>2. ASSUME NEW k \in DOMAIN queued_reaps PROVE ReapRight(queued_reaps[k])'
  <2>1. PICK reap \in Reap : reap = queued_reaps[k] /\ ReapRight(reap)
    BY <1>1 DEF ReapsRight
  <2>2. ReapRight(reap)'
    BY <2>1, ReapStays
  <2>3. queued_reaps'[k] = reap
    BY <2>1
  <2>. QED BY <2>2, <2>3
<1>3. \A k \in DOMAIN queued_reaps' : ReapRight(queued_reaps[k])'
  BY <1>2
<1>4. ASSUME NEW j \in DOMAIN commands', commands'[j].op = "despawn"
      PROVE  \E k \in DOMAIN queued_reaps' : queued_reaps'[k].ref = commands'[j].entity
  BY <1>4 DEF ReapsRight
<1>5. ASSUME NEW k \in DOMAIN todo', todo'[k].do = "bury"
      PROVE  life'[todo'[k].who] = "dead" /\ LeftRight(todo[k].who, todo[k].subtree)'
  BY <1>5, BuriesStay
<1>. QED BY <1>3, <1>4, <1>5 DEF ReapsRight

\* Spawns become known, despawns and reparents are requested, a record is
\* refused: the stack stands.
LEMMA LifeSame ==
  ASSUME SpawnerInv, LifeInv, todo' = todo, poisoned => poisoned',
         parent' = parent, queued_reaps' = queued_reaps,
         seat' = seat, machine' = machine, noted' = noted, told' = told,
         \A e \in Entity : life'[e] = life[e] \/ (e \in Root /\ life[e] = "free" /\ life'[e] = "pending"),
         \A k \in DOMAIN pending' : seat[pending'[k]] = "none",
         \A j \in DOMAIN commands : j \in DOMAIN commands' /\ commands'[j] = commands[j],
         \A j \in DOMAIN commands' : commands'[j].op = "despawn" => j \in DOMAIN commands /\ commands'[j] = commands[j]
  PROVE  LifeInv'
<1>0. SpawnerTypes
  BY DEF SpawnerInv
<1>1. seat' = seat /\ machine' = machine /\ noted' = noted /\ told' = told
  OBVIOUS
<1>2. ParentsAlive'
  <2>1. ParentsAlive
    BY DEF LifeInv
  <2>2. \A e \in Entity : life[e] = "alive" => life'[e] = "alive"
    OBVIOUS
  <2>. QED BY <1>0, <2>1, <2>2, ParentsKept
<1>3. StagesRight'
  <2>1. StagesRight
    BY DEF LifeInv
  <2>. QED BY <1>0, <1>1, <2>1, StagesKept
<1>4. BuildsRight'
  <2>1. BuildsRight
    BY DEF LifeInv
  <2>2. /\ \A do, e : Waiting(do, e)' <=> Waiting(do, e)
        /\ \A do : Awaits(do)' <=> Awaits(do)
    BY DEF Waiting, Awaits
  <2>. QED BY <1>1, <2>1, <2>2 DEF BuildsRight
<1>5. ExitsRight'
  <2>1. ExitsRight
    BY DEF LifeInv
  <2>2. \A k \in DOMAIN todo : todo[k].do \in {"exit_seat", "remove"} => todo[k].who \in Entity
    BY DEF SpawnerInv, StackRight, FrameRight
  <2>3. ASSUME NEW k \in DOMAIN todo PROVE SeatRight(k)' /\ RemoveRight(k)'
    <3>1. SeatRight(k) /\ RemoveRight(k)
      BY <2>1 DEF ExitsRight
    <3>2. SeatRight(k)'
      BY <1>1, <3>1 DEF SeatRight
    <3>3. RemoveRight(k)'
      BY <1>1, <2>2, <3>1 DEF RemoveRight, SubtreeOf
    <3>. QED BY <3>2, <3>3
  <2>. QED BY <2>3 DEF ExitsRight
<1>6. ReapsRight'
  <2>1. ReapsRight
    BY DEF LifeInv
  <2>2. Awaits("flush")' <=> Awaits("flush")
    BY DEF Awaits
  <2>3. \A e \in Entity : /\ life'[e] = life[e] \/ (life[e] = "free" /\ life'[e] = "pending")
                          /\ seat'[e] = "seated" => seat[e] = "seated"
    BY <1>1
  <2>4. \A k \in DOMAIN todo' : todo'[k].do = "bury" => \E l \in DOMAIN todo : todo'[k] = todo[l]
    OBVIOUS
  <2>. QED BY <2>1, <2>2, <2>3, <2>4, ReapsKept
<1>. QED BY <1>2, <1>3, <1>4, <1>5, <1>6 DEF LifeInv

\* The calls of user code, and the journal.
LEMMA LifeCalls ==
  ASSUME SpawnerInv, LifeInv,
         \/ \E r \in Root : spawn_prefab(r)
         \/ \E e \in Entity, delay \in 0 .. MaxDelay : despawn(e, delay)
         \/ \E e \in Entity, p \in Root \cup {None} : (p # None => e \in Child) /\ queue_attach(e, p)
         \/ journal_refuses
  PROVE  LifeInv'
<1>1. /\ commands \in Seq(Command) /\ pending \in Seq(Root) /\ life \in [Entity -> {"free", "pending", "alive", "dead"}]
      /\ Root \subseteq Entity
  BY DEF SpawnerInv, SpawnerTypes, Entity
<1>2. \A k \in DOMAIN pending : seat[pending[k]] = "none"
  BY DEF LifeInv, BuildsRight
<1>3. ASSUME NEW c \in Command, commands' = Append(commands, c), c.op # "despawn"
      PROVE  /\ \A j \in DOMAIN commands : j \in DOMAIN commands' /\ commands'[j] = commands[j]
             /\ \A j \in DOMAIN commands' : commands'[j].op = "despawn" =>
                  j \in DOMAIN commands /\ commands'[j] = commands[j]
  <2>1. /\ DOMAIN commands = 1 .. Len(commands) /\ DOMAIN commands' = 1 .. Len(commands) + 1 /\ Len(commands) \in Nat
        /\ \A j \in 1 .. Len(commands) : commands'[j] = commands[j]
        /\ commands'[Len(commands) + 1] = c
    BY <1>1, <1>3
  <2>. QED BY <1>3, <2>1
<1>4. ASSUME NEW r \in Root, spawn_prefab(r) PROVE LifeInv'
  <2>1. /\ todo' = todo /\ poisoned' = poisoned /\ parent' = parent /\ queued_reaps' = queued_reaps
        /\ seat' = seat /\ machine' = machine /\ noted' = noted /\ told' = told
        /\ life[r] = "free" /\ life' = [life EXCEPT ![r] = "pending"]
        /\ commands' = Append(commands, Spawn(r)) /\ pending' = Append(pending, r)
    BY <1>4 DEF spawn_prefab, clockVars, hostVars
  <2>2. PICK c \in Command : c = Spawn(r) /\ c.op = "spawn"
    <3>1. Spawn(r) \in Command /\ Spawn(r).op = "spawn"
      BY <1>1 DEF Command, Spawn
    <3>. QED BY <3>1
  <2>3. /\ \A j \in DOMAIN commands : j \in DOMAIN commands' /\ commands'[j] = commands[j]
        /\ \A j \in DOMAIN commands' : commands'[j].op = "despawn" =>
             j \in DOMAIN commands /\ commands'[j] = commands[j]
    BY <1>3, <2>1, <2>2
  <2>4. seat[r] = "none"
    BY <1>1, <2>1 DEF LifeInv, StagesRight
  <2>5. \A k \in DOMAIN pending' : seat[pending'[k]] = "none"
    <3>1. /\ DOMAIN pending = 1 .. Len(pending) /\ DOMAIN pending' = 1 .. Len(pending) + 1 /\ Len(pending) \in Nat
          /\ \A j \in 1 .. Len(pending) : pending'[j] = pending[j]
          /\ pending'[Len(pending) + 1] = r
      BY <1>1, <2>1
    <3>. QED BY <1>2, <2>4, <3>1
  <2>6. \A e \in Entity : life'[e] = life[e] \/ (e \in Root /\ life[e] = "free" /\ life'[e] = "pending")
    BY <1>1, <2>1
  <2>. QED BY <2>1, <2>3, <2>5, <2>6, LifeSame
<1>5. ASSUME NEW e \in Entity, NEW delay \in 0 .. MaxDelay, despawn(e, delay) PROVE LifeInv'
  <2>1. /\ todo' = todo /\ poisoned' = poisoned /\ UNCHANGED worldVars /\ queued_reaps' = queued_reaps
        /\ UNCHANGED hostVars /\ pending' = pending
    BY <1>5 DEF despawn, clockVars
  <2>2. /\ life' = life /\ parent' = parent /\ commands' = commands
        /\ seat' = seat /\ machine' = machine /\ noted' = noted /\ told' = told
    BY <2>1 DEF worldVars, hostVars
  <2>. QED BY <1>2, <2>1, <2>2, LifeSame
<1>6. ASSUME NEW c \in Entity, NEW p \in Root \cup {None}, p # None => c \in Child, queue_attach(c, p)
      PROVE  LifeInv'
  <2>1. /\ todo' = todo /\ poisoned' = poisoned /\ parent' = parent /\ life' = life
        /\ seat' = seat /\ machine' = machine /\ noted' = noted /\ told' = told
        /\ UNCHANGED queueVars /\ commands' = Append(commands, Reparent(c, p))
    BY <1>6 DEF queue_attach, clockVars
  <2>2. PICK d \in Command : d = Reparent(c, p) /\ d.op = "reparent"
    <3>1. Reparent(c, p) \in Command /\ Reparent(c, p).op = "reparent"
      BY <1>6, AttachCommand
    <3>. QED BY <3>1
  <2>3. /\ \A j \in DOMAIN commands : j \in DOMAIN commands' /\ commands'[j] = commands[j]
        /\ \A j \in DOMAIN commands' : commands'[j].op = "despawn" =>
             j \in DOMAIN commands /\ commands'[j] = commands[j]
    BY <1>3, <2>1, <2>2
  <2>4. queued_reaps' = queued_reaps /\ pending' = pending
    BY <2>1 DEF queueVars
  <2>. QED BY <1>2, <2>1, <2>3, <2>4, LifeSame
<1>7. ASSUME journal_refuses PROVE LifeInv'
  <2>1. /\ todo' = todo /\ poisoned' /\ UNCHANGED worldVars /\ UNCHANGED queueVars /\ UNCHANGED hostVars
    BY <1>7 DEF journal_refuses
  <2>2. /\ life' = life /\ parent' = parent /\ commands' = commands /\ queued_reaps' = queued_reaps /\ pending' = pending
        /\ seat' = seat /\ machine' = machine /\ noted' = noted /\ told' = told
    BY <2>1 DEF worldVars, queueVars, hostVars
  <2>. QED BY <1>2, <2>1, <2>2, LifeSame
<1>. QED BY <1>4, <1>5, <1>6, <1>7

\* Machines and seats exit and enter, code of the user runs and returns, and
\* what is stale is dropped.
LEMMA LifeHost ==
  ASSUME SpawnerInv, LifeInv,
         \/ drop_stale \/ user_returns \/ drop_unborn \/ exit_machine \/ despawn_exit \/ enter \/ announce
         \/ settle /\ Top.subtree = <<>>
  PROVE  LifeInv'
<1>0. SpawnerTypes /\ StackRight
  BY DEF SpawnerInv
<1>1. /\ todo # <<>> /\ UNCHANGED clockVars /\ UNCHANGED worldVars /\ UNCHANGED queueVars
      /\ noted' = noted /\ told' = told
      /\ Top.do \in {"due", "hook", "despawned_listener", "build", "exit_machine", "exit_seat", "enter",
                     "announce", "settle"}
  BY DEF drop_stale, user_returns, drop_unborn, exit_machine, despawn_exit, enter, announce, settle, Doing, hostVars
<1>2. /\ poisoned' = poisoned /\ life' = life /\ parent' = parent /\ commands' = commands
      /\ queued_reaps' = queued_reaps /\ pending' = pending
  BY <1>1 DEF clockVars, worldVars, queueVars
<1>3. \E new \in Seq(FrameType) : todo' = new \o Tail(todo) /\ \A i \in DOMAIN new : new[i].do = "hook"
  <2>1. todo' = Tail(todo) \/ todo' = <<Frame("hook", Top.who)>> \o Tail(todo)
    BY DEF drop_stale, user_returns, drop_unborn, exit_machine, despawn_exit, enter, announce, settle
  <2>2. CASE todo' = Tail(todo)
    <3>1. Tail(todo) \in Seq(FrameType)
      BY <1>0, <1>1 DEF SpawnerTypes
    <3>2. <<>> \in Seq(FrameType) /\ todo' = <<>> \o Tail(todo) /\ DOMAIN <<>> = {}
      BY <2>2, <3>1
    <3>. QED BY <3>2
  <2>3. CASE todo' = <<Frame("hook", Top.who)>> \o Tail(todo)
    <3>1. PICK f \in FrameType : f = Frame("hook", Top.who) /\ f.do = "hook"
      BY <1>1, HookFrame DEF Op
    <3>2. <<f>> \in Seq(FrameType) /\ DOMAIN <<f>> = {1} /\ <<f>>[1] = f
      OBVIOUS
    <3>. QED BY <2>3, <3>1, <3>2
  <2>. QED BY <2>1, <2>2, <2>3
<1>4. PICK new \in Seq(FrameType) : todo' = new \o Tail(todo) /\ \A i \in DOMAIN new : new[i].do = "hook"
  BY <1>3
<1>5. /\ Replaced(new, Tail(todo))
      /\ DOMAIN todo = 1 .. Len(todo)
      /\ \A k \in DOMAIN todo' :
           \/ k \in DOMAIN new /\ todo'[k] = new[k]
           \/ \E l \in 2 .. Len(todo) : k = l - 1 + Len(new) /\ todo'[k] = todo[l]
  BY <1>0, <1>1, <1>4, PushedFacts
<1>6. \A e \in Entity : seat'[e] = seat[e] \/ (seat[e] = "seated" /\ seat'[e] = "exited")
  BY HostTypes DEF drop_stale, user_returns, drop_unborn, exit_machine, despawn_exit, enter, announce, settle, hostVars
<1>7. Machined \subseteq Root /\ machine \in [Root -> {"none", "seated", "live", "exited"}]
  BY PrefabAssumption, HostTypes
<1>8. /\ \A r \in Machined : \/ machine'[r] = machine[r]
                             \/ machine[r] = "live" /\ machine'[r] = "exited"
                             \/ Top.do = "enter" /\ Top.who = r /\ machine'[r] = "live"
      /\ Top.do = "enter" /\ Top.who \in Machined => machine'[Top.who] = "live"
  BY <1>7 DEF drop_stale, user_returns, drop_unborn, exit_machine, despawn_exit, enter,
           announce, settle, hostVars, Doing
<1>9. ParentsAlive'
  BY <1>0, <1>2, ParentsKept DEF LifeInv
<1>10. StagesRight'
  BY <1>0, <1>1, <1>2, <1>6, StagesKept DEF LifeInv
<1>11. BuildsRight'
  <2>1. BuildsRight
    BY DEF LifeInv
  <2>2. \A e \in Entity : /\ seat[e] = "none" <=> seat'[e] = "none"
                          /\ seat'[e] = "seated" => seat[e] = "seated"
    BY <1>6
  <2>3. \A i \in DOMAIN new : new[i].do \notin {"build", "enter", "realize", "drain"}
    BY <1>4
  <2>. QED BY <1>1, <1>2, <1>4, <1>8, <2>1, <2>2, <2>3, BuildsKept
<1>12. ExitsRight'
  <2>1. ExitsRight
    BY DEF LifeInv
  <2>2. \A e \in Entity : /\ life[e] = "alive" => life'[e] = "alive"
                          /\ seat'[e] = "seated" => seat[e] = "seated"
    BY <1>2, <1>6
  <2>3. \A e \in Machined : machine[e] = "exited" => machine'[e] = "exited"
    <3>1. Top.do = "enter" /\ Top.who \in Machined => machine[Top.who] = "seated"
      <4>1. Top.do = "enter" => Waiting("enter", Top.who)
        BY <1>0, <1>1, TopFacts
      <4>. QED BY <4>1 DEF LifeInv, BuildsRight
    <3>. QED BY <1>8, <3>1
  <2>4. Top.do = "exit_seat" => poisoned \/ seat'[Top.who] # "seated"
    <3>1. Top.do = "exit_seat" => Top.who \in Entity
      BY <1>0, <1>1, TopFacts DEF StackRight, FrameRight
    <3>. QED BY <3>1, HostTypes DEF drop_stale, user_returns, drop_unborn, exit_machine, despawn_exit, enter,
           announce, settle, hostVars, Doing
  <2>5. Top.do = "exit_machine" /\ Top.who \in Machined /\ seat'[Top.who] = "seated" => machine'[Top.who] = "exited"
    <3>. SUFFICES ASSUME Top.do = "exit_machine", Top.who \in Machined, seat'[Top.who] = "seated"
                  PROVE  machine'[Top.who] = "exited"
      OBVIOUS
    <3>1. exit_machine
      BY DEF drop_stale, user_returns, drop_unborn, despawn_exit, enter, announce, settle, Doing
    <3>2. CASE machine[Top.who] = "live"
      BY <1>7, <3>1, <3>2 DEF exit_machine
    <3>3. CASE machine[Top.who] # "live"
      <4>1. machine' = machine /\ seat' = seat
        BY <3>1, <3>3 DEF exit_machine
      <4>2. ~Waiting("enter", Top.who)
        <5>1. Awaits("realize")
          BY <1>0, <1>1, TopFacts, Stages DEF StackRight, FlushAhead
        <5>2. ~Awaits("enter")
          BY <5>1 DEF LifeInv, BuildsRight
        <5>. QED BY <5>2 DEF Awaits, Waiting
      <4>. QED BY <3>3, <4>1, <4>2 DEF LifeInv, BuildsRight
    <3>. QED BY <3>2, <3>3
  <2>6. \A i \in DOMAIN new : new[i].do \in {"exit_seat", "remove"} => SeatRight(i)' /\ RemoveRight(i)'
    BY <1>4
  <2>. QED BY <1>1, <1>2, <1>4, <2>1, <2>2, <2>3, <2>4, <2>5, <2>6, ExitsKept
<1>13. ReapsRight'
  <2>1. ReapsRight
    BY DEF LifeInv
  <2>2. Awaits("flush")' <=> Awaits("flush")
    <3>1. PICK t : Replaced(new, t)
      BY <1>5
    <3>2. Awaits("flush")' <=> (\E k \in DOMAIN new : new[k].do = "flush") \/ AwaitsBehind("flush")
      BY <1>0, <3>1, ReplacedFacts
    <3>3. Awaits("flush") <=> Top.do = "flush" \/ AwaitsBehind("flush")
      BY <1>0, <1>1, TopFacts
    <3>. QED BY <1>1, <1>4, <3>2, <3>3
  <2>3. \A k \in DOMAIN todo' : todo'[k].do = "bury" => \E l \in DOMAIN todo : todo'[k] = todo[l]
    BY <1>4, <1>5
  <2>4. \A e \in Entity : /\ life'[e] = life[e] \/ (life[e] = "free" /\ life'[e] = "pending")
                          /\ seat'[e] = "seated" => seat[e] = "seated"
    BY <1>2, <1>6
  <2>. QED BY <1>2, <2>1, <2>2, <2>3, <2>4, ReapsKept
<1>. QED BY <1>9, <1>10, <1>11, <1>12, <1>13 DEF LifeInv

\* As many different elements as a finite set has are all of it.
LEMMA OntoSet ==
  ASSUME NEW S, IsFiniteSet(S), NEW n \in Nat, n = Cardinality(S), NEW f \in [1 .. n -> S],
         \A i, j \in 1 .. n : f[i] = f[j] => i = j
  PROVE  \A x \in S : \E k \in 1 .. n : f[k] = x
<1>1. f \in Injection(1 .. n, S)
  BY DEF Injection, IsInjective
<1>2. Cardinality(1 .. n) = Cardinality(S)
  BY FS_Interval
<1>3. f \in Surjection(1 .. n, S)
  BY <1>1, <1>2, FS_Injection
<1>. QED BY <1>3 DEF Surjection

\* The list of a finite set leaves nothing out.
LEMMA AllInList ==
  ASSUME NEW S, IsFiniteSet(S)
  PROVE  \A x \in S : \E k \in 1 .. Len(SetToSeq(S)) : SetToSeq(S)[k] = x
<1>1. \E f \in [1 .. Cardinality(S) -> S] : IsInjective(f)
  <2>1. PICK f \in Bijection(1 .. Cardinality(S), S) : TRUE
    BY FS_NatBijection, FS_CardinalityType, FS_CountingElements DEF ExistsBijection
  <2>. QED BY <2>1 DEF Bijection, Injection, IsInjective
<1>2. SetToSeq(S) \in [1 .. Cardinality(S) -> S] /\ IsInjective(SetToSeq(S))
  BY <1>1, Zenon DEF SetToSeq
<1>3. PICK n \in Nat : n = Cardinality(S)
  BY FS_CardinalityType
<1>4. PICK f \in [1 .. n -> S] : f = SetToSeq(S)
  BY <1>2, <1>3
<1>5. Len(f) = n
  BY <1>4, ListIn
<1>6. \A x \in S : \E k \in 1 .. n : f[k] = x
  <2>1. \A i, j \in 1 .. n : f[i] = f[j] => i = j
    BY <1>2, <1>4 DEF IsInjective
  <2>. QED BY <1>3, <2>1, OntoSet
<1>. QED BY <1>4, <1>5, <1>6

\* The captured subtree in reverse: the children, then their parent.
LEMMA Backwards ==
  ASSUME SpawnerTypes, ParentsAlive, NEW e \in Entity, life[e] = "alive"
  PROVE  /\ Captured(e) \in Seq(Entity) /\ ToSet(Captured(e)) = SubtreeOf(e)
         /\ \E n \in Nat \ {0}, back \in Seq(Entity) :
              /\ back = Reverse(Captured(e)) /\ Len(back) = n /\ back[n] = e
              /\ \A i \in 1 .. n - 1 : back[i] \in Child /\ parent[back[i]] = e
              /\ \A c \in Child : parent[c] = e => \E i \in 1 .. n - 1 : back[i] = c
<1> DEFINE S == {c \in Child : life[c] = "alive" /\ parent[c] = e}
<1>1. IsFiniteSet(S)
  <2>1. S \in SUBSET (Root \cup Child)
    OBVIOUS
  <2>. HIDE DEF S
  <2>. QED BY <2>1, PrefabAssumption, FS_Subset
<1>2. /\ S = {c \in Child : parent[c] = e} /\ S \subseteq Entity /\ Below(e) = SetToSeq(S)
  BY PrefabAssumption DEF ParentsAlive, Entity, Below
<1>. HIDE DEF S
<1>3. PICK below \in Seq(S) : below = SetToSeq(S)
  BY <1>1, ListOfSet
<1>4. PICK m \in Nat : m = Len(below)
  BY <1>3
<1>5. DOMAIN below = 1 .. m /\ \A i \in 1 .. m : below[i] \in S
  BY <1>3, <1>4
<1>6. \A x \in S : \E k \in 1 .. m : below[k] = x
  BY <1>1, <1>3, <1>4, AllInList
<1>7. PICK list \in Seq(Entity) : list = Captured(e) /\ list = <<e>> \o below
  <2>1. below \in Seq(Entity)
    BY <1>2, <1>3
  <2>2. <<e>> \o below \in Seq(Entity)
    BY <2>1
  <2>. QED BY <1>2, <1>3, <2>2 DEF Captured
<1>8. /\ Len(list) = m + 1 /\ DOMAIN list = 1 .. m + 1 /\ list[1] = e
      /\ \A i \in 1 .. m : list[i + 1] = below[i]
  BY <1>3, <1>4, <1>7
<1>9. ToSet(list) = SubtreeOf(e)
  <2>1. ToSet(list) = {list[i] : i \in 1 .. m + 1}
    BY <1>8 DEF ToSet
  <2>2. ASSUME NEW i \in 1 .. m + 1 PROVE list[i] \in {e} \cup S
    <3>1. CASE i = 1
      BY <1>8, <3>1
    <3>2. CASE i # 1
      <4>1. PICK j \in 1 .. m : i = j + 1
        <5>1. i - 1 \in 1 .. m /\ i = (i - 1) + 1
          BY <3>2
        <5>. QED BY <5>1
      <4>. QED BY <1>5, <1>8, <4>1
    <3>. QED BY <3>1, <3>2
  <2>3. ASSUME NEW x \in {e} \cup S PROVE \E i \in 1 .. m + 1 : list[i] = x
    <3>1. CASE x = e
      BY <1>8, <3>1
    <3>2. CASE x \in S
      <4>1. PICK j \in 1 .. m : below[j] = x
        BY <1>6, <3>2
      <4>2. j + 1 \in 1 .. m + 1 /\ list[j + 1] = x
        BY <1>8, <4>1
      <4>. QED BY <4>2
    <3>. QED BY <3>1, <3>2
  <2>4. SubtreeOf(e) = {e} \cup S
    BY <1>2 DEF SubtreeOf
  <2>. QED BY <2>1, <2>2, <2>3, <2>4
<1>10. PICK n \in Nat \ {0} : n = m + 1
  BY <1>4
<1> DEFINE back == [i \in 1 .. n |-> list[(n - i) + 1]]
<1>11. back = Reverse(list)
  BY <1>8, <1>10 DEF Reverse
<1>12. ASSUME NEW i \in 1 .. n PROVE back[i] = list[(n - i) + 1] /\ (n - i) + 1 \in 1 .. n
  BY <1>10
<1>13. back \in [1 .. n -> Entity]
  BY <1>7, <1>8, <1>10, <1>12
<1>. HIDE DEF back
<1>14. back \in Seq(Entity) /\ Len(back) = n
  BY <1>13, ListIn
<1>15. back[n] = e
  <2>1. n \in 1 .. n /\ (n - n) + 1 = 1
    BY <1>10
  <2>. QED BY <1>8, <1>12, <2>1
<1>16. ASSUME NEW i \in 1 .. n - 1 PROVE back[i] \in Child /\ parent[back[i]] = e
  <2>1. i \in 1 .. n /\ n - i \in 1 .. m
    BY <1>10
  <2>2. back[i] = below[n - i]
    BY <1>8, <1>12, <2>1
  <2>3. back[i] \in S
    BY <1>5, <2>1, <2>2
  <2>. QED BY <1>2, <2>3
<1>17. ASSUME NEW c \in Child, parent[c] = e PROVE \E i \in 1 .. n - 1 : back[i] = c
  <2>1. c \in S
    BY <1>2, <1>17
  <2>2. PICK j \in 1 .. m : below[j] = c
    BY <1>6, <2>1
  <2>3. n - j \in 1 .. n - 1 /\ n - j \in 1 .. n /\ (n - (n - j)) + 1 = j + 1
    BY <1>10
  <2>4. back[n - j] = list[j + 1]
    BY <1>12, <2>3
  <2>5. back[n - j] = c
    BY <1>8, <2>2, <2>4
  <2>. QED BY <2>3, <2>5
<1>. QED BY <1>7, <1>9, <1>11, <1>14, <1>15, <1>16, <1>17

\* One list of frames behind another.
LEMMA FramesJoin ==
  ASSUME NEW s \in Seq(FrameType), NEW t \in Seq(FrameType), NEW u, u = s \o t
  PROVE  /\ u \in Seq(FrameType) /\ Len(u) = Len(s) + Len(t) /\ DOMAIN u = 1 .. Len(s) + Len(t)
         /\ \A i \in 1 .. Len(s) : u[i] = s[i]
         /\ \A i \in 1 .. Len(t) : u[Len(s) + i] = t[i]
<1>1. u \in Seq(FrameType) /\ Len(u) = Len(s) + Len(t)
  BY ConcatProperties
<1>. QED BY <1>1

\* The frames of an exit chain: the machines, the seats, the removal.
IsChain(new, e, list, back, n) ==
  /\ new = exit_chain(list) \o <<[do |-> "remove", who |-> e, subtree |-> list]>>
  /\ Len(new) = n + n + 1 /\ DOMAIN new = 1 .. n + n + 1
  /\ \A i \in 1 .. n : /\ new[i].do = "exit_machine" /\ new[i].who = back[i]
                       /\ new[n + i].do = "exit_seat" /\ new[n + i].who = back[i]
  /\ new[n + n + 1].do = "remove" /\ new[n + n + 1].who = e /\ new[n + n + 1].subtree = list

LEMMA ChainFrames ==
  ASSUME NEW e \in Entity, NEW list \in Seq(Entity), NEW n \in Nat, NEW back \in Seq(Entity),
         back = Reverse(list), Len(back) = n
  PROVE  \E new \in Seq(FrameType) : IsChain(new, e, list, back, n)
<1>1. ASSUME NEW do \in {"exit_machine", "exit_seat"}
      PROVE  \E each \in Seq(FrameType) :
               /\ each = Each(do, back) /\ Len(each) = n
               /\ \A i \in 1 .. n : each[i].do = do /\ each[i].who = back[i]
  <2>1. Entity \in SUBSET (Entity \cup {None}) /\ do \in Op
    BY DEF Op
  <2>. QED BY <2>1, EachFrames
<1>2. PICK out \in Seq(FrameType) :
        /\ out = Each("exit_machine", back) /\ Len(out) = n
        /\ \A i \in 1 .. n : out[i].do = "exit_machine" /\ out[i].who = back[i]
  BY <1>1
<1>3. PICK seats \in Seq(FrameType) :
        /\ seats = Each("exit_seat", back) /\ Len(seats) = n
        /\ \A i \in 1 .. n : seats[i].do = "exit_seat" /\ seats[i].who = back[i]
  BY <1>1
<1>4. PICK last \in FrameType : last = [do |-> "remove", who |-> e, subtree |-> list]
  <2>1. [do |-> "remove", who |-> e, subtree |-> list] \in FrameType
    BY DEF FrameType, Op
  <2>. QED BY <2>1
<1>5. last.do = "remove" /\ last.who = e /\ last.subtree = list
  BY <1>4
<1>6. PICK chain \in Seq(FrameType), one \in Seq(FrameType), new \in Seq(FrameType) :
        chain = out \o seats /\ one = <<last>> /\ new = chain \o one
  <2>1. PICK chain \in Seq(FrameType) : chain = out \o seats
    <3>1. out \o seats \in Seq(FrameType)
      BY ConcatProperties
    <3>. QED BY <3>1
  <2>2. PICK one \in Seq(FrameType) : one = <<last>>
    <3>1. <<last>> \in Seq(FrameType)
      OBVIOUS
    <3>. QED BY <3>1
  <2>3. chain \o one \in Seq(FrameType)
    BY ConcatProperties
  <2>. QED BY <2>1, <2>2, <2>3
<1>7. /\ Len(new) = n + n + 1 /\ DOMAIN new = 1 .. n + n + 1
      /\ \A i \in 1 .. n : new[i] = out[i] /\ new[n + i] = seats[i]
      /\ new[n + n + 1] = last
  <2>0. n = Len(out) /\ n = Len(seats)
    BY <1>2, <1>3
  <2>9. /\ Len(chain) = Len(out) + Len(seats)
        /\ \A i \in 1 .. Len(out) : chain[i] = out[i]
        /\ \A i \in 1 .. Len(seats) : chain[Len(out) + i] = seats[i]
    <3>1. chain = out \o seats /\ out \in Seq(FrameType) /\ seats \in Seq(FrameType)
      BY <1>6
    <3>. QED BY ONLY <3>1, FramesJoin
  <2>2. /\ Len(chain) = n + n
        /\ \A i \in 1 .. n : chain[i] = out[i] /\ chain[n + i] = seats[i]
    BY <2>0, <2>9
  <2>3. PICK m \in Nat : m = n + n
    OBVIOUS
  <2>8. Len(one) = 1 /\ one[1] = last
    BY <1>6
  <2>7. new = chain \o one /\ m = Len(chain) /\ 1 = Len(one) /\ 1 \in Nat
    BY <1>6, <2>2, <2>3, <2>8
  <2>4. /\ Len(new) = m + 1 /\ DOMAIN new = 1 .. m + 1 /\ \A i \in 1 .. m : new[i] = chain[i]
        /\ \A i \in 1 .. 1 : new[m + i] = one[i]
    <3>1. /\ Len(new) = Len(chain) + Len(one) /\ DOMAIN new = 1 .. Len(chain) + Len(one)
          /\ \A i \in 1 .. Len(chain) : new[i] = chain[i]
          /\ \A i \in 1 .. Len(one) : new[Len(chain) + i] = one[i]
      <4>1. new = chain \o one
        BY <1>6
      <4>. QED BY <4>1, FramesJoin
    <3>. QED BY <2>7, <3>1
  <2>5. DOMAIN new = 1 .. m + 1 /\ new[m + 1] = last
    BY <2>4, <2>8
  <2>6. \A i \in 1 .. n : i \in 1 .. m /\ n + i \in 1 .. m
    BY <2>3
  <2>. QED BY <2>2, <2>3, <2>4, <2>5, <2>6
<1>8. exit_chain(list) \o <<[do |-> "remove", who |-> e, subtree |-> list]>> = new
  BY <1>2, <1>3, <1>4, <1>6 DEF exit_chain
<1>9. \A i \in 1 .. n : /\ new[i].do = "exit_machine" /\ new[i].who = back[i]
                        /\ new[n + i].do = "exit_seat" /\ new[n + i].who = back[i]
  BY <1>2, <1>3, <1>7
<1>10. new[n + n + 1].do = "remove" /\ new[n + n + 1].who = e /\ new[n + n + 1].subtree = list
  BY <1>5, <1>7
<1>11. IsChain(new, e, list, back, n)
  BY <1>7, <1>8, <1>9, <1>10, Zenon DEF IsChain
<1>. QED BY <1>11

\* A due entity leaves: machines before seats, children before their parent,
\* all of them before the removal.
LEMMA LifeLeave ==
  ASSUME SpawnerInv, LifeInv, despawn_alive
  PROVE  LifeInv'
<1>0. SpawnerTypes /\ StackRight
  BY DEF SpawnerInv
<1>1. /\ todo # <<>> /\ Top.do = "due" /\ life[Top.who] = "alive"
      /\ UNCHANGED clockVars /\ UNCHANGED worldVars /\ UNCHANGED queueVars /\ UNCHANGED hostVars
      /\ todo' = exit_chain(Captured(Top.who))
                   \o <<[do |-> "remove", who |-> Top.who, subtree |-> Captured(Top.who)]>> \o Tail(todo)
  BY DEF despawn_alive, Doing
<1>2. /\ poisoned' = poisoned /\ life' = life /\ parent' = parent /\ commands' = commands
      /\ queued_reaps' = queued_reaps /\ pending' = pending
      /\ seat' = seat /\ machine' = machine /\ noted' = noted /\ told' = told
  BY <1>1 DEF clockVars, worldVars, queueVars, hostVars
<1>3. PICK e \in Entity : e = Top.who
  BY <1>0, <1>1, TopFacts DEF StackRight, FrameRight
<1>4. ParentsAlive
  BY DEF LifeInv
<1>5. PICK list \in Seq(Entity) : list = Captured(e) /\ ToSet(list) = SubtreeOf(e)
  BY <1>0, <1>1, <1>3, <1>4, Backwards
<1>6. PICK n \in Nat \ {0}, back \in Seq(Entity) :
        /\ back = Reverse(list) /\ Len(back) = n /\ back[n] = e
        /\ \A i \in 1 .. n - 1 : back[i] \in Child /\ parent[back[i]] = e
        /\ \A c \in Child : parent[c] = e => \E i \in 1 .. n - 1 : back[i] = c
  <2>1. life[e] = "alive"
    BY <1>1, <1>3
  <2>2. PICK n \in Nat \ {0}, back \in Seq(Entity) :
          /\ back = Reverse(Captured(e)) /\ Len(back) = n /\ back[n] = e
          /\ \A i \in 1 .. n - 1 : back[i] \in Child /\ parent[back[i]] = e
          /\ \A c \in Child : parent[c] = e => \E i \in 1 .. n - 1 : back[i] = c
    BY <1>0, <1>4, <2>1, Backwards
  <2>3. back = Reverse(list)
    BY <1>5, <2>2
  <2>. QED BY <2>2, <2>3
<1>70. PICK new \in Seq(FrameType) : IsChain(new, e, list, back, n)
  <2>1. back = Reverse(list) /\ Len(back) = n /\ n \in Nat
    BY <1>6
  <2>. QED BY <2>1, ChainFrames
<1>7.   /\ new = exit_chain(list) \o <<[do |-> "remove", who |-> e, subtree |-> list]>>
        /\ Len(new) = n + n + 1 /\ DOMAIN new = 1 .. n + n + 1
        /\ \A i \in 1 .. n : /\ new[i].do = "exit_machine" /\ new[i].who = back[i]
                             /\ new[n + i].do = "exit_seat" /\ new[n + i].who = back[i]
        /\ new[n + n + 1].do = "remove" /\ new[n + n + 1].who = e /\ new[n + n + 1].subtree = list
  BY <1>70 DEF IsChain
<1>8. todo' = new \o Tail(todo)
  BY <1>1, <1>3, <1>5, <1>7
<1>9. /\ Replaced(new, Tail(todo)) /\ DOMAIN todo = 1 .. Len(todo)
      /\ \A k \in DOMAIN todo' :
           \/ k \in DOMAIN new /\ todo'[k] = new[k]
           \/ \E l \in 2 .. Len(todo) : k = l - 1 + Len(new) /\ todo'[k] = todo[l]
      /\ \A k \in DOMAIN new : k \in DOMAIN todo' /\ todo'[k] = new[k]
  BY <1>0, <1>1, <1>8, PushedFacts
<1>10. \A i \in DOMAIN new :
         \/ i \in 1 .. n /\ new[i].do = "exit_machine"
         \/ (\E m \in 1 .. n : i = n + m) /\ new[i].do = "exit_seat"
         \/ i = n + n + 1 /\ new[i].do = "remove"
  <2>. SUFFICES ASSUME NEW i \in DOMAIN new, i \notin 1 .. n, i # n + n + 1
                PROVE  (\E m \in 1 .. n : i = n + m) /\ new[i].do = "exit_seat"
    BY <1>7
  <2>1. i \in 1 .. n + n + 1
    BY <1>7
  <2>2. PICK m \in 1 .. n : i = n + m
    <3>1. i - n \in 1 .. n /\ i = n + (i - n)
      BY <2>1
    <3>. QED BY <3>1
  <2>. QED BY <1>7, <2>2
<1>11. \A i \in 1 .. n : /\ i \in DOMAIN todo' /\ todo'[i].do = "exit_machine" /\ todo'[i].who = back[i]
                         /\ n + i \in DOMAIN todo' /\ todo'[n + i].do = "exit_seat" /\ todo'[n + i].who = back[i]
  <2>. SUFFICES ASSUME NEW i \in 1 .. n
                PROVE  /\ i \in DOMAIN todo' /\ todo'[i].do = "exit_machine" /\ todo'[i].who = back[i]
                       /\ n + i \in DOMAIN todo' /\ todo'[n + i].do = "exit_seat" /\ todo'[n + i].who = back[i]
    OBVIOUS
  <2>1. i \in 1 .. n + n + 1 /\ n + i \in 1 .. n + n + 1
    OBVIOUS
  <2>2. i \in DOMAIN new /\ n + i \in DOMAIN new
    BY <1>7, <2>1
  <2>3. i \in DOMAIN todo' /\ n + i \in DOMAIN todo' /\ todo'[i] = new[i] /\ todo'[n + i] = new[n + i]
    BY <1>9, <2>2
  <2>4. new[i].do = "exit_machine" /\ new[i].who = back[i] /\ new[n + i].do = "exit_seat" /\ new[n + i].who = back[i]
    BY <1>7
  <2>. QED BY <2>3, <2>4
<1>12. ASSUME NEW c \in Child, parent[c] = e, NEW k \in {n + n, n + n + 1}
       PROVE  AheadOf(todo', k, "exit_seat", c)
  <2>1. PICK i \in 1 .. n - 1 : back[i] = c
    BY <1>6, <1>12
  <2>2. i \in 1 .. n /\ n + i < k
    OBVIOUS
  <2>. QED BY <1>11, <2>1, <2>2 DEF AheadOf
<1>13. ASSUME NEW m \in 1 .. n PROVE SeatRight(n + m)'
  <2>1. todo'[n + m].who = back[m] /\ todo'[n + m].do = "exit_seat"
    BY <1>11
  <2>2. AheadOf(todo', n + m, "exit_machine", back[m])
    <3>1. m < n + m
      OBVIOUS
    <3>. QED BY <1>11, <3>1 DEF AheadOf
  <2>3. ASSUME NEW c \in Child, parent[c] = back[m] PROVE AheadOf(todo', n + m, "exit_seat", c)
    <3>1. CASE m = n
      BY <1>6, <1>12, <2>3, <3>1
    <3>2. CASE m # n
      <4>1. m \in 1 .. n - 1
        BY <3>2
      <4>2. back[m] \in Child
        BY <1>6, <4>1
      <4>3. parent[c] \in Root \cup {None}
        BY <1>0 DEF SpawnerTypes, Entity
      <4>. QED BY <2>3, <4>2, <4>3, PrefabAssumption
    <3>. QED BY <3>1, <3>2
  <2>. QED BY <1>2, <2>1, <2>2, <2>3 DEF SeatRight
<1>14. RemoveRight(n + n + 1)'
  <2>1. /\ todo'[n + n + 1].do = "remove" /\ todo'[n + n + 1].who = e /\ todo'[n + n + 1].subtree = list
    <3>1. n + n + 1 \in DOMAIN new
      BY <1>7
    <3>. QED BY <1>7, <1>9, <3>1
  <2>2. AheadOf(todo', n + n + 1, "exit_seat", e)
    <3>1. n \in 1 .. n /\ n + n < n + n + 1
      OBVIOUS
    <3>. QED BY <1>6, <1>11, <3>1 DEF AheadOf
  <2>3. SubtreeOf(e)' = SubtreeOf(e)
    BY <1>2 DEF SubtreeOf
  <2>4. \A x \in SubtreeOf(e) : AheadOf(todo', n + n + 1, "exit_seat", x)
    BY <1>12, <2>2 DEF SubtreeOf
  <2>5. life'[e] = "alive" /\ ToSet(todo'[n + n + 1].subtree) = SubtreeOf(e)
    BY <1>1, <1>2, <1>3, <1>5, <2>1
  <2>. QED BY <2>1, <2>3, <2>4, <2>5, Zenon DEF RemoveRight
<1>15. ExitsRight'
  <2>1. ExitsRight
    BY DEF LifeInv
  <2>2. \A i \in DOMAIN new : new[i].do \in {"exit_seat", "remove"} => SeatRight(i)' /\ RemoveRight(i)'
    <3>1. ASSUME NEW i \in DOMAIN new, new[i].do = "exit_seat" PROVE SeatRight(i)' /\ RemoveRight(i)'
      <4>1. PICK m \in 1 .. n : i = n + m
        BY <1>10, <3>1
      <4>2. RemoveRight(i)'
        BY <1>9, <3>1 DEF RemoveRight
      <4>. QED BY <1>13, <4>1, <4>2
    <3>2. ASSUME NEW i \in DOMAIN new, new[i].do = "remove" PROVE SeatRight(i)' /\ RemoveRight(i)'
      <4>1. i = n + n + 1
        BY <1>10, <3>2
      <4>2. SeatRight(i)'
        BY <1>9, <3>2 DEF SeatRight
      <4>. QED BY <1>14, <4>1, <4>2
    <3>. QED BY <3>1, <3>2
  <2>. QED BY <1>1, <1>2, <1>8, <2>1, <2>2, ExitsKept
<1>16. ParentsAlive'
  BY <1>0, <1>2, <1>4, ParentsKept
<1>17. StagesRight'
  BY <1>0, <1>2, StagesKept DEF LifeInv
<1>18. BuildsRight'
  <2>1. BuildsRight
    BY DEF LifeInv
  <2>2. \A i \in DOMAIN new : new[i].do \notin {"build", "enter", "realize", "drain"}
    BY <1>10
  <2>. QED BY <1>1, <1>2, <1>8, <2>1, <2>2, BuildsKept
<1>19. ReapsRight'
  <2>1. ReapsRight
    BY DEF LifeInv
  <2>2. Awaits("flush")' <=> Awaits("flush")
    <3>1. PICK t : Replaced(new, t)
      BY <1>9
    <3>2. Awaits("flush")' <=> (\E k \in DOMAIN new : new[k].do = "flush") \/ AwaitsBehind("flush")
      BY <1>0, <3>1, ReplacedFacts
    <3>3. Awaits("flush") <=> Top.do = "flush" \/ AwaitsBehind("flush")
      BY <1>0, <1>1, TopFacts
    <3>. QED BY <1>1, <1>10, <3>2, <3>3
  <2>3. ASSUME NEW k \in DOMAIN todo', todo'[k].do = "bury" PROVE \E l \in DOMAIN todo : todo'[k] = todo[l]
    <3>1. ~(k \in DOMAIN new /\ todo'[k] = new[k])
      BY <1>10, <2>3
    <3>2. PICK l \in 2 .. Len(todo) : todo'[k] = todo[l]
      BY <1>9, <3>1
    <3>3. l \in DOMAIN todo
      BY <1>9
    <3>. QED BY <3>2, <3>3
  <2>. QED BY <1>2, <2>1, <2>2, <2>3, ReapsKept
<1>. QED BY <1>15, <1>16, <1>17, <1>18, <1>19 DEF LifeInv

\* A removal is queued: of what left, or of what was never built.
LEMMA LifeRemoval ==
  ASSUME SpawnerInv, LifeInv, despawn_pending \/ remove
  PROVE  LifeInv'
<1>0. SpawnerTypes /\ StackRight
  BY DEF SpawnerInv
<1>1. /\ todo # <<>> /\ Top.do \in {"due", "remove"} /\ UNCHANGED clockVars /\ UNCHANGED hostVars
      /\ life' = life /\ parent' = parent /\ pending' = pending /\ todo' = Tail(todo)
      /\ commands' = Append(commands, Despawn(Top.who))
  BY DEF despawn_pending, remove, queue_removal, Doing
<1>2. poisoned' = poisoned /\ seat' = seat /\ machine' = machine /\ noted' = noted /\ told' = told
  BY <1>1 DEF clockVars, hostVars
<1>3. PICK e \in Entity : e = Top.who
  BY <1>0, <1>1, TopFacts DEF StackRight, FrameRight
<1>4. PICK new \in Seq(FrameType) : new = <<>> /\ DOMAIN new = {} /\ todo' = new \o Tail(todo)
  <2>1. Tail(todo) \in Seq(FrameType)
    BY <1>0, <1>1 DEF SpawnerTypes
  <2>2. <<>> \in Seq(FrameType) /\ DOMAIN <<>> = {} /\ todo' = <<>> \o Tail(todo)
    BY <1>1, <2>1
  <2>. QED BY <2>2
<1>5. /\ Replaced(new, Tail(todo)) /\ DOMAIN todo = 1 .. Len(todo) /\ Len(new) = 0
      /\ \A k \in DOMAIN todo' :
           \/ k \in DOMAIN new /\ todo'[k] = new[k]
           \/ \E l \in 2 .. Len(todo) : k = l - 1 + Len(new) /\ todo'[k] = todo[l]
  BY <1>0, <1>1, <1>4, PushedFacts
<1>6. Awaits("flush") /\ Awaits("flush")'
  <2>1. Awaits("flush")
    BY <1>0, <1>1, TopFacts, Stages DEF StackRight, FlushAhead
  <2>2. PICK t : Replaced(new, t)
    BY <1>5
  <2>3. Awaits("flush")' <=> (\E k \in DOMAIN new : new[k].do = "flush") \/ AwaitsBehind("flush")
    BY <1>0, <2>2, ReplacedFacts
  <2>4. Awaits("flush") <=> Top.do = "flush" \/ AwaitsBehind("flush")
    BY <1>0, <1>1, TopFacts
  <2>. QED BY <1>1, <2>1, <2>3, <2>4
<1>7. PICK sub \in Seq(Entity) :
        /\ queued_reaps' = Append(queued_reaps, [ref |-> e, subtree |-> sub])
        /\ Live(e) /\ ToSet(sub) = SubtreeOf(e)
        /\ \A x \in SubtreeOf(e) : life[x] # "free" /\ (~poisoned => seat[x] # "seated")
  <2>1. ParentsAlive /\ StagesRight
    BY DEF LifeInv
  <2>2. CASE despawn_pending
    <3>1. life[e] = "pending" /\ queued_reaps' = Append(queued_reaps, [ref |-> e, subtree |-> <<e>>])
      BY <1>3, <2>2 DEF despawn_pending, queue_removal
    <3>2. SubtreeOf(e) = {e}
      BY <2>1, <3>1, PrefabAssumption DEF SubtreeOf, ParentsAlive, Entity
    <3>3. <<e>> \in Seq(Entity) /\ ToSet(<<e>>) = {e}
      BY DEF ToSet
    <3>4. seat[e] = "none"
      BY <2>1, <3>1 DEF StagesRight
    <3>. QED BY <3>1, <3>2, <3>3, <3>4 DEF Live
  <2>3. CASE remove
    <3>1. Top.do = "remove" /\ queued_reaps' = Append(queued_reaps, [ref |-> e, subtree |-> Top.subtree])
      BY <1>3, <2>3 DEF remove, queue_removal, Doing
    <3>2. PICK sub \in Seq(Entity) : sub = Top.subtree
      BY <1>0, <1>1, TopFacts DEF FrameType
    <3>3. RemoveRight(1) /\ Top = todo[1]
      BY <1>0, <1>1, TopFacts DEF LifeInv, ExitsRight
    <3>4. \A do, x : ~AheadOf(todo, 1, do, x)
      BY <1>5 DEF AheadOf
    <3>5. /\ life[e] = "alive" /\ ToSet(sub) = SubtreeOf(e)
          /\ ~poisoned => \A x \in SubtreeOf(e) : seat[x] # "seated"
      BY <1>3, <3>1, <3>2, <3>3, <3>4 DEF RemoveRight
    <3>6. \A x \in SubtreeOf(e) : life[x] = "alive"
      BY <2>1, <3>5, PrefabAssumption DEF SubtreeOf, ParentsAlive, Entity
    <3>. QED BY <3>1, <3>2, <3>5, <3>6 DEF Live
  <2>. QED BY <2>2, <2>3
<1>8. PICK reap \in Reap : reap = [ref |-> e, subtree |-> sub]
  <2>1. [ref |-> e, subtree |-> sub] \in Reap
    BY DEF Reap
  <2>. QED BY <2>1
<1>9. reap.ref = e /\ reap.subtree = sub
  BY <1>8
<1>10. /\ DOMAIN commands = 1 .. Len(commands) /\ Len(commands) \in Nat /\ DOMAIN commands' = 1 .. Len(commands) + 1
       /\ \A j \in DOMAIN commands : j \in DOMAIN commands' /\ commands'[j] = commands[j]
       /\ commands'[Len(commands) + 1] = Despawn(e) /\ Len(commands) + 1 \in DOMAIN commands'
  <2>1. commands \in Seq(Command) /\ commands' = Append(commands, Despawn(e))
    BY <1>0, <1>1, <1>3 DEF SpawnerTypes
  <2>. QED BY <2>1
<1>11. /\ DOMAIN queued_reaps = 1 .. Len(queued_reaps) /\ Len(queued_reaps) \in Nat
       /\ DOMAIN queued_reaps' = 1 .. Len(queued_reaps) + 1
       /\ \A k \in DOMAIN queued_reaps : /\ k \in DOMAIN queued_reaps' /\ queued_reaps'[k] = queued_reaps[k]
                                         /\ queued_reaps[k] \in Reap
       /\ queued_reaps'[Len(queued_reaps) + 1] = reap /\ Len(queued_reaps) + 1 \in DOMAIN queued_reaps'
  <2>1. queued_reaps \in Seq(Reap) /\ queued_reaps' = Append(queued_reaps, reap)
    BY <1>0, <1>7, <1>8 DEF SpawnerTypes
  <2>. QED BY <2>1
<1>12. ReapsRight'
  <2>0. ReapsRight
    BY DEF LifeInv
  <2>1. ReapRight(reap)'
    <3>1. LeftRight(e, sub)'
      BY <1>1, <1>2, <1>7 DEF LeftRight, SubtreeOf
    <3>2. Live(e)' /\ SubtreeOf(e)' = SubtreeOf(e)
      BY <1>1, <1>7 DEF Live, SubtreeOf
    <3>3. \E j \in DOMAIN commands' : commands'[j] = Despawn(e)
      BY <1>10
    <3>. QED BY <1>6, <1>7, <1>9, <3>1, <3>2, <3>3 DEF ReapRight
  <2>2. ASSUME NEW k \in DOMAIN queued_reaps PROVE ReapRight(queued_reaps[k])'
    <3>1. PICK old \in Reap : old = queued_reaps[k] /\ ReapRight(old)
      BY <1>11, <2>0 DEF ReapsRight
    <3>2. ReapRight(old)'
      BY <1>1, <1>2, <1>6, <1>10, <3>1, ReapStays
    <3>3. queued_reaps'[k] = old
      BY <1>11, <3>1
    <3>. QED BY <3>2, <3>3
  <2>3. ASSUME NEW k \in DOMAIN queued_reaps' PROVE ReapRight(queued_reaps[k])'
    <3>1. k \in DOMAIN queued_reaps \/ k = Len(queued_reaps) + 1
      BY <1>11
    <3>2. CASE k = Len(queued_reaps) + 1
      <4>1. queued_reaps'[k] = reap
        BY <1>11, <3>2
      <4>. QED BY <2>1, <4>1
    <3>. QED BY <2>2, <3>1, <3>2
  <2>4. ASSUME NEW j \in DOMAIN commands', commands'[j].op = "despawn"
        PROVE  \E k \in DOMAIN queued_reaps' : queued_reaps'[k].ref = commands'[j].entity
    <3>1. CASE j \in DOMAIN commands
      <4>1. PICK k \in DOMAIN queued_reaps : queued_reaps[k].ref = commands[j].entity
        BY <1>10, <2>0, <2>4, <3>1 DEF ReapsRight
      <4>. QED BY <1>10, <1>11, <3>1, <4>1
    <3>2. CASE j \notin DOMAIN commands
      <4>1. commands'[j] = Despawn(e)
        BY <1>10, <3>2
      <4>2. commands'[j].entity = e
        BY <4>1 DEF Despawn
      <4>. QED BY <1>9, <1>11, <4>2
    <3>. QED BY <3>1, <3>2
  <2>5. ASSUME NEW k \in DOMAIN todo', todo'[k].do = "bury"
        PROVE  life'[todo'[k].who] = "dead" /\ LeftRight(todo[k].who, todo[k].subtree)'
    <3>1. PICK l \in 2 .. Len(todo) : todo'[k] = todo[l]
      BY <1>4, <1>5
    <3>2. l \in DOMAIN todo
      BY <1>5
    <3>. QED BY <1>1, <1>2, <2>0, <2>5, <3>1, <3>2, BuriesStay
  <2>. QED BY <2>3, <2>4, <2>5 DEF ReapsRight
<1>13. ParentsAlive'
  BY <1>0, <1>1, ParentsKept DEF LifeInv
<1>14. StagesRight'
  BY <1>0, <1>1, <1>2, StagesKept DEF LifeInv
<1>15. BuildsRight'
  BY <1>1, <1>2, <1>4, BuildsKept DEF LifeInv
<1>16. ExitsRight'
  BY <1>1, <1>2, <1>4, ExitsKept DEF LifeInv
<1>. QED BY <1>12, <1>13, <1>14, <1>15, <1>16 DEF LifeInv

\* The flush, in phase 8 and after what was built below it.
LEMMA LifeFlush ==
  ASSUME SpawnerInv, LifeInv, flush_structural \/ (settle /\ Top.subtree # <<>>)
  PROVE  LifeInv'
<1>0. SpawnerTypes /\ StackRight /\ PhaseRight
  BY DEF SpawnerInv
<1>1. /\ todo # <<>> /\ Top.do \in {"flush", "settle"} /\ UNCHANGED clockVars /\ UNCHANGED hostVars
      /\ UNCHANGED queueVars
      /\ life' = Flushed.life /\ parent' = Flushed.parent /\ commands' = <<>> /\ todo' = Tail(todo)
  BY DEF flush_structural, settle, Doing
<1>2. /\ poisoned' = poisoned /\ seat' = seat /\ machine' = machine /\ noted' = noted /\ told' = told
      /\ queued_reaps' = queued_reaps /\ pending' = pending
  BY <1>1 DEF clockVars, hostVars, queueVars
<1>3. PICK new \in Seq(FrameType) : new = <<>> /\ DOMAIN new = {} /\ todo' = new \o Tail(todo)
  <2>1. Tail(todo) \in Seq(FrameType)
    BY <1>0, <1>1 DEF SpawnerTypes
  <2>2. <<>> \in Seq(FrameType) /\ DOMAIN <<>> = {} /\ todo' = <<>> \o Tail(todo)
    BY <1>1, <2>1
  <2>. QED BY <2>2
<1>4. /\ Replaced(new, Tail(todo)) /\ DOMAIN todo = 1 .. Len(todo)
      /\ \A k \in DOMAIN todo' : \E l \in 2 .. Len(todo) : todo'[k] = todo[l]
  <2>1. /\ Replaced(new, Tail(todo)) /\ DOMAIN todo = 1 .. Len(todo)
        /\ \A k \in DOMAIN todo' :
             \/ k \in DOMAIN new /\ todo'[k] = new[k]
             \/ \E l \in 2 .. Len(todo) : k = l - 1 + Len(new) /\ todo'[k] = todo[l]
    BY <1>0, <1>1, <1>3, PushedFacts
  <2>. QED BY <1>3, <2>1
<1>5. \A l \in 2 .. Len(todo) : /\ l \in DOMAIN todo /\ AwaitsBehind(todo[l].do)
                                /\ Stage(Top.do) <= Stage(todo[l].do)
  BY <1>0, <1>1, <1>4, TopFacts DEF AwaitsBehind
<1>6. \A e \in Entity : life'[e] # "pending" /\ Onward(life[e], life'[e])
  BY FlushStep
<1>7. ParentsAlive'
  BY <1>0, <1>1, FlushTree DEF LifeInv, ParentsAlive, Attached
<1>8. StagesRight'
  <2>1. \A e \in Entity : life[e] \in {"free", "pending", "alive", "dead"}
    BY <1>0 DEF SpawnerTypes
  <2>. QED BY <1>2, <1>6, <2>1 DEF LifeInv, StagesRight, Onward
<1>9. BuildsRight'
  BY <1>1, <1>2, <1>3, BuildsKept DEF LifeInv
<1>10. ExitsRight'
  <2>1. Stage(Top.do) \in {2, 7}
    BY <1>1, Stages
  <2>2. \A l \in 2 .. Len(todo) : todo[l].do \notin {"exit_seat", "remove"}
    BY <1>5, <2>1, Stages
  <2>. QED BY <1>4, <2>2, NoExits
<1>11. CASE Top.do = "flush"
  <2>0. ReapsRight
    BY DEF LifeInv
  <2>1. Awaits("flush") /\ ~Awaits("flush")'
    <3>1. ~AwaitsBehind("flush")
      BY <1>0, <1>1, <1>11, Beneath
    <3>2. PICK t : Replaced(new, t)
      BY <1>4
    <3>3. Awaits("flush")' <=> (\E k \in DOMAIN new : new[k].do = "flush") \/ AwaitsBehind("flush")
      BY <1>0, <3>2, ReplacedFacts
    <3>. QED BY <1>0, <1>1, <1>3, <1>11, <3>1, <3>3, TopFacts
  <2>2. \A e \in Entity : /\ life[e] = "dead" => life'[e] = "dead"
                          /\ life[e] # "free" => life'[e] # "free"
                          /\ seat'[e] = "seated" => seat[e] = "seated"
    <3>1. \A e \in Entity : life[e] \in {"free", "pending", "alive", "dead"}
      BY <1>0 DEF SpawnerTypes
    <3>. QED BY <1>2, <1>6, <3>1 DEF Onward
  <2>3. ASSUME NEW k \in DOMAIN queued_reaps PROVE ReapRight(queued_reaps[k])'
    <3>1. PICK reap \in Reap : reap = queued_reaps[k] /\ ReapRight(reap)
      BY <1>0, <2>0 DEF SpawnerTypes, ReapsRight
    <3>2. PICK e \in Entity, sub \in Seq(Entity) : e = reap.ref /\ sub = reap.subtree
      BY DEF Reap
    <3>3. LeftRight(e, sub)'
      <4>1. LeftRight(e, sub)
        BY <3>1, <3>2 DEF ReapRight
      <4>. QED BY <1>2, <2>2, <4>1, LeftKept
    <3>4. life'[e] = "dead"
      <4>1. Flushed.life[queued_reaps[k].ref] = "dead"
        BY <2>1, FlushReaps
      <4>. QED BY <1>1, <3>1, <3>2, <4>1
    <3>5. ReapRight(reap)'
      BY <2>1, <3>2, <3>3, <3>4 DEF ReapRight
    <3>6. queued_reaps'[k] = reap
      BY <1>2, <3>1
    <3>. QED BY <3>5, <3>6
  <2>4. \A k \in DOMAIN queued_reaps' : ReapRight(queued_reaps[k])'
    BY <1>2, <2>3
  <2>5. ASSUME NEW k \in DOMAIN todo', todo'[k].do = "bury"
        PROVE  life'[todo'[k].who] = "dead" /\ LeftRight(todo[k].who, todo[k].subtree)'
    <3>1. \E l \in DOMAIN todo : todo'[k] = todo[l]
      BY <1>4, <1>5
    <3>. QED BY <1>2, <2>0, <2>2, <2>5, <3>1, BuriesStay
  <2>6. \A j \in DOMAIN commands' : FALSE
    BY <1>1
  <2>7. ReapsRight'
    BY <2>4, <2>5, <2>6 DEF ReapsRight
  <2>. QED BY <1>7, <1>8, <1>9, <1>10, <2>7 DEF LifeInv
<1>12. CASE Top.do = "settle"
  <2>1. \A l \in 2 .. Len(todo) : todo[l].do # "bury"
    BY <1>5, <1>12, Stages
  <2>2. queued_reaps = <<>>
    <3>1. ~Awaits("flush") /\ ~Awaits("realize") /\ ~Awaits("drain")
      BY <1>0, <1>1, <1>12, Beneath, TopFacts
    <3>2. phase # "aborted"
      BY <1>0, <1>1 DEF PhaseRight
    <3>. QED BY <1>0, <3>1, <3>2 DEF PhaseRight
  <2>3. \A j \in DOMAIN commands' : FALSE
    BY <1>1
  <2>4. \A k \in DOMAIN todo' : todo'[k].do # "bury"
    BY <1>4, <2>1
  <2>5. ReapsRight'
    BY <1>2, <2>2, <2>3, <2>4, NoReaps
  <2>. QED BY <1>7, <1>8, <1>9, <1>10, <2>5 DEF LifeInv
<1>. QED BY <1>1, <1>11, <1>12

\* Nothing is to be built and nothing to enter, before or after.
LEMMA NoBuilds ==
  ASSUME BuildsRight, ~Awaits("build"), ~Awaits("enter"), ~Awaits("build")', ~Awaits("enter")',
         pending' = pending, seat' = seat, machine' = machine
  PROVE  BuildsRight'
<1>1. (\A e : ~Waiting("enter", e)) /\ (\A e : ~Waiting("build", e)' /\ ~Waiting("enter", e)')
  BY DEF Awaits, Waiting
<1>2. \A j \in DOMAIN todo' : todo'[j].do # "enter"
  BY DEF Awaits
<1>. QED BY <1>1, <1>2 DEF BuildsRight

\* What prepare queued is to be buried.
LEMMA LifeRealize ==
  ASSUME SpawnerInv, LifeInv, realize
  PROVE  LifeInv'
<1> DEFINE buries == [k \in DOMAIN queued_reaps |->
                        [do |-> "bury", who |-> queued_reaps[k].ref, subtree |-> queued_reaps[k].subtree]]
           tail == <<Frame("drain", None)>>
<1>1. /\ todo # <<>> /\ Top.do = "realize" /\ todo' = buries \o tail
      /\ poisoned' = poisoned /\ life' = life /\ parent' = parent /\ commands' = commands
      /\ pending' = pending /\ queued_reaps' = queued_reaps
      /\ seat' = seat /\ machine' = machine /\ noted' = noted /\ told' = told
  BY DEF realize, Doing, clockVars, worldVars, queueVars, hostVars
<1>2. /\ Len(queued_reaps) \in Nat /\ DOMAIN queued_reaps = 1 .. Len(queued_reaps)
      /\ \A k \in DOMAIN queued_reaps : queued_reaps[k].ref \in Entity /\ queued_reaps[k].subtree \in Seq(Entity)
  BY Typed DEF SpawnerInv
<1>3. PICK head : head = buries
  OBVIOUS
<1>4. /\ head \in Seq(FrameType) /\ DOMAIN head = DOMAIN queued_reaps
      /\ \A k \in DOMAIN head : head[k].do = "bury" /\ head[k].who = queued_reaps[k].ref
                                /\ head[k].subtree = queued_reaps[k].subtree
  <2>1. PICK n \in Nat : n = Len(queued_reaps)
    BY <1>2
  <2>2. \A k \in 1 .. n : /\ buries[k] \in FrameType /\ buries[k].do = "bury" /\ buries[k].who = queued_reaps[k].ref
                          /\ buries[k].subtree = queued_reaps[k].subtree
    BY <1>2, <2>1 DEF FrameType, Op
  <2>3. buries \in [1 .. n -> FrameType] /\ DOMAIN buries = 1 .. n
    BY <1>2, <2>1, <2>2
  <2>. HIDE DEF buries
  <2>4. buries \in Seq(FrameType)
    BY <2>3, ListIn
  <2>. QED BY <1>2, <1>3, <2>1, <2>2, <2>3, <2>4
<1>. HIDE DEF buries
<1>5. tail \in Seq(FrameType) /\ DOMAIN tail = {1} /\ tail[1].do = "drain"
  <2>1. Frame("drain", None) \in FrameType /\ Frame("drain", None).do = "drain"
    BY FrameFacts DEF Op
  <2>. QED BY <2>1
<1>6. todo' = head \o tail
  BY <1>1, <1>3
<1>. HIDE DEF tail
<1>7. /\ \A do : Awaits(do)' <=> \/ \E k \in DOMAIN head : head[k].do = do
                                 \/ \E k \in DOMAIN tail : tail[k].do = do
      /\ \A k \in DOMAIN todo' :
           \/ k \in DOMAIN head /\ todo'[k] = head[k]
           \/ k - Len(head) \in DOMAIN tail /\ todo'[k] = tail[k - Len(head)]
  <2>1. head \in Seq(FrameType) /\ tail \in Seq(FrameType) /\ todo' = head \o tail
    BY <1>4, <1>5, <1>6
  <2>2. \A k \in DOMAIN todo' :
          \/ k \in DOMAIN head /\ todo'[k] = head[k]
          \/ k - Len(head) \in DOMAIN tail /\ todo'[k] = tail[k - Len(head)]
    BY <2>1, FreshFrames
  <2>3. \A do : Awaits(do)' <=> \/ \E k \in DOMAIN head : head[k].do = do
                                \/ \E k \in DOMAIN tail : tail[k].do = do
    BY <2>1, FreshWaits
  <2>. QED BY <2>2, <2>3
<1>8. /\ ~Awaits("flush")' /\ ~Awaits("build")' /\ ~Awaits("enter")'
      /\ ~Awaits("flush") /\ ~Awaits("build") /\ ~Awaits("enter")
  <2>1. Awaits("realize") /\ ~Awaits("flush")
    BY RealizeStep
  <2>. QED BY <1>4, <1>5, <1>7, <2>1 DEF LifeInv, BuildsRight
<1>9. ParentsAlive' /\ StagesRight' /\ BuildsRight'
  <2>0. SpawnerTypes /\ ParentsAlive /\ StagesRight /\ BuildsRight
    BY DEF SpawnerInv, LifeInv
  <2>1. ParentsAlive'
    BY <1>1, <2>0, ParentsKept
  <2>2. StagesRight'
    BY <1>1, <2>0, StagesKept
  <2>3. BuildsRight'
    BY <1>1, <1>8, <2>0, NoBuilds
  <2>. QED BY <2>1, <2>2, <2>3
<1>10. ExitsRight'
  <2>1. \A k \in DOMAIN todo' : todo'[k].do \in {"bury", "drain"}
    BY <1>4, <1>5, <1>7
  <2>. QED BY <2>1, NoExits
<1>11. ReapsRight'
  <2>0. ReapsRight
    BY DEF LifeInv
  <2>1. ASSUME NEW k \in DOMAIN queued_reaps
        PROVE  /\ ReapRight(queued_reaps[k])' /\ life'[queued_reaps[k].ref] = "dead"
               /\ LeftRight(queued_reaps[k].ref, queued_reaps[k].subtree)'
    <3>1. PICK reap \in Reap : reap = queued_reaps[k] /\ ReapRight(reap)
      BY <2>0 DEF SpawnerInv, SpawnerTypes, ReapsRight
    <3>2. ReapRight(reap)'
      BY <1>1, <1>8, <3>1, ReapStays
    <3>3. queued_reaps'[k] = reap
      BY <1>1, <3>1
    <3>4. LeftRight(reap.ref, reap.subtree)' /\ life'[reap.ref] = "dead"
      BY <1>8, <3>2 DEF ReapRight
    <3>. QED BY <3>1, <3>2, <3>3, <3>4
  <2>2. \A k \in DOMAIN queued_reaps' : ReapRight(queued_reaps[k])'
    BY <1>1, <2>1
  <2>3. \A j \in DOMAIN commands' : commands'[j].op = "despawn" =>
          \E k \in DOMAIN queued_reaps' : queued_reaps'[k].ref = commands'[j].entity
    BY <1>1, <2>0 DEF ReapsRight
  <2>4. ASSUME NEW k \in DOMAIN todo', todo'[k].do = "bury"
        PROVE  life'[todo'[k].who] = "dead" /\ LeftRight(todo[k].who, todo[k].subtree)'
    <3>1. k \in DOMAIN head /\ todo'[k] = head[k]
      BY <1>5, <1>7, <2>4
    <3>2. /\ k \in DOMAIN queued_reaps /\ todo'[k].who = queued_reaps[k].ref
          /\ todo'[k].subtree = queued_reaps[k].subtree
      BY <1>4, <3>1
    <3>3. PICK e \in Entity, sub \in Seq(Entity) : e = queued_reaps[k].ref /\ sub = queued_reaps[k].subtree
      BY <1>2, <3>2
    <3>4. queued_reaps'[k].ref = e /\ queued_reaps'[k].subtree = sub
      BY <1>1, <3>3
    <3>5. life'[e] = "dead" /\ LeftRight(e, sub)'
      BY <2>1, <3>2, <3>3, <3>4
    <3>. QED BY <3>2, <3>3, <3>5
  <2>. QED BY <2>2, <2>3, <2>4 DEF ReapsRight
<1>. QED BY <1>9, <1>10, <1>11 DEF LifeInv

\* The dead are noted, and what they hosted is released.
LEMMA LifeBury ==
  ASSUME SpawnerInv, LifeInv, bury
  PROVE  LifeInv'
<1>0. SpawnerTypes /\ StackRight /\ ParentsAlive /\ StagesRight /\ BuildsRight /\ ExitsRight /\ ReapsRight
  BY DEF SpawnerInv, LifeInv
<1>1. /\ todo # <<>> /\ Top.do = "bury" /\ machine' = machine /\ poisoned' = poisoned
      /\ UNCHANGED worldVars /\ UNCHANGED queueVars
  BY DEF bury, Doing, clockVars
<1>2. life' = life /\ parent' = parent /\ commands' = commands /\ queued_reaps' = queued_reaps /\ pending' = pending
  BY <1>1 DEF worldVars, queueVars
<1>3. PICK e \in Entity, sub \in Seq(Entity) : e = Top.who /\ sub = Top.subtree
  <2>1. Top \in FrameType /\ Top.who \in Entity
    BY <1>0, <1>1, TopFacts DEF StackRight, FrameRight
  <2>. QED BY <2>1 DEF FrameType
<1>4. life[e] = "dead" /\ LeftRight(e, sub)
  <2>1. 1 \in DOMAIN todo /\ Top = todo[1]
    BY <1>0, <1>1, TopFacts
  <2>. QED BY <1>0, <1>1, <1>3, <2>1 DEF ReapsRight
<1>5. /\ noted' = noted \cup ToSet(sub)
      /\ seat' = [x \in Entity |-> IF x \in ToSet(sub) /\ seat[x] # "none" THEN "released" ELSE seat[x]]
      /\ told' = told \/ told' = told \cup {e}
      /\ todo' = Tail(todo) \/ todo' = <<Frame("despawned_listener", e)>> \o Tail(todo)
  BY <1>3, <1>4 DEF bury
<1>6. \E new \in Seq(FrameType) : todo' = new \o Tail(todo) /\ \A i \in DOMAIN new : new[i].do = "despawned_listener"
  <2>2. CASE todo' = Tail(todo)
    <3>1. Tail(todo) \in Seq(FrameType)
      BY <1>0, <1>1 DEF SpawnerTypes
    <3>2. <<>> \in Seq(FrameType) /\ todo' = <<>> \o Tail(todo) /\ DOMAIN <<>> = {}
      BY <2>2, <3>1
    <3>. QED BY <3>2
  <2>3. CASE todo' = <<Frame("despawned_listener", e)>> \o Tail(todo)
    <3>1. PICK f \in FrameType : f = Frame("despawned_listener", e) /\ f.do = "despawned_listener"
      <4>1. Frame("despawned_listener", e) \in FrameType /\ Frame("despawned_listener", e).do = "despawned_listener"
        BY FrameFacts DEF Op
      <4>. QED BY <4>1
    <3>2. <<f>> \in Seq(FrameType) /\ DOMAIN <<f>> = {1} /\ <<f>>[1] = f
      OBVIOUS
    <3>. QED BY <2>3, <3>1, <3>2
  <2>. QED BY <1>5, <2>2, <2>3
<1>7. PICK new \in Seq(FrameType) : todo' = new \o Tail(todo) /\ \A i \in DOMAIN new : new[i].do = "despawned_listener"
  BY <1>6
<1>8. /\ Replaced(new, Tail(todo))
      /\ DOMAIN todo = 1 .. Len(todo)
      /\ \A k \in DOMAIN todo' :
           \/ k \in DOMAIN new /\ todo'[k] = new[k]
           \/ \E l \in 2 .. Len(todo) : k = l - 1 + Len(new) /\ todo'[k] = todo[l]
  BY <1>0, <1>1, <1>7, PushedFacts
<1>9. \A x \in Entity : /\ seat[x] = "none" <=> seat'[x] = "none"
                        /\ seat'[x] = "seated" => seat[x] = "seated"
                        /\ x \in ToSet(sub) /\ seat[x] # "none" => seat'[x] = "released"
                        /\ seat[x] = "released" => seat'[x] = "released"
  BY <1>5
<1>10. ParentsAlive'
  BY <1>0, <1>2, ParentsKept
<1>11. StagesRight'
  <2>1. \A x \in ToSet(sub) : x = e \/ (x \in Child /\ life[x] # "free")
    BY <1>4 DEF LeftRight
  <2>2. Child \subseteq Entity
    BY DEF Entity
  <2>3. ASSUME NEW x \in Entity
        PROVE  /\ life[x] \in {"free", "pending"} => seat'[x] = "none" /\ x \notin noted' \cup told'
               /\ x \in Child => life[x] # "pending" /\ (life[x] = "alive" => seat'[x] # "none")
               /\ x \in told' => life[x] = "dead"
               /\ x \in noted' /\ life[x] = "alive" => seat'[x] = "released"
    <3>1. /\ life[x] \in {"free", "pending"} => seat[x] = "none" /\ x \notin noted \cup told
          /\ x \in Child => life[x] # "pending" /\ (life[x] = "alive" => seat[x] # "none")
          /\ x \in told => life[x] = "dead"
          /\ x \in noted /\ life[x] = "alive" => seat[x] = "released"
      BY <1>0 DEF StagesRight
    <3>2. x \in ToSet(sub) => life[x] \notin {"free", "pending"} /\ (life[x] = "alive" => seat[x] # "none")
      BY <1>4, <2>1, <3>1
    <3>. QED BY <1>4, <1>5, <1>9, <3>1, <3>2
  <2>. QED BY <1>2, <2>3 DEF StagesRight
<1>12. BuildsRight'
  <2>1. \A i \in DOMAIN new : new[i].do \notin {"build", "enter", "realize", "drain"}
    BY <1>7
  <2>. QED BY <1>0, <1>1, <1>2, <1>7, <1>9, <2>1, BuildsKept
<1>13. ExitsRight'
  <2>1. \A i \in DOMAIN new : new[i].do \in {"exit_seat", "remove"} => SeatRight(i)' /\ RemoveRight(i)'
    BY <1>7
  <2>. QED BY <1>0, <1>1, <1>2, <1>7, <1>9, <2>1, ExitsKept
<1>14. ReapsRight'
  <2>1. Awaits("flush")' <=> Awaits("flush")
    <3>1. PICK t : Replaced(new, t)
      BY <1>8
    <3>2. Awaits("flush")' <=> (\E k \in DOMAIN new : new[k].do = "flush") \/ AwaitsBehind("flush")
      BY <1>0, <3>1, ReplacedFacts
    <3>3. Awaits("flush") <=> Top.do = "flush" \/ AwaitsBehind("flush")
      BY <1>0, <1>1, TopFacts
    <3>. QED BY <1>1, <1>7, <3>2, <3>3
  <2>2. \A k \in DOMAIN todo' : todo'[k].do = "bury" => \E l \in DOMAIN todo : todo'[k] = todo[l]
    BY <1>7, <1>8
  <2>. QED BY <1>0, <1>1, <1>2, <1>9, <2>1, <2>2, ReapsKept
<1>. QED BY <1>10, <1>11, <1>12, <1>13, <1>14 DEF LifeInv

\* What was pending is about to be built.
LEMMA LifeDrain ==
  ASSUME SpawnerInv, LifeInv, drain
  PROVE  LifeInv'
<1>0. SpawnerTypes /\ StackRight /\ ParentsAlive /\ StagesRight /\ BuildsRight
  BY DEF SpawnerInv, LifeInv
<1> DEFINE builds == Each("build", pending)
           tail == <<Frame("settle", None)>>
<1>1. /\ todo # <<>> /\ Top.do = "drain" /\ todo' = builds \o tail
      /\ pending' = <<>> /\ queued_reaps' = <<>> /\ life' = life /\ parent' = parent
      /\ commands' = commands /\ seat' = seat /\ machine' = machine /\ noted' = noted /\ told' = told
  BY DEF drain, Doing, clockVars, worldVars, hostVars
<1>2. pending \in Seq(Root) /\ DOMAIN pending = 1 .. Len(pending)
  BY <1>0, Typed DEF SpawnerTypes
<1>3. PICK head : head = builds
  OBVIOUS
<1>4. /\ head \in Seq(FrameType) /\ DOMAIN head = DOMAIN pending
      /\ \A k \in DOMAIN head : head[k].do = "build" /\ head[k].who = pending[k]
  <2>1. Root \in SUBSET (Entity \cup {None}) /\ "build" \in Op
    BY DEF Op, Entity
  <2>. QED BY <1>2, <1>3, <2>1, EachFrames
<1>. HIDE DEF builds
<1>5. tail \in Seq(FrameType) /\ DOMAIN tail = {1} /\ tail[1].do = "settle"
  <2>1. Frame("settle", None) \in FrameType /\ Frame("settle", None).do = "settle"
    BY FrameFacts DEF Op
  <2>. QED BY <2>1
<1>6. todo' = head \o tail
  BY <1>1, <1>3
<1>. HIDE DEF tail
<1>7. /\ \A do, e : Waiting(do, e)' <=> \/ \E k \in DOMAIN head : head[k].do = do /\ head[k].who = e
                                        \/ \E k \in DOMAIN tail : tail[k].do = do /\ tail[k].who = e
      /\ \A k \in DOMAIN todo' : todo'[k].do \in {"build", "settle"}
  <2>1. head \in Seq(FrameType) /\ tail \in Seq(FrameType) /\ todo' = head \o tail
    BY <1>4, <1>5, <1>6
  <2>2. \A k \in DOMAIN todo' :
          \/ k \in DOMAIN head /\ todo'[k] = head[k]
          \/ k - Len(head) \in DOMAIN tail /\ todo'[k] = tail[k - Len(head)]
    BY <2>1, FreshFrames
  <2>3. \A k \in DOMAIN todo' : todo'[k].do \in {"build", "settle"}
    BY <1>4, <1>5, <2>2
  <2>4. \A do, e : Waiting(do, e)' <=> \/ \E k \in DOMAIN head : head[k].do = do /\ head[k].who = e
                                       \/ \E k \in DOMAIN tail : tail[k].do = do /\ tail[k].who = e
    BY <2>1, FreshWaits
  <2>. QED BY <2>3, <2>4
<1>8. Awaits("drain") /\ ~Awaits("flush") /\ phase = "structural"
  BY DrainStep
<1>9. ~Awaits("enter")
  BY <1>0, <1>8 DEF BuildsRight
<1>10. ParentsAlive' /\ StagesRight'
  <2>1. ParentsAlive'
    BY <1>0, <1>1, ParentsKept
  <2>2. StagesRight'
    BY <1>0, <1>1, StagesKept
  <2>. QED BY <2>1, <2>2
<1>11. BuildsRight'
  <2>1. ASSUME NEW r \in Root, Waiting("build", r)' PROVE seat'[r] = "none"
    <3>1. \E k \in DOMAIN pending : pending[k] = r
      BY <1>4, <1>5, <1>7, <2>1
    <3>. QED BY <1>0, <1>1, <3>1 DEF BuildsRight
  <2>2. \A k \in DOMAIN pending' : FALSE
    BY <1>1
  <2>3. \A e : ~Waiting("enter", e)'
    BY <1>4, <1>5, <1>7
  <2>4. \A e : ~Waiting("enter", e)
    BY <1>9 DEF Awaits, Waiting
  <2>5. \A j \in DOMAIN todo' : todo'[j].do # "enter"
    BY <1>7
  <2>6. ~Awaits("realize")' /\ ~Awaits("drain")'
    BY <1>7 DEF Awaits
  <2>. QED BY <1>0, <1>1, <2>1, <2>2, <2>3, <2>4, <2>5, <2>6 DEF BuildsRight
<1>12. ExitsRight'
  BY <1>7, NoExits
<1>13. ReapsRight'
  <2>1. \A j \in DOMAIN commands' : commands'[j].op # "despawn"
    BY <1>1, <1>8, NoneOverdue
  <2>. QED BY <1>1, <1>7, <2>1, NoReaps
<1>. QED BY <1>10, <1>11, <1>12, <1>13 DEF LifeInv

\* What the build of a root does to its children, and to the others.
LEMMA BuildLives ==
  ASSUME SpawnerInv, LifeInv, NEW r \in Root, NEW world \in Worlds, NEW kids, Builds(r, kids, world)
  PROVE  /\ Attached(world)
         /\ \A e \in Entity : /\ e \in kids => life[e] = "free" /\ life'[e] = "alive" /\ e # r /\ e \in Child
                              /\ e \notin kids => life'[e] = world.life[e]
                              /\ life[e] = "alive" => life'[e] = "alive"
                              /\ life'[e] = "alive" => life[e] \in {"alive", "pending"} \/ e \in kids
                              /\ life'[e] = "pending" => life[e] = "pending"
                              /\ life'[e] = "free" => life[e] = "free"
                              /\ life[e] = "dead" => life'[e] = "dead"
                              /\ life'[e] \in {"free", "pending", "alive", "dead"}
<1>1. Attached(world)
  <2>1. SpawnerTypes /\ ParentsAlive
    BY DEF SpawnerInv, LifeInv
  <2>2. CASE world = Flushed
    BY <2>1, <2>2, FlushTree
  <2>3. CASE world.life = life /\ world.parent = parent
    BY <2>1, <2>3 DEF Attached, ParentsAlive
  <2>. QED BY <2>2, <2>3 DEF Builds
<1>2. \A e \in Entity : /\ life'[e] = IF e \in kids THEN "alive" ELSE world.life[e]
                        /\ world.life[e] \in {"free", "pending", "alive", "dead"}
                        /\ life[e] \in {"free", "pending", "alive", "dead"}
                        /\ Onward(life[e], world.life[e]) /\ (life[e] = "alive" => world.life[e] = "alive")
                        /\ e \in kids => e \in Child /\ e # r /\ life[e] = "free"
                        /\ world.life[e] = "pending" => world.life = life
  BY HostTypes DEF Builds, Worlds
<1>. QED BY <1>1, <1>2 DEF Onward

\* A root gets its seat, its machine and its children.
LEMMA LifeBuild ==
  ASSUME SpawnerInv, LifeInv, build
  PROVE  LifeInv'
<1>0. SpawnerTypes /\ StackRight /\ ParentsAlive /\ StagesRight /\ BuildsRight
  BY DEF SpawnerInv, LifeInv
<1>1. /\ todo # <<>> /\ Top.do = "build" /\ phase' = phase /\ pending' = pending /\ queued_reaps' = queued_reaps
      /\ noted' = noted /\ told' = told
  BY DEF build, Doing, clockVars, queueVars
<1>2. /\ phase = "structural" /\ ~Awaits("flush") /\ ~Awaits("realize") /\ ~Awaits("drain")
      /\ \E r \in Root, world \in Worlds : \E kids : Builds(r, kids, world)
  BY BuildWorld
<1>3. PICK r \in Root, world \in Worlds : \E kids : Builds(r, kids, world)
  BY <1>2
<1>4. PICK kids : Builds(r, kids, world)
  BY <1>3
<1>5. /\ r = Top.who /\ r \in Entity /\ Waiting("build", r) /\ kids = Children(r) /\ life[r] = "alive"
      /\ kids \in SUBSET Child /\ kids \in SUBSET Entity /\ IsFiniteSet(kids) /\ parent' = world.parent
  BY <1>4 DEF Builds
<1>6. /\ Attached(world)
      /\ \A e \in Entity : /\ e \in kids => life[e] = "free" /\ life'[e] = "alive" /\ e # r /\ e \in Child
                           /\ e \notin kids => life'[e] = world.life[e]
                           /\ life[e] = "alive" => life'[e] = "alive"
                           /\ life'[e] = "alive" => life[e] \in {"alive", "pending"} \/ e \in kids
                           /\ life'[e] = "pending" => life[e] = "pending"
                           /\ life'[e] = "free" => life[e] = "free"
                           /\ life[e] = "dead" => life'[e] = "dead"
                           /\ life'[e] \in {"free", "pending", "alive", "dead"}
  BY <1>4, BuildLives
<1>7. /\ seat' = [e \in Entity |-> IF e \in kids \cup {r} THEN "seated" ELSE seat[e]]
      /\ r \in Machined => machine' = [machine EXCEPT ![r] = "seated"]
      /\ r \notin Machined => machine' = machine
  BY <1>5 DEF build
<1>8. PICK new \in Seq(FrameType), t \in Seq(FrameType) :
        /\ Replaced(new, t) /\ DOMAIN new = {1, 2}
        /\ new[1].do = "enter" /\ new[1].who = r /\ new[2].do = "announce"
  BY <1>5, BuildFrames
<1>9. /\ Len(todo) \in Nat \ {0} /\ 1 \in DOMAIN todo /\ DOMAIN todo = 1 .. Len(todo) /\ Top = todo[1]
      /\ \A do, e : Waiting(do, e) <=> (Top.do = do /\ Top.who = e) \/ Behind(do, e)
      /\ \A do : Awaits(do) <=> Top.do = do \/ AwaitsBehind(do)
      /\ \A k \in 2 .. Len(todo) : Fits(Top, todo[k])
  BY <1>0, <1>1, TopFacts
<1>10. /\ \A do, e : Waiting(do, e)' <=> (\E k \in DOMAIN new : new[k].do = do /\ new[k].who = e) \/ Behind(do, e)
       /\ \A do : Awaits(do)' <=> (\E k \in DOMAIN new : new[k].do = do) \/ AwaitsBehind(do)
       /\ \A k \in DOMAIN todo' :
            \/ k \in DOMAIN new /\ todo'[k] = new[k]
            \/ /\ k > Len(new) /\ k - Len(new) + 1 \in 2 .. Len(todo)
               /\ todo'[k].do = todo[k - Len(new) + 1].do /\ todo'[k].who = todo[k - Len(new) + 1].who
  <2>1. SpawnerTypes /\ Replaced(new, t)
    BY <1>0, <1>8
  <2>2. \A do, e : Waiting(do, e)' <=> (\E k \in DOMAIN new : new[k].do = do /\ new[k].who = e) \/ Behind(do, e)
    BY ONLY <2>1, ReplacedFacts
  <2>3. \A do : Awaits(do)' <=> (\E k \in DOMAIN new : new[k].do = do) \/ AwaitsBehind(do)
    BY ONLY <2>1, ReplacedFacts
  <2>4. \A k \in DOMAIN todo' :
          \/ k \in DOMAIN new /\ todo'[k] = new[k]
          \/ /\ k > Len(new) /\ k - Len(new) + 1 \in 2 .. Len(todo)
             /\ todo'[k].do = todo[k - Len(new) + 1].do /\ todo'[k].who = todo[k - Len(new) + 1].who
    BY ONLY <2>1, ReplacedFacts
  <2>. QED BY ONLY <2>2, <2>3, <2>4, Zenon
<1>11. \A l \in 2 .. Len(todo) :
         /\ todo[l].do \notin {"enter", "exit_seat", "remove", "bury", "realize", "drain", "flush"}
         /\ ~(todo[l].do = "build" /\ todo[l].who = r)
  <2>. SUFFICES ASSUME NEW l \in 2 .. Len(todo)
                PROVE  /\ todo[l].do \notin {"enter", "exit_seat", "remove", "bury", "realize", "drain", "flush"}
                       /\ ~(todo[l].do = "build" /\ todo[l].who = r)
    OBVIOUS
  <2>1. Fits(Top, todo[l])
    BY <1>9
  <2>2. Stage(todo[l].do) >= 6
    BY <1>1, <2>1, Stages DEF Fits
  <2>3. todo[l].do # "enter"
    <3>1. l \in DOMAIN todo /\ 1 < l
      BY <1>9
    <3>. QED BY <1>0, <1>1, <1>9, <3>1 DEF BuildsRight
  <2>4. ~(todo[l].do = "build" /\ todo[l].who = r)
    BY <1>1, <1>5, <2>1 DEF Fits
  <2>. QED BY <2>2, <2>3, <2>4, Stages
<1>12. \A k \in DOMAIN todo' : todo'[k].do \notin {"exit_seat", "remove", "bury", "realize", "drain", "flush"}
  BY <1>8, <1>10, <1>11
<1>13. ParentsAlive'
  <2>. SUFFICES ASSUME NEW c \in Entity, parent'[c] # None
                PROVE  c \in Child /\ life'[c] = "alive" /\ life'[parent'[c]] = "alive"
    BY DEF ParentsAlive
  <2>1. c \in Child /\ world.life[c] = "alive" /\ world.life[world.parent[c]] = "alive" /\ parent'[c] = world.parent[c]
    BY <1>5, <1>6 DEF Attached
  <2>2. world.parent[c] \in Entity
    BY <1>5, <2>1 DEF Worlds, Entity
  <2>. QED BY <1>6, <2>1, <2>2
<1>14. StagesRight'
  <2>1. seat[r] = "none"
    BY <1>0, <1>5 DEF BuildsRight
  <2>2. ASSUME NEW x \in Entity
        PROVE  /\ life'[x] \in {"free", "pending"} => seat'[x] = "none" /\ x \notin noted \cup told
               /\ x \in Child => life'[x] # "pending" /\ (life'[x] = "alive" => seat'[x] # "none")
               /\ x \in told => life'[x] = "dead"
               /\ x \in noted /\ life'[x] = "alive" => seat'[x] = "released"
    <3>1. /\ life[x] \in {"free", "pending"} => seat[x] = "none" /\ x \notin noted \cup told
          /\ x \in Child => life[x] # "pending" /\ (life[x] = "alive" => seat[x] # "none")
          /\ x \in told => life[x] = "dead"
          /\ x \in noted /\ life[x] = "alive" => seat[x] = "released"
      BY <1>0 DEF StagesRight
    <3>2. seat'[x] = IF x \in kids \cup {r} THEN "seated" ELSE seat[x]
      BY <1>7
    <3>3. CASE x \in kids
      BY <1>6, <3>1, <3>2, <3>3
    <3>4. CASE x = r
      BY <1>5, <1>6, <2>1, <3>1, <3>2, <3>4
    <3>5. CASE x # r /\ x \notin kids
      BY <1>6, <3>1, <3>2, <3>5
    <3>. QED BY <3>3, <3>4, <3>5
  <2>. QED BY <1>1, <2>2 DEF StagesRight
<1>15. BuildsRight'
  <2>0. Machined \subseteq Root /\ Root \subseteq Entity /\ \A x \in Root : x \notin kids
    BY <1>5, PrefabAssumption DEF Entity
  <2>1. ASSUME NEW x \in Root, Waiting("build", x)' PROVE seat'[x] = "none"
    <3>1. Waiting("build", x) /\ x # r
      BY <1>8, <1>9, <1>10, <1>11, <2>1 DEF Behind
    <3>. QED BY <1>0, <1>7, <2>0, <3>1 DEF BuildsRight
  <2>2. \A k \in DOMAIN pending' : seat'[pending'[k]] = "none"
    <3>1. \A k \in DOMAIN pending : pending[k] # r /\ pending[k] \in Root
      BY <1>0, <1>5, Typed DEF SpawnerInv, BirthsRight
    <3>. QED BY <1>0, <1>1, <1>7, <2>0, <3>1 DEF BuildsRight
  <2>3. ASSUME NEW x \in Machined, Waiting("enter", x)' PROVE machine'[x] = "seated"
    <3>1. x = r
      BY <1>8, <1>10, <1>11, <2>3 DEF Behind
    <3>. QED BY <1>7, <2>0, <2>3, <3>1, HostTypes
  <2>4. ASSUME NEW x \in Machined, seat'[x] = "seated", machine'[x] \notin {"live", "exited"}
        PROVE  Waiting("enter", x)'
    <3>1. CASE x = r
      BY <1>8, <1>10, <3>1
    <3>2. CASE x # r
      <4>1. seat[x] = "seated" /\ machine[x] \notin {"live", "exited"}
        BY <1>7, <2>0, <2>4, <3>2, HostTypes
      <4>2. Waiting("enter", x)
        BY <1>0, <4>1 DEF BuildsRight
      <4>. QED BY <1>1, <1>9, <1>10, <4>2
    <3>. QED BY <3>1, <3>2
  <2>5. ASSUME NEW i \in DOMAIN todo', NEW j \in DOMAIN todo', i < j, todo'[j].do = "enter" PROVE FALSE
    <3>1. j = 1
      BY <1>8, <1>10, <1>11, <2>5
    <3>2. todo' \in Seq(FrameType)
      BY BuildStep DEF SpawnerInv, SpawnerTypes
    <3>. QED BY <2>5, <3>1, <3>2
  <2>6. ~Awaits("realize")' /\ ~Awaits("drain")'
    BY <1>12 DEF Awaits
  <2>. QED BY <2>1, <2>2, <2>3, <2>4, <2>5, <2>6 DEF BuildsRight
<1>16. ExitsRight'
  BY <1>12, NoExits
<1>17. ReapsRight'
  <2>1. queued_reaps = <<>>
    BY <1>2 DEF SpawnerInv, PhaseRight
  <2>2. \A j \in DOMAIN commands' : commands'[j].op # "despawn"
    <3>1. PhaseRight'
      BY BuildStep DEF SpawnerInv
    <3>2. ~Awaits("flush")'
      BY <1>12 DEF Awaits
    <3>. QED BY <1>1, <1>2, <3>1, <3>2 DEF PhaseRight
  <2>. QED BY <1>1, <1>12, <2>1, <2>2, NoReaps
<1>. QED BY <1>13, <1>14, <1>15, <1>16, <1>17 DEF LifeInv

\* The scene stands, seated, and its machines are about to enter.
LEMMA LifeScene ==
  ASSUME SpawnerInv, LifeInv, NEW scene \in SUBSET Root, spawn_scene(scene)
  PROVE  LifeInv'
<1> DEFINE kids == UNION {Children(r) : r \in scene}
<1>1. /\ phase = "boot" /\ todo = <<>>
      /\ life' = [e \in Entity |-> IF e \in scene \cup kids THEN "alive" ELSE "free"]
      /\ parent' = [e \in Entity |-> IF e \in kids THEN ChildOf[e] ELSE None]
      /\ seat' = [e \in Entity |-> IF e \in scene \cup kids THEN "seated" ELSE "none"]
      /\ machine' = [r \in Root |-> IF r \in scene \cap Machined THEN "seated" ELSE "none"]
      /\ commands' = commands /\ pending' = pending /\ queued_reaps' = queued_reaps
      /\ noted' = noted /\ told' = told
  BY DEF spawn_scene, clockVars, queueVars
<1>2. PICK order \in SetToSeqs(scene \cap Machined) :
        todo' = [k \in DOMAIN order |-> Frame("enter", order[k])] \o <<Frame("scene_stands", None)>>
  BY DEF spawn_scene
<1>3. kids \subseteq Child /\ \A c \in Child : c \in kids <=> ChildOf[c] \in scene
  BY DEF Children
<1>4. Untouched
  <2>1. ~Awaits("scene_stands")
    BY <1>1, EmptyStack
  <2>. QED BY <1>1, <2>1 DEF SpawnerInv, PhaseRight
<1>. HIDE DEF kids
<1>0. PICK entering \in SUBSET Root : entering = scene \cap Machined
  OBVIOUS
<1> DEFINE frames == [k \in DOMAIN order |-> Frame("enter", order[k])]
           tail == <<Frame("scene_stands", None)>>
<1>5. IsFiniteSet(entering) /\ Cardinality(entering) \in Nat
  <2>1. IsFiniteSet(Root \cup Child) /\ entering \in SUBSET (Root \cup Child)
    BY PrefabAssumption
  <2>2. IsFiniteSet(entering)
    BY <2>1, FS_Subset
  <2>. QED BY <2>2, FS_CardinalityType
<1>6. PICK n \in Nat : n = Cardinality(entering)
  BY <1>5
<1>7. order \in [1 .. n -> entering] /\ \A i, j \in 1 .. n : order[i] = order[j] => i = j
  BY <1>2, <1>6, <1>0 DEF SetToSeqs
<1>8. \A x \in entering : \E k \in 1 .. n : order[k] = x
  BY <1>5, <1>6, <1>7, OntoSet
<1>9. \A k \in 1 .. n : order[k] \in entering /\ order[k] \in Root /\ order[k] \in Entity
  BY <1>7 DEF Entity
<1>10. PICK head : head = frames
  OBVIOUS
<1>11. /\ head \in Seq(FrameType) /\ DOMAIN head = 1 .. n /\ Len(head) = n
       /\ \A k \in 1 .. n : head[k].do = "enter" /\ head[k].who = order[k]
  <2>1. DOMAIN frames = 1 .. n /\ \A k \in 1 .. n : frames[k] = Frame("enter", order[k])
    BY <1>7
  <2>. HIDE DEF frames
  <2>2. \A k \in 1 .. n : frames[k] \in FrameType /\ frames[k].do = "enter" /\ frames[k].who = order[k]
    <3>1. \A e \in Entity : Frame("enter", e) \in FrameType /\ Frame("enter", e).do = "enter" /\ Frame("enter", e).who = e
      BY FrameFacts DEF Op
    <3>. QED BY <1>9, <2>1, <3>1
  <2>3. frames = [k \in 1 .. n |-> frames[k]]
    BY <1>7 DEF frames
  <2>4. frames \in [1 .. n -> FrameType]
    BY <2>2, <2>3
  <2>5. frames \in Seq(FrameType) /\ Len(frames) = n
    BY <2>4, ListIn
  <2>. QED BY <1>10, <2>1, <2>2, <2>5
<1>12. tail \in Seq(FrameType) /\ DOMAIN tail = {1} /\ tail[1].do = "scene_stands"
  <2>1. Frame("scene_stands", None) \in FrameType /\ Frame("scene_stands", None).do = "scene_stands"
    BY FrameFacts DEF Op
  <2>. QED BY <2>1
<1>13. todo' = head \o tail
  BY <1>2, <1>10
<1>. HIDE DEF frames, tail
<1>14. /\ \A k \in DOMAIN todo' : \/ k \in 1 .. n /\ todo'[k].do = "enter" /\ todo'[k].who = order[k]
                                  \/ todo'[k].do = "scene_stands"
       /\ \A k \in 1 .. n : k \in DOMAIN todo' /\ todo'[k].do = "enter" /\ todo'[k].who = order[k]
  <2>1. head \in Seq(FrameType) /\ tail \in Seq(FrameType) /\ todo' = head \o tail
    BY <1>11, <1>12, <1>13
  <2>2. /\ \A k \in DOMAIN todo' :
             \/ k \in DOMAIN head /\ todo'[k] = head[k]
             \/ k > Len(head) /\ k - Len(head) \in DOMAIN tail /\ todo'[k] = tail[k - Len(head)]
        /\ \A k \in DOMAIN head : k \in DOMAIN todo' /\ todo'[k] = head[k]
    BY <2>1, FreshFrames
  <2>. QED BY <1>11, <1>12, <2>2
<1>15. ParentsAlive'
  BY <1>1, <1>3, PrefabAssumption DEF ParentsAlive, Entity
<1>16. StagesRight'
  <2>1. \A e \in Entity : life[e] = "free"
    BY <1>4 DEF Untouched
  <2>2. \A e \in Entity : e \notin noted \cup told
    BY <2>1 DEF LifeInv, StagesRight
  <2>. QED BY <1>1, <2>2 DEF StagesRight
<1>17. BuildsRight'
  <2>1. \A x : Waiting("enter", x)' <=> \E k \in 1 .. n : order[k] = x
    BY <1>14 DEF Waiting
  <2>2. ~Awaits("build")' /\ ~Awaits("realize")' /\ ~Awaits("drain")' /\ \A x : ~Waiting("build", x)'
    BY <1>14 DEF Awaits, Waiting
  <2>3. \A k \in DOMAIN pending' : FALSE
    BY <1>1, <1>4 DEF Untouched
  <2>4. Machined \subseteq Root /\ Root \subseteq Entity /\ Root \cap Child = {}
    BY PrefabAssumption DEF Entity
  <2>5. \A r \in Machined : Waiting("enter", r)' => machine'[r] = "seated"
    BY <1>1, <1>7, <1>0, <2>1, <2>4
  <2>6. \A r \in Machined : seat'[r] = "seated" => Waiting("enter", r)'
    BY <1>1, <1>3, <1>8, <1>0, <2>1, <2>4
  <2>7. ASSUME NEW i \in DOMAIN todo', NEW j \in DOMAIN todo', i < j, todo'[j].do = "enter"
        PROVE  todo'[i].do # "build" /\ ~(todo'[i].do = "enter" /\ todo'[i].who = todo'[j].who)
    <3>1. j \in 1 .. n /\ todo'[j].who = order[j]
      BY <1>14, <2>7
    <3>2. todo'[i].do # "build"
      BY <1>14
    <3>3. ASSUME todo'[i].do = "enter", todo'[i].who = todo'[j].who PROVE FALSE
      <4>1. i \in 1 .. n /\ order[i] = order[j]
        BY <1>14, <3>1, <3>3
      <4>. QED BY <1>7, <2>7, <3>1, <4>1
    <3>. QED BY <3>2, <3>3
  <2>. QED BY <2>2, <2>3, <2>5, <2>6, <2>7 DEF BuildsRight
<1>18. ExitsRight'
  BY <1>14, NoExits
<1>19. ReapsRight'
  <2>1. queued_reaps' = <<>> /\ \A j \in DOMAIN commands' : FALSE
    BY <1>1, <1>4 DEF Untouched
  <2>. QED BY <1>14, <2>1, NoReaps
<1>. QED BY <1>15, <1>16, <1>17, <1>18, <1>19 DEF LifeInv

\* A tick begins and ends, the scene has entered, phase 8 begins.
LEMMA LifeClock ==
  ASSUME SpawnerInv, LifeInv, scene_stands \/ begin_tick \/ end_tick \/ structural_apply, phase' # "aborted"
  PROVE  LifeInv'
<1>0. SpawnerTypes /\ StackRight /\ ParentsAlive /\ StagesRight /\ BuildsRight
  BY DEF SpawnerInv, LifeInv
<1>1. /\ life' = life /\ parent' = parent /\ commands' = commands /\ poisoned' = poisoned /\ UNCHANGED hostVars
      /\ pending' = pending /\ queued_reaps' = queued_reaps
  BY DEF scene_stands, begin_tick, end_tick, structural_apply, abort, worldVars, queueVars
<1>2. seat' = seat /\ machine' = machine /\ noted' = noted /\ told' = told
  BY <1>1 DEF hostVars
<1>3. CASE begin_tick \/ end_tick
  <2>1. todo' = todo
    BY <1>3 DEF begin_tick, end_tick, abort
  <2>2. \A k \in DOMAIN pending' : seat[pending'[k]] = "none"
    BY <1>0, <1>1 DEF BuildsRight
  <2>. QED BY <1>1, <1>2, <2>1, <2>2, LifeSame
<1>4. CASE scene_stands \/ structural_apply
  <2>1. \A do : Awaits(do)' => do \in {"due", "flush", "realize"}
    <3>1. CASE scene_stands
      <4>1. todo' = <<>>
        BY <3>1 DEF scene_stands
      <4>. QED BY <4>1, EmptyStack
    <3>2. CASE structural_apply
      <4>1. ~poisoned
        BY <3>2 DEF structural_apply, abort
      <4>. QED BY <3>2, <4>1, ApplyStep
    <3>. QED BY <1>4, <3>1, <3>2
  <2>2. ~Awaits("build") /\ ~Awaits("enter") /\ ~Awaits("flush") /\ ~Awaits("realize") /\ ~Awaits("drain")
        /\ phase # "aborted"
    <3>1. CASE scene_stands
      <4>1. todo # <<>> /\ Top.do = "scene_stands"
        BY <3>1 DEF scene_stands, Doing
      <4>2. \A do : AwaitsBehind(do) => 7 <= Stage(do) /\ Stage(do) # 7
        BY <1>0, <4>1, TopFacts, Stages
      <4>3. \A do : Awaits(do) <=> Top.do = do \/ AwaitsBehind(do)
        BY <1>0, <4>1, TopFacts
      <4>4. \A do \in {"build", "enter", "flush", "realize", "drain"} : ~Awaits(do)
        BY <4>1, <4>2, <4>3, Stages
      <4>5. phase # "aborted"
        BY <4>1 DEF SpawnerInv, PhaseRight
      <4>. QED BY <4>4, <4>5
    <3>2. CASE structural_apply
      <4>1. phase = "open" /\ todo = <<>>
        BY <3>2 DEF structural_apply, SpawnerInv, PhaseRight
      <4>. QED BY <4>1, EmptyStack
    <3>. QED BY <1>4, <3>1, <3>2
  <2>3. ParentsAlive' /\ StagesRight' /\ BuildsRight'
    <3>1. ParentsAlive'
      BY <1>0, <1>1, ParentsKept
    <3>2. StagesRight'
      BY <1>0, <1>1, <1>2, StagesKept
    <3>3. BuildsRight'
      BY <1>0, <1>1, <1>2, <2>1, <2>2, NoBuilds
    <3>. QED BY <3>1, <3>2, <3>3
  <2>4. \A k \in DOMAIN todo' : todo'[k].do \in {"due", "flush", "realize"}
    BY <2>1 DEF Awaits
  <2>5. ExitsRight'
    BY <2>4, NoExits
  <2>6. ReapsRight'
    <3>1. queued_reaps = <<>> /\ \A j \in DOMAIN commands : commands[j].op # "despawn"
      BY <2>2 DEF SpawnerInv, PhaseRight
    <3>. QED BY <1>1, <2>4, <3>1, NoReaps
  <2>. QED BY <2>3, <2>5, <2>6 DEF LifeInv
<1>. QED BY <1>3, <1>4

\* A build fails, and with it the list: nothing waits to enter.
LEMMA LifeGiveUp ==
  ASSUME SpawnerInv, LifeInv, refuse_adopted \/ refuse_prefab
  PROVE  LifeInv'
<1>0. SpawnerTypes /\ StackRight /\ ParentsAlive /\ StagesRight /\ BuildsRight
  BY DEF SpawnerInv, LifeInv
<1>1. /\ todo # <<>> /\ Top.do = "build" /\ todo' = <<>>
      /\ life' = life /\ parent' = parent /\ commands' = commands /\ poisoned' = poisoned
      /\ pending' = pending /\ queued_reaps' = queued_reaps
      /\ seat' = seat /\ machine' = machine /\ noted' = noted /\ told' = told
  BY DEF refuse_adopted, refuse_prefab, give_up, Doing, queueVars
<1>2. phase = "structural"
  BY GiveUpStep
<1>3. ~Awaits("flush") /\ ~Awaits("realize") /\ ~Awaits("drain")
  BY <1>0, <1>1, Beneath, TopFacts
<1>4. (\A do : ~Awaits(do)') /\ (\A do, e : ~Waiting(do, e)') /\ DOMAIN todo' = {}
  BY <1>1, EmptyStack
<1>5. \A e : ~Waiting("enter", e)
  <2>. SUFFICES ASSUME NEW j \in DOMAIN todo, todo[j].do = "enter" PROVE FALSE
    BY DEF Waiting
  <2>1. DOMAIN todo = 1 .. Len(todo) /\ 1 \in DOMAIN todo /\ todo[1].do = "build"
    BY <1>0, <1>1, TopFacts
  <2>2. 1 < j
    BY <2>1
  <2>. QED BY <1>0, <2>1, <2>2 DEF BuildsRight
<1>6. ParentsAlive'
  BY <1>0, <1>1, ParentsKept
<1>7. StagesRight'
  BY <1>0, <1>1, StagesKept
<1>8. BuildsRight'
  <2>1. \A r \in Machined : ~(seat[r] = "seated" /\ machine[r] \notin {"live", "exited"})
    BY <1>0, <1>5 DEF BuildsRight
  <2>2. \A k \in DOMAIN pending : seat[pending[k]] = "none"
    BY <1>0 DEF BuildsRight
  <2>. QED BY <1>1, <1>4, <2>1, <2>2 DEF BuildsRight
<1>9. ExitsRight'
  BY <1>4, NoExits
<1>10. ReapsRight'
  <2>1. queued_reaps = <<>> /\ \A j \in DOMAIN commands : commands[j].op # "despawn"
    BY <1>2, <1>3 DEF SpawnerInv, PhaseRight
  <2>. QED BY <1>1, <1>4, <2>1, NoReaps
<1>. QED BY <1>6, <1>7, <1>8, <1>9, <1>10 DEF LifeInv

\* The first state.
LEMMA LifeStart ==
  ASSUME SpawnerInit
  PROVE  LifeInv
<1>1. /\ todo = <<>> /\ commands = <<>> /\ pending = <<>> /\ queued_reaps = <<>>
      /\ life = [e \in Entity |-> "free"] /\ parent = [e \in Entity |-> None]
      /\ seat = [e \in Entity |-> "none"] /\ noted = {} /\ told = {}
  BY DEF SpawnerInit
<1>2. (\A do : ~Awaits(do)) /\ \A do, e : ~Waiting(do, e)
  BY <1>1, EmptyStack
<1>3. DOMAIN todo = {} /\ DOMAIN commands = {} /\ DOMAIN pending = {} /\ DOMAIN queued_reaps = {}
  BY <1>1
<1>4. ParentsAlive /\ StagesRight
  BY <1>1 DEF ParentsAlive, StagesRight
<1>5. Machined \subseteq Entity
  BY PrefabAssumption DEF Entity
<1>6. BuildsRight
  BY <1>1, <1>2, <1>3, <1>5 DEF BuildsRight
<1>7. ExitsRight /\ ReapsRight
  BY <1>3 DEF ExitsRight, ReapsRight
<1>. QED BY <1>4, <1>6, <1>7 DEF LifeInv

\* Whatever is called, refused or run next.
LEMMA LifeStep ==
  ASSUME SpawnerInv, phase # "aborted" => LifeInv, [SpawnerNext]_spawnerVars, phase' # "aborted"
  PROVE  LifeInv'
<1>1. CASE phase = "aborted"
  <2>1. todo = <<>>
    BY <1>1 DEF SpawnerInv, PhaseRight
  <2>2. ~UserRuns /\ \A do : ~Doing(do)
    BY <1>1, <2>1 DEF UserRuns, Doing
  <2>3. phase' = phase
    BY <1>1, <2>1, <2>2 DEF SpawnerNext, Calls, Prepare, Realize, spawn_prefab, despawn, queue_attach, user_returns,
         journal_refuses, spawn_scene, scene_stands, begin_tick, structural_apply, end_tick, drop_stale,
         refuse_despawn, despawn_pending, despawn_alive, exit_machine, despawn_exit, remove, flush_structural,
         realize, bury, drain, drop_unborn, refuse_adopted, refuse_build, refuse_prefab, build, enter, announce,
         settle, spawnerVars, clockVars
  <2>. QED BY <1>1, <2>3
<1>2. CASE LifeInv
  <2>1. CASE Calls \/ journal_refuses
    <3>1. \A c \in Child, p \in Root : c \in Entity /\ p \in Root \cup {None}
      BY DEF Entity
    <3>. QED BY <1>2, <2>1, <3>1, LifeCalls DEF Calls
  <2>2. CASE \/ drop_stale \/ user_returns \/ drop_unborn \/ exit_machine \/ despawn_exit \/ enter \/ announce
             \/ settle /\ Top.subtree = <<>>
    BY <1>2, <2>2, LifeHost
  <2>3. CASE despawn_alive
    BY <1>2, <2>3, LifeLeave
  <2>4. CASE despawn_pending \/ remove
    BY <1>2, <2>4, LifeRemoval
  <2>5. CASE flush_structural \/ (settle /\ Top.subtree # <<>>)
    BY <1>2, <2>5, LifeFlush
  <2>6. CASE realize
    BY <1>2, <2>6, LifeRealize
  <2>7. CASE bury
    BY <1>2, <2>7, LifeBury
  <2>8. CASE drain
    BY <1>2, <2>8, LifeDrain
  <2>9. CASE build
    BY <1>2, <2>9, LifeBuild
  <2>10. ASSUME NEW scene \in SUBSET Root, spawn_scene(scene) PROVE LifeInv'
    BY <1>2, <2>10, LifeScene
  <2>11. CASE scene_stands \/ begin_tick \/ end_tick \/ structural_apply
    BY <1>2, <2>11, LifeClock
  <2>14. CASE refuse_adopted \/ refuse_prefab
    BY <1>2, <2>14, LifeGiveUp
  <2>12. ~refuse_despawn /\ ~refuse_build
    BY DEF refuse_despawn, refuse_build, abort
  <2>13. CASE UNCHANGED spawnerVars
    <3>1. /\ todo' = todo /\ poisoned' = poisoned /\ life' = life /\ parent' = parent /\ commands' = commands
          /\ pending' = pending /\ queued_reaps' = queued_reaps
          /\ seat' = seat /\ machine' = machine /\ noted' = noted /\ told' = told
      BY <2>13 DEF spawnerVars, clockVars, worldVars, queueVars, hostVars
    <3>2. \A k \in DOMAIN pending' : seat[pending'[k]] = "none"
      BY <1>2, <3>1 DEF LifeInv, BuildsRight
    <3>. QED BY <1>2, <3>1, <3>2, LifeSame
  <2>. QED
    BY <2>1, <2>2, <2>3, <2>4, <2>5, <2>6, <2>7, <2>8, <2>9, <2>10, <2>11, <2>12, <2>13, <2>14, Zenon
    DEF SpawnerNext, Prepare, Realize
<1>. QED BY <1>1, <1>2

\* An aborted loop may stop between two steps of a life.
LivesInv == SpawnerInv /\ (phase # "aborted" => LifeInv)

\* What the stack, the queue and the hosts say of the lives, in every reachable
\* state of a loop that was not aborted.
THEOREM LivesRight == SpawnerSpec => []LivesInv
<1>1. SpawnerInit => LivesInv
  BY SpawnerStart, LifeStart DEF LivesInv
<1>2. LivesInv /\ [SpawnerNext]_spawnerVars => LivesInv'
  BY SpawnerStep, LifeStep DEF LivesInv
<1>. QED BY <1>1, <1>2, PTL DEF SpawnerSpec

\* "The live subtree, captured pre-flush: exactly the set the flush's despawn
\* cascade removes" (prepare, prefab_spawn.cpp).
THEOREM EverySubtreeCaptured == SpawnerSpec => CapturedExactly
<1>1. LivesInv /\ [SpawnerNext]_spawnerVars =>
        [flush_structural => Dying \ Moving = Doomed \ Moving]_spawnerVars
  <2>. SUFFICES ASSUME SpawnerInv, phase # "aborted" => LifeInv, flush_structural
                PROVE  Dying \ Moving = Doomed \ Moving
    BY DEF LivesInv
  <2>1. todo # <<>> /\ Top.do = "flush" /\ life' = Flushed.life
    BY DEF flush_structural, Doing
  <2>2. LifeInv
    BY <2>1 DEF SpawnerInv, PhaseRight
  <2>3. Awaits("flush")
    BY <2>1, TopFacts DEF SpawnerInv
  <2>4. \A x \in Entity \ Moving : (Live(x) /\ Flushed.life[x] = "dead") <=> x \in Doomed
    BY <2>2, <2>3, FlushTakes
  <2>5. \A x \in Entity : x \in Dying <=> Live(x) /\ Flushed.life[x] = "dead"
    BY <2>1 DEF Dying, Live
  <2>6. Dying \subseteq Entity
    BY DEF Dying
  <2>7. Doomed \subseteq Entity
    BY Typed DEF SpawnerInv, Doomed, ToSet
  <2>. QED BY <2>4, <2>5, <2>6, <2>7
<1>. QED BY <1>1, LivesRight, PTL DEF SpawnerSpec, CapturedExactly

-----------------------------------------------------------------------------
\* The order of a lifetime.  What the state shows of a life.
StageIs(e) ==
  /\ life[e] = "free" => StageOf(e) = "none"
  /\ life[e] = "pending" => StageOf(e) = "reserved"
  /\ life[e] = "dead" =>
       StageOf(e) = IF e \in told THEN "told" ELSE IF e \in noted THEN "noted" ELSE "gone"
  /\ life[e] = "alive" /\ seat[e] = "none" => StageOf(e) = "up"
  /\ life[e] = "alive" /\ seat[e] \in {"exited", "released"} =>
       StageOf(e) = IF e \in noted THEN "spared" ELSE "left"
  /\ life[e] = "alive" /\ seat[e] = "seated" =>
       StageOf(e) = IF e \in Child \/ e \notin Machined \/ machine[e] = "live" THEN "entered"
                    ELSE IF machine[e] = "exited" THEN "leaving" ELSE "built"

\* The stages, read from the state.
LEMMA StageFacts ==
  ASSUME SpawnerTypes, NEW e \in Entity
  PROVE  StageIs(e)
BY DEF StageIs, StageOf

\* The stages after a step.
LEMMA NextStageFacts ==
  ASSUME SpawnerTypes', NEW e \in Entity
  PROVE  StageIs(e)'
BY DEF StageIs, StageOf

\* The life of e stays at its stage, goes along an edge, or is excused.
StageStep(e) ==
  \/ StageOf(e)' = StageOf(e)
  \/ <<StageOf(e), StageOf(e)'>> \in Lives!Edges(e)
  \/ StageOf(e)' = "gone" /\ (poisoned \/ e \in Moving)
  \/ StageOf(e)' = "spared" /\ poisoned

\* What a step does to the lives, one and all.
StagesInOrder ==
  /\ \A e \in Entity : StageStep(e)
  /\ \A e, c \in Entity : StageOf(e)' = "left" /\ StageOf(e) # "left" /\ parent[c] = e =>
       StageOf(c) \in {"left", "spared"} \/ poisoned
  /\ \A e \in Entity : StageOf(e)' = "spared" /\ StageOf(e) # "spared" =>
       \A j \in DOMAIN commands : commands[j].op # "despawn"


\* Each edge by its two stages.
LEMMA EdgeStep ==
  ASSUME NEW e \in Entity,
         \/ StageOf(e) = "none" /\ StageOf(e)' = "reserved"
         \/ StageOf(e) = "reserved" /\ StageOf(e)' \in {"up", "gone"}
         \/ StageOf(e) \in {"up", "left"} /\ StageOf(e)' = "gone"
         \/ StageOf(e) = "gone" /\ StageOf(e)' \in {"noted", "told"}
         \/ StageOf(e) = "noted" /\ StageOf(e)' = "told"
         \/ StageOf(e) = "left" /\ StageOf(e)' = "spared"
         \/ StageOf(e) = "spared" /\ StageOf(e)' = "noted"
         \/ /\ e \in Machined
            /\ \/ StageOf(e) \in {"none", "up"} /\ StageOf(e)' = "built"
               \/ StageOf(e) = "built" /\ StageOf(e)' = "entered"
               \/ StageOf(e) = "entered" /\ StageOf(e)' = "leaving"
               \/ StageOf(e) = "leaving" /\ StageOf(e)' = "left"
         \/ /\ e \notin Machined
            /\ \/ StageOf(e) \in {"none", "up"} /\ StageOf(e)' = "entered"
               \/ StageOf(e) = "entered" /\ StageOf(e)' = "left"
  PROVE  StageStep(e)
<1>1. PICK a, b : a = StageOf(e) /\ b = StageOf(e)'
  OBVIOUS
<1>2. <<a, b>> \in Lives!Edges(e)
  BY <1>1 DEF Lives!Edges, Lives!Born
<1>. QED BY <1>1, <1>2, Zenon DEF StageStep

\* No life moves on.
LivesStay == life' = life /\ seat' = seat /\ machine' = machine /\ noted' = noted /\ told' = told

\* The lives stay where they are.
LEMMA StagesSame ==
  ASSUME life' = life, seat' = seat, machine' = machine, noted' = noted, told' = told
  PROVE  StagesInOrder
<1>1. \A e : StageOf(e)' = StageOf(e)
  BY DEF StageOf
<1>2. \A e \in Entity : StageStep(e)
  BY <1>1, Zenon DEF StageStep
<1>. QED BY <1>1, <1>2, Zenon DEF StagesInOrder

\* Nobody leaves, and nobody is spared.
LEMMA NobodyLeaves ==
  ASSUME \A e \in Entity : StageStep(e) /\ (StageOf(e)' \in {"left", "spared"} => StageOf(e)' = StageOf(e))
  PROVE  StagesInOrder
BY DEF StagesInOrder

\* A handle is reserved.
LEMMA OrderSpawn ==
  ASSUME SpawnerTypes, SpawnerTypes', NEW r \in Root, spawn_prefab(r)
  PROVE  StagesInOrder
<1>1. /\ r \in Entity /\ life[r] = "free" /\ life' = [life EXCEPT ![r] = "pending"]
      /\ seat' = seat /\ machine' = machine /\ noted' = noted /\ told' = told
  BY DEF spawn_prefab, hostVars, Entity
<1>2. ASSUME NEW e \in Entity
      PROVE  StageStep(e) /\ (StageOf(e)' \in {"left", "spared"} => StageOf(e)' = StageOf(e))
  <2>1. CASE e = r
    <3>1. life'[r] = "pending"
      BY <1>1 DEF SpawnerTypes
    <3>2. StageOf(r) = "none" /\ StageOf(r)' = "reserved"
      BY <1>1, <3>1, StageFacts, NextStageFacts DEF StageIs
    <3>. QED BY <1>1, <2>1, <3>2, EdgeStep
  <2>2. CASE e # r
    <3>1. life'[e] = life[e]
      BY <1>1, <2>2 DEF SpawnerTypes
    <3>2. StageOf(e)' = StageOf(e)
      BY <1>1, <3>1 DEF StageOf
    <3>. QED BY <3>2 DEF StageStep
  <2>. QED BY <2>1, <2>2
<1>. QED BY <1>2, NobodyLeaves

\* The scene stands up, and what has no machine is entered.
LEMMA OrderScene ==
  ASSUME SpawnerInv, SpawnerTypes', NEW scene \in SUBSET Root, spawn_scene(scene)
  PROVE  StagesInOrder
<1> DEFINE kids == UNION {Children(r) : r \in scene}
<1>1. phase = "boot" /\ todo = <<>>
  BY DEF spawn_scene
<1>2. Untouched
  BY <1>1 DEF SpawnerInv, PhaseRight, Awaits
<1>3. /\ life' = [e \in Entity |-> IF e \in scene \cup kids THEN "alive" ELSE "free"]
      /\ seat' = [e \in Entity |-> IF e \in scene \cup kids THEN "seated" ELSE "none"]
      /\ machine' = [r \in Root |-> IF r \in scene \cap Machined THEN "seated" ELSE "none"]
  BY DEF spawn_scene
<1>4. kids \subseteq Child /\ Child \cap Machined = {} /\ Machined \subseteq Root
  BY PrefabAssumption DEF Children
<1>. HIDE DEF kids
<1>5. ASSUME NEW e \in Entity
      PROVE  StageStep(e) /\ (StageOf(e)' \in {"left", "spared"} => StageOf(e)' = StageOf(e))
  <2>1. StageOf(e) = "none"
    BY <1>2, StageFacts DEF Untouched, StageIs, SpawnerInv
  <2>2. CASE e \in scene \cup kids
    <3>1. life'[e] = "alive" /\ seat'[e] = "seated"
      BY <1>3, <2>2
    <3>2. CASE e \in Machined
      <4>1. e \in scene /\ e \in Root /\ e \notin Child
        BY <1>4, <2>2, <3>2
      <4>2. machine'[e] = "seated"
        BY <1>3, <3>2, <4>1
      <4>3. StageOf(e)' = "built"
        BY <3>1, <3>2, <4>1, <4>2, NextStageFacts DEF StageIs
      <4>. QED BY <2>1, <3>2, <4>3, EdgeStep
    <3>3. CASE e \notin Machined
      <4>1. StageOf(e)' = "entered"
        BY <3>1, <3>3, NextStageFacts DEF StageIs
      <4>. QED BY <2>1, <3>3, <4>1, EdgeStep
    <3>. QED BY <3>2, <3>3
  <2>3. CASE e \notin scene \cup kids
    <3>1. life'[e] = "free"
      BY <1>3, <2>3
    <3>2. StageOf(e)' = "none"
      BY <3>1, NextStageFacts DEF StageIs
    <3>. QED BY <2>1, <3>2 DEF StageStep
  <2>. QED BY <2>2, <2>3
<1>. QED BY <1>5, NobodyLeaves

\* A machine enters or exits.
LEMMA OrderMachine ==
  ASSUME SpawnerInv, LifeInv, SpawnerTypes', enter \/ exit_machine
  PROVE  StagesInOrder
<1>1. /\ todo # <<>> /\ Top.do \in {"enter", "exit_machine"}
      /\ life' = life /\ seat' = seat /\ noted' = noted /\ told' = told
      /\ \/ machine' = machine
         \/ Top.do = "enter" /\ Top.who \in Machined /\ machine' = [machine EXCEPT ![Top.who] = "live"]
         \/ /\ Top.do = "exit_machine" /\ Top.who \in Machined /\ machine[Top.who] = "live"
            /\ machine' = [machine EXCEPT ![Top.who] = "exited"]
  BY DEF enter, exit_machine, Doing, worldVars
<1>2. CASE machine' = machine
  BY <1>1, <1>2, StagesSame
<1>3. CASE machine' # machine
  <2>1. PICK r \in Machined : r = Top.who
    BY <1>1, <1>3
  <2>2. r \in Root /\ r \in Entity /\ r \notin Child
    BY PrefabAssumption DEF Entity
  <2>3. \A e \in Entity : e # r /\ e \in Machined => machine'[e] = machine[e]
    <3>1. machine \in [Root -> {"none", "seated", "live", "exited"}] /\ Machined \subseteq Root
      BY HostTypes, PrefabAssumption
    <3>. QED BY <1>1, <2>1, <3>1
  <2>4. \/ machine[r] = "seated" /\ machine'[r] = "live"
        \/ machine[r] = "live" /\ machine'[r] = "exited"
    <3>1. Top.do = "enter" => machine[r] = "seated"
      <4>1. Waiting(Top.do, r)
        BY <1>1, <2>1, TopFacts DEF SpawnerInv
      <4>. QED BY <4>1 DEF LifeInv, BuildsRight
    <3>2. machine \in [Root -> {"none", "seated", "live", "exited"}]
      BY HostTypes
    <3>. QED BY <1>1, <1>3, <2>1, <2>2, <3>1, <3>2
  <2>5. ASSUME NEW e \in Entity
        PROVE  StageStep(e) /\ (StageOf(e)' \in {"left", "spared"} => StageOf(e)' = StageOf(e))
    <3>1. CASE e = r /\ life[r] = "alive" /\ seat[r] = "seated"
      <4>1. \/ StageOf(r) = "built" /\ StageOf(r)' = "entered"
            \/ StageOf(r) = "entered" /\ StageOf(r)' = "leaving"
        BY <1>1, <2>2, <2>4, <3>1, StageFacts, NextStageFacts DEF StageIs, SpawnerInv
      <4>. QED BY <2>2, <3>1, <4>1, EdgeStep
    <3>2. CASE e # r \/ life[r] # "alive" \/ seat[r] # "seated"
      <4>1. StageIs(e) /\ StageIs(e)' /\ SpawnerTypes
        BY StageFacts, NextStageFacts DEF SpawnerInv
      <4>2. /\ life[e] \in {"free", "pending", "alive", "dead"}
            /\ seat[e] \in {"none", "seated", "exited", "released"}
        BY <4>1 DEF SpawnerTypes
      <4>3. StageOf(e)' = StageOf(e)
        BY <1>1, <2>3, <3>2, <4>1, <4>2 DEF StageIs
      <4>. QED BY <4>3 DEF StageStep
    <3>. QED BY <3>1, <3>2
  <2>. QED BY <2>5, NobodyLeaves
<1>. QED BY <1>2, <1>3

\* A seat exits: its entity leaves, after its machine and its children.
LEMMA OrderLeave ==
  ASSUME SpawnerInv, LifeInv, SpawnerTypes', despawn_exit
  PROVE  StagesInOrder
<1>1. /\ todo # <<>> /\ Top.do = "exit_seat"
      /\ life' = life /\ machine' = machine /\ noted' = noted /\ told' = told
      /\ seat' = seat \/ (seat[Top.who] = "seated" /\ ~poisoned /\ seat' = [seat EXCEPT ![Top.who] = "exited"])
  BY DEF despawn_exit, Doing, worldVars
<1>2. CASE seat' = seat
  BY <1>1, <1>2, StagesSame
<1>3. CASE seat[Top.who] = "seated" /\ ~poisoned /\ seat' = [seat EXCEPT ![Top.who] = "exited"]
  <2>1. SpawnerTypes /\ StackRight /\ SeatRight(1)
    <3>1. 1 \in DOMAIN todo
      BY <1>1, TopFacts DEF SpawnerInv
    <3>. QED BY <3>1 DEF SpawnerInv, LifeInv, ExitsRight
  <2>2. 1 \in DOMAIN todo /\ Top = todo[1] /\ DOMAIN todo = 1 .. Len(todo) /\ Len(todo) \in Nat
    BY <1>1, <2>1, TopFacts
  <2>3. PICK r \in Entity : r = Top.who
    BY <1>1, <2>1, <2>2 DEF StackRight, FrameRight
  <2>4. \A do, e : ~AheadOf(todo, 1, do, e)
    BY <2>2 DEF AheadOf
  <2>5. /\ r \in Machined => machine[r] = "exited"
        /\ \A c \in Child : parent[c] = r => seat[c] # "seated"
    BY <1>1, <1>3, <2>1, <2>2, <2>3, <2>4 DEF SeatRight
  <2>6. \A e \in Entity : seat'[e] = IF e = r THEN "exited" ELSE seat[e]
    BY <1>3, <2>3, HostTypes
  <2>7. \A e \in Entity : /\ StageIs(e) /\ StageIs(e)'
                          /\ life[e] \in {"free", "pending", "alive", "dead"}
                          /\ seat[e] \in {"none", "seated", "exited", "released"}
    BY <2>1, StageFacts, NextStageFacts, HostTypes
  <2>8. ASSUME NEW e \in Entity, e # r \/ life[e] # "alive" PROVE StageOf(e)' = StageOf(e)
    BY <1>1, <2>6, <2>7, <2>8 DEF StageIs
  <2>9. CASE life[r] # "alive"
    <3>1. \A e \in Entity : StageOf(e)' = StageOf(e)
      BY <2>8, <2>9
    <3>2. \A e \in Entity : StageStep(e)
      BY <3>1 DEF StageStep
    <3>. QED BY <3>1, <3>2 DEF StagesInOrder
  <2>10. CASE life[r] = "alive"
    <3>1. r \notin noted
      BY <1>3, <2>3, <2>10 DEF LifeInv, StagesRight
    <3>2. StageOf(r)' = "left"
      BY <1>1, <2>6, <2>7, <2>10, <3>1 DEF StageIs
    <3>3. StageOf(r) = IF r \in Machined THEN "leaving" ELSE "entered"
      <4>1. Child \cap Machined = {}
        BY PrefabAssumption
      <4>. QED BY <1>3, <2>3, <2>5, <2>7, <2>10, <4>1 DEF StageIs
    <3>4. StageStep(r)
      BY <3>2, <3>3, EdgeStep
    <3>5. \A e \in Entity : e # r => StageOf(e)' = StageOf(e) /\ StageStep(e)
      BY <2>8 DEF StageStep
    <3>6. ASSUME NEW c \in Entity, parent[c] = r PROVE StageOf(c) \in {"left", "spared"}
      <4>1. c \in Child /\ life[c] = "alive"
        BY <3>6, PrefabAssumption DEF LifeInv, ParentsAlive, Entity
      <4>2. seat[c] \in {"exited", "released"}
        BY <2>5, <2>7, <3>6, <4>1 DEF LifeInv, StagesRight
      <4>. QED BY <2>7, <4>1, <4>2 DEF StageIs
    <3>. QED BY <3>2, <3>4, <3>5, <3>6 DEF StagesInOrder
  <2>. QED BY <2>9, <2>10
<1>. QED BY <1>1, <1>2, <1>3

\* A burial notes what left; what it notes alive is spared, once no removal is
\* queued.
LEMMA OrderBury ==
  ASSUME SpawnerInv, LifeInv, SpawnerTypes', bury
  PROVE  StagesInOrder
<1>1. todo # <<>> /\ Top.do = "bury" /\ machine' = machine /\ life' = life /\ parent' = parent
  BY DEF bury, Doing, worldVars
<1>2. PICK r \in Entity, sub \in Seq(Entity) : r = Top.who /\ sub = Top.subtree
  <2>1. Top \in FrameType /\ Top.who \in Entity
    BY <1>1, TopFacts DEF SpawnerInv, StackRight, FrameRight
  <2>. QED BY <2>1 DEF FrameType
<1>3. life[r] = "dead" /\ LeftRight(r, sub)
  <2>1. 1 \in DOMAIN todo /\ Top = todo[1]
    BY <1>1, TopFacts DEF SpawnerInv
  <2>. QED BY <1>1, <1>2, <2>1 DEF LifeInv, ReapsRight
<1>4. /\ noted' = noted \cup ToSet(sub)
      /\ seat' = [x \in Entity |-> IF x \in ToSet(sub) /\ seat[x] # "none" THEN "released" ELSE seat[x]]
      /\ told' = told \/ told' = told \cup {r}
  BY <1>2, <1>3 DEF bury
<1>5. \A e \in Entity : /\ StageIs(e) /\ StageIs(e)'
                        /\ life[e] \in {"free", "pending", "alive", "dead"}
                        /\ seat[e] \in {"none", "seated", "exited", "released"}
                        /\ e \in told => life[e] = "dead"
  BY StageFacts, NextStageFacts, HostTypes DEF SpawnerInv, LifeInv, StagesRight
<1>6. \A j \in DOMAIN commands : commands[j].op # "despawn"
  <2>1. ~Awaits("flush") /\ phase # "aborted"
    BY <1>1, TopFacts, Stages DEF SpawnerInv, PhaseRight
  <2>. QED BY <2>1 DEF SpawnerInv, PhaseRight
<1>7. ASSUME NEW e \in Entity
      PROVE  StageStep(e) /\ (StageOf(e)' = "left" => StageOf(e) = "left")
  <2>1. CASE life[e] \in {"free", "pending"}
    <3>1. StageOf(e)' = StageOf(e) /\ StageOf(e) # "left"
      BY <1>1, <1>5, <2>1 DEF StageIs
    <3>. QED BY <3>1 DEF StageStep
  <2>2. CASE life[e] = "dead"
    <3>1. /\ StageOf(e) = IF e \in told THEN "told" ELSE IF e \in noted THEN "noted" ELSE "gone"
          /\ StageOf(e)' = IF e \in told' THEN "told" ELSE IF e \in noted' THEN "noted" ELSE "gone"
      BY <1>1, <1>5, <2>2 DEF StageIs
    <3>2. \/ StageOf(e)' = StageOf(e)
          \/ StageOf(e) = "gone" /\ StageOf(e)' \in {"noted", "told"}
          \/ StageOf(e) = "noted" /\ StageOf(e)' = "told"
      BY <1>4, <3>1
    <3>3. StageStep(e)
      BY <3>2, EdgeStep DEF StageStep
    <3>. QED BY <3>1, <3>3
  <2>3. CASE life[e] = "alive" /\ e \notin ToSet(sub)
    <3>1. seat'[e] = seat[e] /\ (e \in noted' <=> e \in noted)
      BY <1>4, <2>3
    <3>2. StageOf(e)' = StageOf(e)
      BY <1>1, <1>5, <2>3, <3>1 DEF StageIs
    <3>. QED BY <3>2 DEF StageStep
  <2>4. CASE life[e] = "alive" /\ e \in ToSet(sub)
    <3>1. e \in Child /\ (~poisoned => seat[e] # "seated")
      BY <1>3, <2>4 DEF LeftRight
    <3>2. seat[e] # "none"
      BY <2>4, <3>1 DEF LifeInv, StagesRight
    <3>3. seat'[e] = "released" /\ e \in noted'
      BY <1>4, <2>4, <3>2
    <3>4. StageOf(e)' = "spared"
      BY <1>1, <1>5, <2>4, <3>3 DEF StageIs
    <3>5. CASE seat[e] = "seated"
      BY <3>1, <3>4, <3>5 DEF StageStep
    <3>6. CASE seat[e] # "seated"
      <4>1. StageOf(e) \in {"left", "spared"}
        BY <1>5, <2>4, <3>2, <3>6 DEF StageIs
      <4>2. StageStep(e)
        <5>1. CASE StageOf(e) = "left"
          BY <3>4, <5>1, EdgeStep
        <5>2. CASE StageOf(e) = "spared"
          BY <3>4, <5>2 DEF StageStep
        <5>. QED BY <4>1, <5>1, <5>2
      <4>. QED BY <3>4, <4>2
    <3>. QED BY <3>4, <3>5, <3>6
  <2>. QED BY <1>5, <2>1, <2>2, <2>3, <2>4
<1>. QED BY <1>6, <1>7 DEF StagesInOrder

\* A life that a flush ends has left, or is excused; a flush without removals
\* ends none.
LEMMA FlushEnds ==
  ASSUME SpawnerInv, LifeInv, phase # "aborted", NEW e \in Entity, life[e] = "alive", Flushed.life[e] = "dead"
  PROVE  seat[e] # "seated" \/ poisoned \/ e \in Moving
<1>1. CASE Awaits("flush") /\ e \notin Moving
  <2>1. e \in Doomed
    BY <1>1, FlushTakes DEF Live
  <2>2. PICK k \in DOMAIN queued_reaps : e \in ToSet(queued_reaps[k].subtree)
    BY <2>1 DEF Doomed
  <2>3. LeftRight(queued_reaps[k].ref, queued_reaps[k].subtree)
    BY DEF LifeInv, ReapsRight, ReapRight
  <2>. QED BY <2>2, <2>3 DEF LeftRight
<1>2. CASE ~Awaits("flush")
  <2>1. \A j \in DOMAIN commands : commands[j].op # "despawn"
    BY <1>2 DEF SpawnerInv, PhaseRight
  <2>2. Flushed.life[e] = "alive"
    BY <2>1, FlushFacts DEF SpawnerInv
  <2>. QED BY <2>2
<1>. QED BY <1>1, <1>2

\* What a flush makes of one life.
LEMMA FlushedStage ==
  ASSUME SpawnerInv, LifeInv, SpawnerTypes', phase # "aborted", NEW e \in Entity,
         life'[e] \in {life[e], Flushed.life[e]}, seat'[e] = seat[e], e \in Machined => machine'[e] = machine[e],
         noted' = noted, told' = told
  PROVE  StageStep(e) /\ (StageOf(e)' \in {"left", "spared"} => StageOf(e)' = StageOf(e))
<1>1. /\ StageIs(e) /\ StageIs(e)'
      /\ life[e] \in {"free", "pending", "alive", "dead"} /\ life'[e] \in {"free", "pending", "alive", "dead"}
      /\ seat[e] \in {"none", "seated", "exited", "released"}
      /\ Onward(life[e], life'[e])
  <2>1. SpawnerTypes
    BY DEF SpawnerInv
  <2>2. Onward(life[e], Flushed.life[e]) /\ Onward(life[e], life[e])
    BY <2>1, FlushFacts DEF Onward, SpawnerTypes
  <2>3. life'[e] \in {"free", "pending", "alive", "dead"}
    BY DEF SpawnerTypes
  <2>. QED BY <2>1, <2>2, <2>3, StageFacts, NextStageFacts, HostTypes
<1>2. CASE life'[e] = life[e]
  <2>1. StageOf(e)' = StageOf(e)
    BY <1>1, <1>2 DEF StageIs
  <2>. QED BY <2>1 DEF StageStep
<1>3. CASE life[e] = "pending" /\ life'[e] # "pending"
  <2>1. life'[e] \in {"alive", "dead"} /\ seat[e] = "none" /\ e \notin noted \cup told
    BY <1>1, <1>3 DEF Onward, LifeInv, StagesRight
  <2>2. StageOf(e) = "reserved" /\ StageOf(e)' \in {"up", "gone"}
    BY <1>1, <1>3, <2>1 DEF StageIs
  <2>3. StageStep(e)
    BY <2>2, EdgeStep
  <2>. QED BY <2>2, <2>3
<1>4. CASE life[e] = "alive" /\ life'[e] = "dead"
  <2>1. e \notin told /\ (e \in noted => seat[e] = "released")
    BY <1>4 DEF LifeInv, StagesRight
  <2>2. seat[e] # "seated" \/ poisoned \/ e \in Moving
    BY <1>4, FlushEnds
  <2>3. StageOf(e)' = IF e \in noted THEN "noted" ELSE "gone"
    BY <1>1, <1>4, <2>1 DEF StageIs
  <2>4. StageStep(e)
    <3>1. CASE e \in noted
      <4>1. StageOf(e) = "spared" /\ StageOf(e)' = "noted"
        BY <1>1, <1>4, <2>1, <2>3, <3>1 DEF StageIs
      <4>. QED BY <4>1, EdgeStep
    <3>2. CASE e \notin noted /\ seat[e] # "seated"
      <4>1. StageOf(e) \in {"up", "left"} /\ StageOf(e)' = "gone"
        BY <1>1, <1>4, <2>3, <3>2 DEF StageIs
      <4>. QED BY <4>1, EdgeStep
    <3>3. CASE e \notin noted /\ seat[e] = "seated"
      BY <2>2, <2>3, <3>3 DEF StageStep
    <3>. QED BY <3>1, <3>2, <3>3
  <2>. QED BY <2>3, <2>4
<1>. QED BY <1>1, <1>2, <1>3, <1>4 DEF Onward

\* The flushes of phase 8.
LEMMA OrderFlush ==
  ASSUME SpawnerInv, LifeInv, SpawnerTypes', flush_structural \/ settle
  PROVE  StagesInOrder
<1>1. /\ todo # <<>> /\ seat' = seat /\ machine' = machine /\ noted' = noted /\ told' = told
      /\ life' = life \/ life' = Flushed.life
  BY DEF flush_structural, settle, Doing, worldVars, hostVars
<1>2. phase # "aborted"
  BY <1>1 DEF SpawnerInv, PhaseRight
<1>3. \A e \in Entity : StageStep(e) /\ (StageOf(e)' \in {"left", "spared"} => StageOf(e)' = StageOf(e))
  BY <1>1, <1>2, FlushedStage
<1>. QED BY <1>3, NobodyLeaves

\* A root that is up is built, with its children.
LEMMA OrderBuild ==
  ASSUME SpawnerInv, LifeInv, SpawnerTypes', build
  PROVE  StagesInOrder
<1>1. todo # <<>> /\ noted' = noted /\ told' = told
  BY DEF build, Doing
<1>2. /\ phase = "structural" /\ \E r \in Root, world \in Worlds : \E kids : Builds(r, kids, world)
  BY BuildWorld
<1>3. PICK r \in Root, world \in Worlds : \E kids : Builds(r, kids, world)
  BY <1>2
<1>4. PICK kids : Builds(r, kids, world)
  BY <1>3
<1>5. /\ r = Top.who /\ r \in Entity /\ Waiting("build", r) /\ kids = Children(r) /\ life[r] = "alive"
      /\ kids \in SUBSET Child /\ kids \in SUBSET Entity /\ r \notin kids
      /\ world = Flushed \/ world.life = life
  BY <1>4 DEF Builds
<1>6. \A e \in Entity : /\ e \in kids => life[e] = "free" /\ life'[e] = "alive" /\ e \in Child
                        /\ e \notin kids => life'[e] = world.life[e]
                        /\ life[e] = "alive" => life'[e] = "alive"
  BY <1>4, BuildLives
<1>7. /\ seat' = [e \in Entity |-> IF e \in kids \cup {r} THEN "seated" ELSE seat[e]]
      /\ r \in Machined => machine' = [machine EXCEPT ![r] = "seated"]
      /\ r \notin Machined => machine' = machine
  BY <1>5 DEF build
<1>8. /\ \A e \in Machined : machine'[e] = IF e = r THEN "seated" ELSE machine[e]
      /\ Child \cap Machined = {} /\ Root \cap Child = {}
  <2>1. machine \in [Root -> {"none", "seated", "live", "exited"}] /\ Machined \subseteq Root
    BY HostTypes, PrefabAssumption
  <2>2. Child \cap Machined = {} /\ Root \cap Child = {}
    BY PrefabAssumption
  <2>. QED BY <1>7, <2>1, <2>2
<1>9. \A e \in Entity : StageIs(e) /\ StageIs(e)'
  BY StageFacts, NextStageFacts DEF SpawnerInv
<1>10. ASSUME NEW e \in Entity
       PROVE  StageStep(e) /\ (StageOf(e)' \in {"left", "spared"} => StageOf(e)' = StageOf(e))
  <2>1. CASE e \in kids
    <3>1. e \notin Machined /\ e \in Child /\ life[e] = "free" /\ life'[e] = "alive" /\ seat'[e] = "seated"
      BY <1>6, <1>7, <1>8, <2>1
    <3>2. StageOf(e) = "none" /\ StageOf(e)' = "entered"
      BY <1>9, <3>1 DEF StageIs
    <3>3. StageStep(e)
      BY <3>1, <3>2, EdgeStep
    <3>. QED BY <3>2, <3>3
  <2>2. CASE e = r
    <3>1. seat[r] = "none" /\ seat'[r] = "seated" /\ life'[r] = "alive" /\ r \notin Child
      BY <1>5, <1>6, <1>7, <1>8 DEF LifeInv, BuildsRight
    <3>2. StageOf(r) = "up" /\ StageOf(r)' = IF r \in Machined THEN "built" ELSE "entered"
      BY <1>5, <1>8, <1>9, <3>1 DEF StageIs
    <3>3. StageStep(r)
      BY <1>5, <3>2, EdgeStep
    <3>. QED BY <2>2, <3>2, <3>3
  <2>3. CASE e \notin kids /\ e # r
    <3>1. life'[e] \in {life[e], Flushed.life[e]} /\ seat'[e] = seat[e]
      BY <1>5, <1>6, <1>7, <2>3
    <3>2. e \in Machined => machine'[e] = machine[e]
      BY <1>8, <2>3
    <3>. QED BY <1>1, <1>2, <3>1, <3>2, FlushedStage
  <2>. QED BY <2>1, <2>2, <2>3
<1>. QED BY <1>10, NobodyLeaves

\* Every step.
LEMMA OrderStep ==
  ASSUME SpawnerInv, SpawnerTypes', phase # "aborted" => LifeInv, [SpawnerNext]_spawnerVars
  PROVE  StagesInOrder
<1>1. CASE phase = "aborted"
  <2>1. todo = <<>>
    BY <1>1 DEF SpawnerInv, PhaseRight
  <2>2. ~UserRuns /\ \A do : ~Doing(do)
    BY <1>1, <2>1 DEF UserRuns, Doing
  <2>3. LivesStay
    BY <1>1, <2>1, <2>2 DEF SpawnerNext, Calls, Prepare, Realize, spawn_prefab, despawn, queue_attach, user_returns,
         journal_refuses, spawn_scene, scene_stands, begin_tick, structural_apply, end_tick, drop_stale,
         refuse_despawn, despawn_pending, despawn_alive, exit_machine, despawn_exit, remove, flush_structural,
         realize, bury, drain, drop_unborn, refuse_adopted, refuse_build, refuse_prefab, build, enter, announce,
         settle, spawnerVars, worldVars, hostVars, LivesStay
  <2>. QED BY <2>3, StagesSame DEF LivesStay
<1>2. CASE LifeInv
  <2>0. SpawnerTypes
    BY DEF SpawnerInv
  <2>1. CASE \/ user_returns \/ journal_refuses \/ scene_stands \/ begin_tick \/ structural_apply \/ end_tick
    <3>1. LivesStay
      BY <2>1 DEF user_returns, journal_refuses, scene_stands, begin_tick, structural_apply, end_tick, abort, worldVars,
           hostVars, LivesStay
    <3>. QED BY <3>1, StagesSame DEF LivesStay
  <2>2. CASE \/ drop_stale \/ refuse_despawn \/ despawn_pending \/ despawn_alive \/ remove
             \/ realize \/ drain \/ drop_unborn
             \/ refuse_adopted \/ refuse_build \/ refuse_prefab \/ announce
    <3>1. LivesStay
      BY <2>2 DEF drop_stale, refuse_despawn, despawn_pending, despawn_alive, remove, queue_removal, realize, drain,
           drop_unborn, refuse_adopted, refuse_build, refuse_prefab, announce, abort, give_up, worldVars, hostVars, LivesStay
    <3>. QED BY <3>1, StagesSame DEF LivesStay
  <2>3. ASSUME NEW e \in Entity, NEW delay \in 0 .. MaxDelay, despawn(e, delay) PROVE StagesInOrder
    <3>1. LivesStay
      BY <2>3 DEF despawn, worldVars, hostVars, LivesStay
    <3>. QED BY <3>1, StagesSame DEF LivesStay
  <2>4. ASSUME NEW e, NEW p, queue_attach(e, p) PROVE StagesInOrder
    <3>1. LivesStay
      BY <2>4 DEF queue_attach, LivesStay
    <3>. QED BY <3>1, StagesSame DEF LivesStay
  <2>5. ASSUME NEW r \in Root, spawn_prefab(r) PROVE StagesInOrder
    BY <2>0, <2>5, OrderSpawn
  <2>6. ASSUME NEW scene \in SUBSET Root, spawn_scene(scene) PROVE StagesInOrder
    BY <2>6, OrderScene
  <2>7. CASE enter \/ exit_machine
    BY <1>2, <2>7, OrderMachine
  <2>8. CASE despawn_exit
    BY <1>2, <2>8, OrderLeave
  <2>9. CASE bury
    BY <1>2, <2>9, OrderBury
  <2>10. CASE flush_structural \/ settle
    BY <1>2, <2>10, OrderFlush
  <2>11. CASE build
    BY <1>2, <2>11, OrderBuild
  <2>12. CASE UNCHANGED spawnerVars
    <3>1. LivesStay
      BY <2>12 DEF spawnerVars, worldVars, hostVars, LivesStay
    <3>. QED BY <3>1, StagesSame DEF LivesStay
  <2>. QED BY <2>1, <2>2, <2>3, <2>4, <2>5, <2>6, <2>7, <2>8, <2>9, <2>10, <2>11, <2>12, Zenon
    DEF SpawnerNext, Calls, Prepare, Realize
<1>. QED BY <1>1, <1>2

\* Whatever hooks request while others run, every entity lives through its
\* stages in order and once: the spawner implements what prefab_spawn.h
\* promises of a lifetime, exit hooks before the removal, children out before
\* their parent, the event last.
THEOREM LifetimesKept == SpawnerSpec => LifetimesInOrder
<1> DEFINE st == [e \in Entity |-> StageOf(e)]
           gone == {commands[k].entity : k \in {j \in DOMAIN commands : commands[j].op = "despawn"}}
<1>1. SpawnerInit => Lives!Init
  <2>. SUFFICES ASSUME SpawnerInit PROVE Lives!Init
    OBVIOUS
  <2>1. DOMAIN commands = {}
    BY DEF SpawnerInit
  <2>2. \A e \in Entity : StageOf(e) = "none"
    BY SpawnerStart, StageFacts DEF SpawnerInit, SpawnerInv, StageIs
  <2>3. st = [e \in Entity |-> "none"]
    BY <2>2
  <2>4. Moving = {} /\ gone = {} /\ poisoned = FALSE
    BY <2>1 DEF Moving, SpawnerInit
  <2>. QED BY <2>3, <2>4 DEF Lives!Init
<1>2. LivesInv /\ SpawnerInv' /\ [SpawnerNext]_spawnerVars => Lives!Next
  <2>. SUFFICES ASSUME SpawnerInv, phase # "aborted" => LifeInv, SpawnerTypes', [SpawnerNext]_spawnerVars
                PROVE  Lives!Next
    BY DEF LivesInv, SpawnerInv
  <2>1. StagesInOrder
    BY OrderStep
  <2>2. \A e \in Entity : st[e] = StageOf(e) /\ st'[e] = StageOf(e)'
    OBVIOUS
  <2>. HIDE DEF st
  <2>3. \A e \in Entity : st'[e] # st[e] => <<st[e], st'[e]>> \in Lives!Edges(e) \/ Lives!Excused(e)
    BY <2>1, <2>2 DEF StagesInOrder, StageStep, Lives!Excused, st
  <2>4. \A e, c \in Entity : st'[e] = "left" /\ st[e] # "left" /\ parent[c] = e =>
          st[c] \in {"left", "spared"} \/ poisoned
    BY <2>1, <2>2 DEF StagesInOrder
  <2>5. \A e \in Entity : st'[e] = "spared" /\ st[e] # "spared" => gone = {}
    BY <2>1, <2>2 DEF StagesInOrder
  <2>. QED BY <2>3, <2>4, <2>5 DEF st, Lives!Next
<1>. QED BY <1>1, <1>2, LivesRight, SpawnerRight, PTL DEF SpawnerSpec, LifetimesInOrder, Lives!Spec, LivesInv

-----------------------------------------------------------------------------
\* The lists that are lost.  The roots the hierarchy has a node for, or will have
\* after the flush.
Attaches ==
  {r \in Root : \/ r \in adopted
                \/ \E k \in DOMAIN commands :
                     commands[k].op = "reparent" /\ r \in {commands[k].entity, commands[k].parent}}

\* Only what a caller attached before it was built has a node and no seat; every
\* loss began with such a root, or with one the host refuses.
LossInv ==
  /\ phase # "aborted" => \A r \in Attaches : seat[r] # "none" \/ r \in attached_early \cup lost
  /\ lost # {} => lost \cap (attached_early \cup Unbuildable) # {}

\* A step that gives a node to nobody else, and loses nothing.
LEMMA LossKept ==
  ASSUME LossInv, phase' # "aborted" => phase # "aborted", lost' = lost, attached_early \subseteq attached_early',
         \A r \in Root : seat[r] # "none" => seat'[r] # "none",
         \A r \in Attaches' : r \in Attaches \/ seat'[r] # "none" \/ r \in attached_early'
  PROVE  LossInv'
<1>1. \A r \in Attaches : r \in Root
  BY DEF Attaches
<1>2. ASSUME phase' # "aborted", NEW r \in Attaches'
      PROVE  seat'[r] # "none" \/ r \in attached_early' \cup lost'
  BY <1>1, <1>2 DEF LossInv
<1>3. lost' # {} => lost' \cap (attached_early' \cup Unbuildable) # {}
  BY DEF LossInv
<1>. QED BY <1>2, <1>3 DEF LossInv

\* A command gives a node to whom a reparent names.
LEMMA ApplyAdopts ==
  ASSUME NEW w \in Worlds, NEW c \in Command, NEW x, x \in Apply(w, c).adopted
  PROVE  x \in w.adopted \/ (c.op = "reparent" /\ x \in {c.entity, c.parent})
<1>1. CASE c.op = "spawn"
  BY <1>1 DEF Apply, Worlds
<1>2. CASE c.op = "despawn"
  BY <1>2 DEF Apply
<1>3. CASE c.op = "reparent"
  BY <1>3 DEF Apply, Worlds
<1>4. c.op \in {"spawn", "despawn", "reparent"}
  BY DEF Command
<1>. QED BY <1>1, <1>2, <1>3, <1>4

\* So does the queue.
LEMMA FlushAdopts ==
  ASSUME SpawnerTypes, NEW r \in Root, r \in Flushed.adopted
  PROVE  r \in Attaches
<1>1. /\ Len(commands) \in Nat /\ DOMAIN commands = 1 .. Len(commands)
      /\ \A k \in 1 .. Len(commands) : commands[k] \in Command
  BY Typed
<1>2. PICK world : Flushed = world[Len(commands)] /\ Passes(world, Len(commands))
  <2> DEFINE world == CHOOSE g : Passes(g, Len(commands))
  <2>1. Flushed = world[Len(commands)]
    BY DEF Flushed, Passes
  <2>2. Passes(world, Len(commands))
    BY <1>1, PassesExist
  <2>. QED BY <2>1, <2>2
<1>3. PICK n \in Nat : n = Len(commands)
  BY <1>1
<1>4. /\ world[0] = [life |-> life, parent |-> parent, adopted |-> adopted]
      /\ \A m \in 1 .. n : world[m] = Apply(world[m - 1], commands[m])
  BY <1>2, <1>3 DEF Passes
<1> DEFINE Right(w) == w \in Worlds /\ (r \in w.adopted => r \in Attaches)
<1>5. Right(world[0])
  <2>1. world[0] \in Worlds
    BY <1>4 DEF SpawnerTypes, Worlds
  <2>2. world[0].adopted = adopted
    BY <1>4
  <2>. QED BY <2>1, <2>2 DEF Attaches
<1>6. ASSUME NEW m \in 1 .. n, Right(world[m - 1])
      PROVE  Right(world[m])
  <2>1. PICK w \in Worlds : w = world[m - 1] /\ (r \in w.adopted => r \in Attaches)
    BY <1>6
  <2>2. PICK c \in Command : c = commands[m] /\ m \in DOMAIN commands
    BY <1>1, <1>3
  <2>3. PICK v : v = Apply(w, c)
    OBVIOUS
  <2>4. world[m] = v
    BY <1>4, <2>1, <2>2, <2>3
  <2>5. v \in Worlds
    BY <2>3, ApplyFacts
  <2>6. r \in v.adopted => r \in Attaches
    <3>1. ASSUME r \in v.adopted
          PROVE  r \in w.adopted \/ (c.op = "reparent" /\ r \in {c.entity, c.parent})
      BY <2>3, <3>1, ApplyAdopts
    <3>. QED BY <2>1, <2>2, <3>1 DEF Attaches
  <2>. QED BY <2>4, <2>5, <2>6
<1>. HIDE DEF Right
<1>7. \A m \in 0 .. n : Right(world[m])
  <2> DEFINE Bad == {m \in 0 .. n : ~Right(world[m])}
  <2>. SUFFICES ASSUME Bad # {} PROVE FALSE
    OBVIOUS
  <2>1. PICK m \in Bad : \A l \in Bad : m <= l
    <3>1. Bad \in SUBSET Nat
      OBVIOUS
    <3>. QED BY <3>1, LeastOf
  <2>2. m # 0
    BY <1>5, <2>1
  <2>3. m \in 1 .. n /\ m - 1 \in 0 .. n /\ m - 1 \notin Bad
    BY <2>1, <2>2
  <2>. QED BY <1>6, <2>1, <2>3
<1>8. Right(Flushed)
  BY <1>2, <1>3, <1>7
<1>. QED BY <1>8 DEF Right

\* The queue of user code.
LEMMA LossCalls ==
  ASSUME SpawnerInv, LossInv, Calls
  PROVE  LossInv'
<1>0. commands \in Seq(Command)
  BY DEF SpawnerInv, SpawnerTypes
<1>1. ASSUME NEW r \in Root, spawn_prefab(r) PROVE LossInv'
  <2>1. /\ phase' = phase /\ lost' = lost /\ attached_early' = attached_early /\ seat' = seat /\ adopted' = adopted
        /\ commands' = Append(commands, Spawn(r))
    BY <1>1 DEF spawn_prefab, clockVars, hostVars, lossVars
  <2>2. \A k \in DOMAIN commands' : commands'[k] = Spawn(r) \/ (k \in DOMAIN commands /\ commands'[k] = commands[k])
    BY <1>0, <2>1 DEF Command, Spawn
  <2>3. Spawn(r).op # "reparent"
    BY DEF Spawn
  <2>4. \A x \in Attaches' : x \in Attaches
    BY <2>1, <2>2, <2>3 DEF Attaches
  <2>. QED BY <2>1, <2>4, LossKept
<1>2. ASSUME NEW e \in Entity, NEW delay \in 0 .. MaxDelay, despawn(e, delay) PROVE LossInv'
  <2>1. /\ phase' = phase /\ lost' = lost /\ attached_early' = attached_early /\ seat' = seat /\ adopted' = adopted
        /\ commands' = commands
    BY <1>2 DEF despawn, clockVars, worldVars, hostVars, lossVars
  <2>2. \A x \in Attaches' : x \in Attaches
    BY <2>1 DEF Attaches
  <2>. QED BY <2>1, <2>2, LossKept
<1>3. ASSUME NEW e \in Entity, NEW p \in Root \cup {None}, queue_attach(e, p) PROVE LossInv'
  <2>1. /\ phase' = phase /\ lost' = lost /\ seat' = seat /\ adopted' = adopted
        /\ attached_early' = attached_early \cup {r \in {e, p} \cap Root : seat[r] = "none"}
        /\ commands' = Append(commands, Reparent(e, p))
    BY <1>3 DEF queue_attach, clockVars
  <2>2. \A k \in DOMAIN commands' : commands'[k] = Reparent(e, p) \/ (k \in DOMAIN commands /\ commands'[k] = commands[k])
    BY <1>0, <2>1
  <2>3. Reparent(e, p).entity = e /\ Reparent(e, p).parent = p
    BY DEF Reparent
  <2>4. ASSUME NEW x \in Attaches' PROVE x \in Attaches \/ seat'[x] # "none" \/ x \in attached_early'
    <3>1. x \in Root /\ (x \in Attaches \/ x \in {e, p})
      BY <2>1, <2>2, <2>3, <2>4 DEF Attaches
    <3>. QED BY <2>1, <3>1
  <2>. QED BY <2>1, <2>4, LossKept
<1>. QED BY <1>1, <1>2, <1>3 DEF Calls, Entity

\* The steps that leave the queue and the nodes alone.
LEMMA LossQuiet ==
  ASSUME SpawnerInv, LossInv,
         \/ user_returns \/ journal_refuses \/ scene_stands \/ begin_tick \/ structural_apply \/ end_tick
         \/ drop_stale \/ refuse_despawn \/ despawn_alive \/ exit_machine \/ despawn_exit
         \/ realize \/ bury \/ drain \/ drop_unborn \/ enter \/ announce \/ refuse_build
         \/ UNCHANGED spawnerVars
  PROVE  LossInv'
<1>1. lost' = lost /\ attached_early' = attached_early
  BY DEF user_returns, journal_refuses, scene_stands, begin_tick, structural_apply, end_tick, abort,
         drop_stale, refuse_despawn, despawn_alive, exit_machine, despawn_exit, realize, bury, drain,
         drop_unborn, enter, announce, refuse_build, spawnerVars, hostVars, lossVars
<1>2. CASE phase' = "aborted"
  BY <1>1, <1>2 DEF LossInv
<1>3. CASE phase' # "aborted"
  <2>1. ~refuse_despawn /\ ~refuse_build
    BY <1>3 DEF refuse_despawn, refuse_build, abort
  <2>2. adopted' = adopted /\ commands' = commands
    BY <1>3, <2>1 DEF user_returns, journal_refuses, scene_stands, begin_tick, structural_apply, end_tick, abort,
           drop_stale, despawn_alive, exit_machine, despawn_exit, realize, bury, drain,
           drop_unborn, enter, announce, spawnerVars, worldVars
  <2>3. \A r \in Root : seat[r] # "none" => seat'[r] # "none"
    <3>1. CASE despawn_exit
      <4>1. seat \in [Entity -> {"none", "seated", "exited", "released"}] /\ Root \subseteq Entity
        BY HostTypes DEF SpawnerInv, Entity
      <4>2. seat' = seat \/ seat' = [seat EXCEPT ![Top.who] = "exited"]
        BY <3>1 DEF despawn_exit
      <4>. QED BY <4>1, <4>2
    <3>2. CASE bury
      <4>1. \A r \in Root : r \in Entity
        BY DEF Entity
      <4>. QED BY <3>2, <4>1 DEF bury
    <3>3. CASE ~despawn_exit /\ ~bury
      <4>1. seat' = seat
        BY <1>3, <2>1, <3>3 DEF user_returns, journal_refuses, scene_stands, begin_tick, structural_apply, end_tick,
               abort, drop_stale, despawn_alive, exit_machine, realize, drain, drop_unborn, enter, announce,
               spawnerVars, hostVars
      <4>. QED BY <4>1
    <3>. QED BY <3>1, <3>2, <3>3
  <2>4. \A r \in Attaches' : r \in Attaches
    BY <2>2 DEF Attaches
  <2>5. phase # "aborted"
    <3>1. CASE phase = "aborted"
      <4>1. todo = <<>>
        BY <3>1 DEF SpawnerInv, PhaseRight
      <4>2. ~UserRuns /\ \A do : ~Doing(do)
        BY <3>1, <4>1 DEF UserRuns, Doing
      <4>3. phase' = phase
        BY <2>1, <3>1, <4>1, <4>2 DEF user_returns, journal_refuses, scene_stands, begin_tick, structural_apply,
               end_tick, drop_stale, despawn_alive, exit_machine, despawn_exit, realize, bury, drain, drop_unborn,
               enter, announce, spawnerVars, clockVars
      <4>. QED BY <1>3, <3>1, <4>3
    <3>. QED BY <3>1
  <2>. QED BY <1>1, <2>3, <2>4, <2>5, LossKept
<1>. QED BY <1>2, <1>3

\* The scene is seated, and its roots are the only ones with a node.
LEMMA LossScene ==
  ASSUME SpawnerInv, LossInv, NEW scene \in SUBSET Root, spawn_scene(scene)
  PROVE  LossInv'
<1> DEFINE kids == UNION {Children(r) : r \in scene}
<1>1. phase = "boot" /\ todo = <<>>
  BY DEF spawn_scene
<1>2. Untouched
  BY <1>1 DEF SpawnerInv, PhaseRight, Awaits
<1>3. /\ phase' = phase /\ lost' = lost /\ attached_early' = attached_early /\ commands' = <<>>
      /\ adopted' = scene \cup kids
      /\ seat' = [e \in Entity |-> IF e \in scene \cup kids THEN "seated" ELSE "none"]
  BY <1>2 DEF spawn_scene, clockVars, lossVars, Untouched
<1>4. kids \subseteq Child /\ Root \cap Child = {}
  BY PrefabAssumption DEF Children
<1>. HIDE DEF kids
<1>5. \A r \in Root : r \in Entity /\ seat[r] = "none"
  BY <1>2 DEF Untouched, Entity
<1>6. ASSUME NEW r \in Attaches' PROVE seat'[r] # "none"
  <2>1. r \in Root /\ r \in scene
    BY <1>3, <1>4, <1>6 DEF Attaches
  <2>. QED BY <1>3, <1>5, <2>1
<1>. QED BY <1>1, <1>3, <1>5, <1>6, LossKept

\* A removal is queued.
LEMMA LossRemoval ==
  ASSUME SpawnerInv, LossInv, despawn_pending \/ remove
  PROVE  LossInv'
<1>1. /\ phase' = phase /\ lost' = lost /\ attached_early' = attached_early /\ seat' = seat /\ adopted' = adopted
      /\ commands' = Append(commands, Despawn(Top.who)) /\ todo # <<>>
  BY DEF despawn_pending, remove, queue_removal, clockVars, hostVars, lossVars, Doing
<1>2. Despawn(Top.who).op # "reparent"
  BY DEF Despawn
<1>3. \A k \in DOMAIN commands' : commands'[k] = Despawn(Top.who) \/ (k \in DOMAIN commands /\ commands'[k] = commands[k])
  <2>1. commands \in Seq(Command)
    BY DEF SpawnerInv, SpawnerTypes
  <2>. QED BY <1>1, <2>1
<1>4. \A x \in Attaches' : x \in Attaches
  BY <1>1, <1>2, <1>3 DEF Attaches
<1>. QED BY <1>1, <1>4, LossKept

\* A flush gives nodes to those a reparent names.
LEMMA LossFlush ==
  ASSUME SpawnerInv, LossInv, flush_structural \/ settle
  PROVE  LossInv'
<1>1. /\ phase' = phase /\ lost' = lost /\ attached_early' = attached_early /\ seat' = seat
      /\ \/ adopted' = adopted /\ commands' = commands
         \/ adopted' = Flushed.adopted /\ commands' = <<>>
  BY DEF flush_structural, settle, clockVars, worldVars, hostVars, lossVars
<1>2. \A r \in Attaches' : r \in Attaches
  <2>1. CASE adopted' = adopted /\ commands' = commands
    BY <2>1 DEF Attaches
  <2>2. CASE adopted' = Flushed.adopted /\ commands' = <<>>
    <3>1. \A r \in Attaches' : r \in Root /\ r \in Flushed.adopted
      BY <2>2 DEF Attaches
    <3>. QED BY <3>1, FlushAdopts DEF SpawnerInv
  <2>. QED BY <1>1, <2>1, <2>2
<1>. QED BY <1>1, <1>2, LossKept

\* A build seats the root it gives a node to, and attaches its children to it.
LEMMA LossBuild ==
  ASSUME SpawnerInv, LossInv, build
  PROVE  LossInv'
<1>1. PICK r \in Root : r = Top.who
  BY BuildTop DEF build, Doing
<1>2. PICK kids : kids = Children(r) /\ kids \subseteq Child /\ IsFiniteSet(kids)
  <2>1. Children(r) \subseteq Root \cup Child /\ Children(r) \subseteq Child
    BY DEF Children
  <2>. QED BY <2>1, PrefabAssumption, FS_Subset
<1>3. PICK old : /\ old \in Seq(Command) /\ commands' = old \o Attachments(r)
                 /\ old \in {commands, <<>>}
  <2>1. commands \in Seq(Command) /\ <<>> \in Seq(Command)
    BY DEF SpawnerInv, SpawnerTypes
  <2>2. commands' = (IF r \in Machined THEN <<>> ELSE commands) \o Attachments(r)
    BY <1>1, Zenon DEF build
  <2>. QED BY <2>1, <2>2
<1>4. /\ phase' = phase /\ lost' = lost /\ attached_early' = attached_early
      /\ seat' = [e \in Entity |-> IF e \in kids \cup {r} THEN "seated" ELSE seat[e]]
      /\ adopted' \in {Flushed.adopted \cup {r}, adopted \cup {r}}
  BY <1>1, <1>2 DEF build, clockVars, lossVars
<1>5. ASSUME NEW k \in DOMAIN commands'
      PROVE  \/ k \in DOMAIN commands /\ commands'[k] = commands[k]
             \/ commands'[k].entity \notin Root /\ commands'[k].parent = r
  <2>1. Attachments(r) \in Seq(Command) /\ \A i \in DOMAIN Attachments(r) :
          Attachments(r)[i].entity \in Child /\ Attachments(r)[i].parent = r
    <3>1. PICK list : list = SetToSeq(kids) /\ list \in Seq(Child) /\ Len(list) = Cardinality(kids)
      BY <1>2, ListOfSet
    <3>2. Attachments(r) = [i \in 1 .. Len(list) |-> Reparent(list[i], r)]
      BY <1>2, <3>1 DEF Attachments
    <3>3. \A i \in 1 .. Len(list) : list[i] \in Child /\ Reparent(list[i], r) \in Command
      BY <3>1 DEF Reparent, Command
    <3>4. DOMAIN Attachments(r) = 1 .. Len(list) /\ Attachments(r) \in Seq(Command)
      BY <3>1, <3>2, <3>3
    <3>. QED BY <3>2, <3>3, <3>4 DEF Reparent
  <2>2. k \in DOMAIN (old \o Attachments(r))
    BY <1>3, <1>5
  <2>3. \/ k \in DOMAIN old /\ commands'[k] = old[k]
        \/ \E i \in DOMAIN Attachments(r) : commands'[k] = Attachments(r)[i]
    BY <1>3, <2>1, <2>2
  <2>4. Root \cap Child = {}
    BY PrefabAssumption
  <2>. QED BY <1>3, <2>1, <2>3, <2>4
<1>6. ASSUME NEW x \in Attaches' PROVE x \in Attaches \/ x = r
  <2>1. \A y \in Root : y \in Flushed.adopted => y \in Attaches
    BY FlushAdopts DEF SpawnerInv
  <2>2. \A y \in Root : y \in adopted => y \in Attaches
    BY DEF Attaches
  <2>3. x \in Root
    BY <1>6 DEF Attaches
  <2>4. CASE x \in adopted'
    BY <1>4, <2>1, <2>2, <2>3, <2>4
  <2>5. CASE \E k \in DOMAIN commands' : commands'[k].op = "reparent" /\ x \in {commands'[k].entity, commands'[k].parent}
    BY <1>5, <2>3, <2>5 DEF Attaches
  <2>. QED BY <1>6, <2>4, <2>5 DEF Attaches
<1>7. \A x \in Root : x \in Entity
  BY DEF Entity
<1>8. seat'[r] # "none" /\ \A x \in Root : seat[x] # "none" => seat'[x] # "none"
  BY <1>4, <1>7
<1>. QED BY <1>4, <1>6, <1>8, LossKept

\* A failing build loses a list on which its root is.
LEMMA LossGiveUp ==
  ASSUME LivesInv, LossInv, refuse_adopted \/ refuse_prefab
  PROVE  LossInv'
<1>1. SpawnerInv /\ phase = "structural" /\ Top.who \in Root
  BY GiveUpStep DEF LivesInv
<1>2. PICK r \in Root : r = Top.who
  BY <1>1
<1>3. /\ todo # <<>> /\ Top.do = "build" /\ give_up
      /\ \/ adopted' = adopted /\ r \in adopted
         \/ adopted' = adopted \cup {r} /\ r \in Unbuildable
  BY <1>2 DEF refuse_adopted, refuse_prefab, Doing
<1>4. /\ attached_early' = attached_early /\ seat' = seat /\ commands' = commands
      /\ lost' = lost \cup {todo[k].who : k \in {j \in DOMAIN todo : todo[j].do = "build"}}
  BY <1>3 DEF give_up
<1>5. 1 \in DOMAIN todo /\ todo[1].do = "build" /\ todo[1].who = r
  BY <1>1, <1>2, <1>3, TopFacts DEF SpawnerInv
<1>6. r \in lost' /\ lost \subseteq lost'
  BY <1>4, <1>5
<1>7. seat[r] = "none"
  <2>1. Waiting("build", r)
    BY <1>5 DEF Waiting
  <2>. QED BY <1>1, <2>1 DEF LivesInv, LifeInv, BuildsRight
<1>8. lost' \cap (attached_early' \cup Unbuildable) # {}
  <2>1. CASE r \in Unbuildable
    BY <1>6, <2>1
  <2>2. CASE r \in adopted
    <3>1. r \in attached_early \cup lost
      BY <1>1, <1>7, <2>2 DEF LossInv, Attaches
    <3>2. CASE r \in attached_early
      BY <1>4, <1>6, <3>2
    <3>3. CASE r \in lost
      BY <1>4, <1>6, <3>3 DEF LossInv
    <3>. QED BY <3>1, <3>2, <3>3
  <2>. QED BY <1>3, <2>1, <2>2
<1>9. \A x \in Attaches' : x \in Attaches \/ x = r
  BY <1>3, <1>4 DEF Attaches
<1>10. \A x \in Attaches' : seat'[x] # "none" \/ x \in attached_early' \cup lost'
  BY <1>1, <1>4, <1>6, <1>9 DEF LossInv
<1>. QED BY <1>8, <1>10 DEF LossInv

\* Whatever is called, refused or run next.
LEMMA LossStep ==
  ASSUME LivesInv, LossInv, [SpawnerNext]_spawnerVars
  PROVE  LossInv'
<1>0. SpawnerInv
  BY DEF LivesInv
<1>1. CASE Calls
  BY <1>0, <1>1, LossCalls
<1>2. CASE \/ user_returns \/ journal_refuses \/ scene_stands \/ begin_tick \/ structural_apply \/ end_tick
           \/ drop_stale \/ refuse_despawn \/ despawn_alive \/ exit_machine \/ despawn_exit
           \/ realize \/ bury \/ drain \/ drop_unborn \/ enter \/ announce \/ refuse_build
           \/ UNCHANGED spawnerVars
  BY <1>0, <1>2, LossQuiet
<1>3. ASSUME NEW scene \in SUBSET Root, spawn_scene(scene) PROVE LossInv'
  BY <1>0, <1>3, LossScene
<1>4. CASE despawn_pending \/ remove
  BY <1>0, <1>4, LossRemoval
<1>5. CASE flush_structural \/ settle
  BY <1>0, <1>5, LossFlush
<1>6. CASE build
  BY <1>0, <1>6, LossBuild
<1>7. CASE refuse_adopted \/ refuse_prefab
  BY <1>7, LossGiveUp
<1>. QED BY <1>1, <1>2, <1>3, <1>4, <1>5, <1>6, <1>7, Zenon DEF SpawnerNext, Prepare, Realize

\* When the listeners of entity.despawned spawn nothing, every spawn that was
\* requested is realised, or dies before, or was on a list that a failing build
\* abandoned (realize, prefab_spawn.cpp); and of every list ever abandoned, one
\* root at least was named by a reparent before it was built, or is one whose
\* components the host refuses.
THEOREM EverySpawnLands == ~DespawnListenersSpawn => (SpawnerSpec => []SpawnsLand)
<1>. SUFFICES ASSUME ~DespawnListenersSpawn PROVE SpawnerSpec => []SpawnsLand
  OBVIOUS
<1>1. SpawnerInit => LandInv /\ LossInv
  <2>. SUFFICES ASSUME SpawnerInit PROVE LandInv /\ LossInv
    OBVIOUS
  <2>1. todo = <<>> /\ lost = {} /\ adopted = {} /\ DOMAIN commands = {} /\ \A e \in Entity : life[e] = "free"
    BY DEF SpawnerInit
  <2>2. LandInv
    BY <2>1, EmptyStack DEF LandInv, Live, Entity
  <2>3. LossInv
    BY <2>1 DEF LossInv, Attaches
  <2>. QED BY <2>2, <2>3
<1>2. LivesInv /\ LandInv /\ LossInv /\ [SpawnerNext]_spawnerVars => LandInv' /\ LossInv'
  BY LandStep, LossStep DEF LivesInv
<1>3. LivesInv /\ LandInv /\ LossInv => SpawnsLand
  <2>. SUFFICES ASSUME SpawnerInv, LandInv, LossInv PROVE SpawnsLand
    BY DEF LivesInv
  <2>1. ASSUME phase \in {"between", "open"}, NEW r \in Root, Live(r), seat[r] = "none"
        PROVE  r \in ToSet(pending) \cup lost
    <3>1. todo = <<>> /\ phase # "aborted"
      BY <2>1 DEF SpawnerInv, PhaseRight
    <3>2. r \in lost \/ \E k \in DOMAIN pending : pending[k] = r
      BY <2>1, <3>1, EmptyStack DEF LandInv
    <3>3. pending \in Seq(Root)
      BY DEF SpawnerInv, SpawnerTypes
    <3>. QED BY <3>2, <3>3 DEF ToSet
  <2>2. lost # {} => lost \cap (attached_early \cup Unbuildable) # {}
    BY DEF LossInv
  <2>. QED BY <2>1, <2>2 DEF SpawnsLand, Live
<1>. QED BY <1>1, <1>2, <1>3, LivesRight, PTL DEF SpawnerSpec


=============================================================================
