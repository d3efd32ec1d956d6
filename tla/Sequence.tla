------------------------------ MODULE Sequence ------------------------------
(***************************************************************************)
(* The dope sheet of one state (core/statechart/sequences.cpp): compiled   *)
(* to a timeline, started inside the enter chain, advanced by one local    *)
(* tick per sequences phase, interrupted by the exit chain, and resumed    *)
(* under history.  Every item is an event, whose cascade is user code that *)
(* may leave or re-enter the state, or put the machine to sleep, while the *)
(* batch of items is half fired.                                           *)
(*                                                                         *)
(* Seconds are ticks here: time_to_tick is monotone, which is all          *)
(* compile_sequence relies on.                                             *)
(***************************************************************************)
EXTENDS Naturals, SequencesExt

CONSTANT Sheets     \* the authored sheets, with the history flag of the state

Trigger == 0
SpanOpen == 1
SpanClose == 2

ASSUME SheetsAssumption ==
  \A d \in Sheets :
    /\ d.duration \in Nat /\ d.loop_count \in Nat /\ d.history \in BOOLEAN
    /\ d.end \in {"finish", "loop", "hold"}
    /\ d.triggers \in Seq(Nat) /\ d.spans \in Seq([begin : Nat, end : Nat])

VARIABLES
  desc,      \* the authored sheet
  items,     \* its compiled timeline
  life,      \* the machine: instantiated, live, dead
  phase,     \* has the sequences phase of this tick begun
  marked,    \* the region already transitioned in this tick
  dormant,   \* the machine's root is dormant
  active,    \* the state is active
  sheet,     \* RtSheet, its runtime fields
  open,      \* the open spans
  todo,      \* what the code on the stack has still to do
  fired,     \* for the properties: the items fired in this pass, in order
  cut        \* for the properties: the items an interruption left behind

sequenceVars == <<desc, items, life, phase, marked, dormant, active, sheet, open, todo, fired, cut>>

Item == [tick : Nat, kind : {Trigger, SpanOpen, SpanClose}, ref : Nat]

\* compile_sequence: what it refuses, and the order of what it accepts.
Compiles(d) ==
  /\ d.duration >= 1
  /\ d.end # "loop" => d.loop_count = 0
  /\ \A s \in Range(d.spans) : s.begin <= s.end /\ s.end <= d.duration
  /\ \A t \in Range(d.triggers) : t <= d.duration

Before(a, b) ==
  \/ a.tick < b.tick
  \/ a.tick = b.tick /\ a.kind < b.kind
  \/ a.tick = b.tick /\ a.kind = b.kind /\ a.ref < b.ref

ItemsOf(d) ==
  {[tick |-> d.triggers[k], kind |-> Trigger, ref |-> k] : k \in DOMAIN d.triggers}
  \cup {[tick |-> d.spans[k].begin, kind |-> SpanOpen, ref |-> k] : k \in DOMAIN d.spans}
  \cup {[tick |-> d.spans[k].end, kind |-> SpanClose, ref |-> k] : k \in DOMAIN d.spans}

\* The sort: an item stands behind as many as come before it.
compile_sequence(d) ==
  LET all == ItemsOf(d)
      Place(x) == Cardinality({y \in all : Before(y, x)}) + 1
  IN  [k \in 1 .. Cardinality(all) |-> CHOOSE x \in all : Place(x) = k]

SequenceInit ==
  /\ desc \in {d \in Sheets : Compiles(d)}
  /\ items = compile_sequence(desc)
  /\ life = "instantiated" /\ phase = "after" /\ marked = FALSE /\ dormant = FALSE
  /\ active = TRUE
  /\ sheet = [playhead |-> 0, pass |-> 0, done |-> FALSE, cursor |-> 1,
              epoch |-> 0, entered |-> FALSE, saved |-> FALSE,
              saved_playhead |-> 0, saved_pass |-> 0, saved_done |-> FALSE]
  /\ open = {} /\ todo = <<>> /\ fired = <<>> /\ cut = {}

-----------------------------------------------------------------------------
Frame(do) == [do |-> do, epoch |-> sheet.epoch]
Doing(what) == todo # <<>> /\ Head(todo).do = what

\* Listeners have control: between the engine's steps, or in a cascade.
UserRuns == life = "live" /\ (todo = <<>> \/ Doing("cascade"))

IsDue(k, s) == k <= Len(items) /\ items[k].tick <= s.playhead
DueBehind(s) == {k \in DOMAIN items : k >= s.cursor /\ IsDue(k, s)}

\* sheet_settle_exit: saved under history, and every batch in flight is stale.
Settled(s) ==
  IF desc.history
    THEN [s EXCEPT !.saved = TRUE, !.saved_playhead = s.playhead, !.saved_pass = s.pass,
                   !.saved_done = s.done, !.epoch = @ + 1]
    ELSE [s EXCEPT !.epoch = @ + 1]

Resumes(s) == desc.history /\ s.saved

\* Mutant: the cursor is not moved behind what fired before.
Sought_rewound(playhead) == 1

\* The cursor of a resume: behind every item up to the saved position.
Sought(playhead) == Cardinality({k \in DOMAIN items : items[k].tick <= playhead}) + 1

\* sheet_start: the runtime fields, by resume or afresh.
Started(s) ==
  IF Resumes(s)
    THEN [s EXCEPT !.playhead = s.saved_playhead, !.pass = s.saved_pass, !.done = s.saved_done,
                   !.saved = FALSE, !.cursor = Sought(s.saved_playhead),
                   !.epoch = @ + 1, !.entered = TRUE]
    ELSE [s EXCEPT !.playhead = 0, !.pass = 0, !.done = FALSE, !.saved = FALSE,
                   !.cursor = 1, !.epoch = @ + 1, !.entered = TRUE]

\* Mutant: a span is reopened at its very end.
Covering_end(playhead) ==
  {k \in DOMAIN desc.spans : desc.spans[k].begin <= playhead /\ playhead <= desc.spans[k].end}

Covering(playhead) ==
  {k \in DOMAIN desc.spans : desc.spans[k].begin <= playhead /\ playhead < desc.spans[k].end}

Batch(s) == [do |-> "batch", epoch |-> s.epoch]

\* The state enters: a resume reopens spans, a fresh start fires the items of
\* local tick 0, inside the chain.
Entered(s) ==
  /\ active' = TRUE
  /\ sheet' = Started(s)
  /\ open' = IF Resumes(s) THEN Covering(s.saved_playhead) ELSE {}
  /\ todo' = IF Resumes(s) THEN todo ELSE <<Batch(Started(s))>> \o todo
  /\ fired' = IF Resumes(s) THEN fired ELSE <<>>

\* start_initial_entry, which marks no region.
initial_entry ==
  /\ life = "instantiated" /\ todo = <<>>
  /\ life' = "live"
  /\ Entered(sheet)
  /\ UNCHANGED <<desc, items, phase, marked, dormant, cut>>

\* One transition of the region: the state leaves, is entered, or both.  The
\* exit chain closes its spans; no cascade in the chain can move a marked
\* region.
transition(enters) ==
  /\ UserRuns /\ ~marked /\ ~dormant
  /\ active \/ enters
  /\ marked' = TRUE
  /\ LET left == IF active THEN Settled(sheet) ELSE sheet
         behind == IF active THEN DueBehind(sheet) ELSE {} IN
     /\ cut' = IF enters /\ ~Resumes(left) THEN {} ELSE cut \cup behind
     /\ IF enters
          THEN Entered(left)
          ELSE active' = FALSE /\ sheet' = left /\ open' = {} /\ UNCHANGED <<todo, fired>>
  /\ UNCHANGED <<desc, items, life, phase, dormant>>

set_dormant ==
  /\ UserRuns
  /\ dormant' = ~dormant
  /\ UNCHANGED <<desc, items, life, phase, marked, active, sheet, open, todo, fired, cut>>

\* The host is despawned: the exit chains run, and the machine is dead.
exit_host ==
  /\ life = "live" /\ phase = "after" /\ todo = <<>>
  /\ life' = "dead" /\ active' = FALSE /\ open' = {}
  /\ sheet' = IF active THEN Settled(sheet) ELSE sheet
  /\ UNCHANGED <<desc, items, phase, marked, dormant, todo, fired, cut>>

\* The next tick.  Epochs are compared within one tick only, so they start
\* again at 0.
next_tick ==
  /\ phase = "after" /\ todo = <<>> /\ life # "instantiated"
  /\ phase' = "before" /\ marked' = FALSE
  /\ sheet' = [sheet EXCEPT !.entered = FALSE, !.epoch = 0]
  /\ UNCHANGED <<desc, items, life, dormant, active, open, todo, fired, cut>>

-----------------------------------------------------------------------------
\* run_sequences and advance_sheet: one local tick per phase the state is
\* active for, none in the tick of its entry.
Advances == life = "live" /\ ~dormant /\ active /\ ~sheet.done /\ ~sheet.entered

advance_sheet ==
  /\ phase = "before" /\ todo = <<>>
  /\ phase' = "after"
  /\ IF Advances
       THEN /\ sheet' = [sheet EXCEPT !.playhead = @ + 1]
            /\ todo' = <<Frame("batch"), Frame("sheet_end")>>
       ELSE UNCHANGED <<sheet, todo>>
  /\ UNCHANGED <<desc, items, life, marked, dormant, active, open, fired, cut>>

\* fire_due_items: an item is consumed before its event is triggered, and the
\* batch breaks off when the state left or was entered anew.
Fresh == active /\ Head(todo).epoch = sheet.epoch

fire_item ==
  /\ Doing("batch") /\ Fresh /\ IsDue(sheet.cursor, sheet)
  /\ LET item == items[sheet.cursor] IN
     /\ open' = IF item.kind = SpanOpen THEN open \cup {item.ref}
                ELSE IF item.kind = SpanClose THEN open \ {item.ref} ELSE open
     /\ todo' = IF item.kind = SpanClose /\ item.ref \notin open
                  THEN todo ELSE <<Frame("cascade")>> \o todo
  /\ sheet' = [sheet EXCEPT !.cursor = @ + 1]
  /\ fired' = Append(fired, sheet.cursor)
  /\ UNCHANGED <<desc, items, life, phase, marked, dormant, active, cut>>

cascade_returns ==
  /\ Doing("cascade")
  /\ todo' = Tail(todo)
  /\ UNCHANGED <<desc, items, life, phase, marked, dormant, active, sheet, open, fired, cut>>

batch_ends ==
  /\ Doing("batch") /\ ~(Fresh /\ IsDue(sheet.cursor, sheet))
  /\ todo' = Tail(todo)
  /\ UNCHANGED <<desc, items, life, phase, marked, dormant, active, sheet, open, fired, cut>>

PassesLeft == desc.end = "loop" /\ (desc.loop_count = 0 \/ sheet.pass + 1 < desc.loop_count)

Settles == active /\ ~sheet.done /\ ~sheet.entered /\ sheet.playhead >= desc.duration

\* Mutant: the pass is not counted.
wrap_uncounted ==
  /\ Doing("sheet_end") /\ Settles /\ PassesLeft
  /\ sheet' = [sheet EXCEPT !.playhead = 0, !.cursor = 1]
  /\ todo' = <<Frame("batch")>> \o Tail(todo)
  /\ fired' = <<>> /\ cut' = {}
  /\ UNCHANGED <<desc, items, life, phase, marked, dormant, active, open>>

\* A loop wraps to local tick 0, whose items fire in the same phase.  Nothing
\* but the journal reads the pass of an endless loop: it stays 0.
wrap ==
  /\ Doing("sheet_end") /\ Settles /\ PassesLeft
  /\ sheet' = [sheet EXCEPT !.pass = IF desc.loop_count = 0 THEN 0 ELSE @ + 1,
                            !.playhead = 0, !.cursor = 1]
  /\ todo' = <<Frame("batch")>> \o Tail(todo)
  /\ fired' = <<>> /\ cut' = {}
  /\ UNCHANGED <<desc, items, life, phase, marked, dormant, active, open>>

\* Else it is done, and finishes with an event unless it holds.
finish ==
  /\ Doing("sheet_end") /\ Settles /\ ~PassesLeft
  /\ sheet' = [sheet EXCEPT !.done = TRUE]
  /\ todo' = (IF desc.end = "hold" THEN <<>> ELSE <<Frame("cascade")>>) \o Tail(todo)
  /\ UNCHANGED <<desc, items, life, phase, marked, dormant, active, open, fired, cut>>

not_at_end ==
  /\ Doing("sheet_end") /\ ~Settles
  /\ todo' = Tail(todo)
  /\ UNCHANGED <<desc, items, life, phase, marked, dormant, active, sheet, open, fired, cut>>

Engine ==
  \/ next_tick \/ advance_sheet \/ fire_item \/ cascade_returns \/ batch_ends
  \/ wrap \/ finish \/ not_at_end

SequenceNext ==
  \/ initial_entry
  \/ \E enters \in BOOLEAN : transition(enters)
  \/ set_dormant \/ exit_host
  \/ Engine

\* The loop goes on ticking and every cascade returns; what user code does in
\* between is up to it.
SequenceSpec == SequenceInit /\ [][SequenceNext]_sequenceVars /\ WF_sequenceVars(Engine)

-----------------------------------------------------------------------------
\* In each pass every item fires at most once and in timeline order, and at
\* rest none up to the playhead is missing but those a batch had not fired
\* when its own cascade left the state, which a resume skips ("Items due at a
\* position fire in timeline order", sequences.cpp; its comment on resume says
\* that all of them "fired before the interruption").
FiredInOrder ==
  /\ \A a, b \in DOMAIN fired : a < b => fired[a] < fired[b]
  /\ todo = <<>> /\ active /\ life = "live" =>
       {k \in DOMAIN items : items[k].tick <= sheet.playhead} = Range(fired) \cup cut

\* At rest a span is open exactly while its state is active and the playhead
\* is inside it: no exit, restart, wrap or resume leaves one open ("the
\* no-zombie-hitbox rule", transitions.cpp) or fails to reopen one.
SpansFollowPlayhead ==
  todo = <<>> /\ life # "instantiated" =>
    open = IF active THEN Covering(sheet.playhead) ELSE {}

\* A sheet that is left alone comes to its end, unless it loops for ever.
LeftAlone == life = "live" /\ active /\ ~marked /\ ~dormant
SheetFinishes ==
  ~(desc.end = "loop" /\ desc.loop_count = 0) /\ <>[]LeftAlone => <>[](sheet.done)
=============================================================================
