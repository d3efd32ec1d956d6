------------------------------ MODULE TickLoop ------------------------------
(***************************************************************************)
(* tick::TickLoop (core/tick/tick_loop.cpp): the nine phases of a tick, a  *)
(* marker in the journal before each, the queue of injected inputs         *)
(* (core/input/inject.cpp) and the frame packet of the renderer.            *)
(*                                                                         *)
(* What the phases do is left to the modules that extend this one; they    *)
(* say when the body of a phase is over and when user code has control.    *)
(* The journal refuses every record from some moment on, as in Journal.    *)
(***************************************************************************)
EXTENDS Naturals, Sequences

CONSTANTS
  Input,    \* the inputs that may be injected, each once
  MaxTick   \* bound on ticks

ASSUME TickAssumption == MaxTick \in Nat

VARIABLES
  tick,         \* tick_
  phase,        \* the phase of the tick that is running, 0 between ticks
  poisoned,     \* the journal refuses
  input_queue,  \* what was injected and not drained
  input_drain,  \* what the running input phase has still to deliver
  markers,      \* the phase markers in the journal
  published,    \* the ticks whose frame packet was published; the renderer sees the last
  ticks,        \* stats_.ticks, the ticks completed
  injected,     \* for the properties: the inputs, with the tick inject_at names
  resolved      \* for the properties: the inputs the bus took or refused, and when

inputVars == <<input_queue, input_drain, injected, resolved>>
clockVars == <<tick, phase, poisoned, markers, published, ticks>>
tickVars == <<inputVars, clockVars>>

\* The phases by their place in the tick; watchers, sequences and update lie
\* between input and physics, and post before the structural phase.
kTickBegin == 1
kInput == 2
kPhysics == 6
kStructuralApply == 8
kTickEnd == 9

TickInit ==
  /\ tick = 0 /\ phase = 0 /\ poisoned = FALSE
  /\ input_queue = <<>> /\ input_drain = <<>>
  /\ markers = <<>> /\ published = <<>> /\ ticks = 0
  /\ injected = <<>> /\ resolved = <<>>

Marker(t, p) == [tick |-> t, phase |-> p]

\* Some record is refused, of a marker, of the bus or of a hook: sticky.
journal_fails ==
  /\ ~poisoned
  /\ poisoned' = TRUE
  /\ UNCHANGED <<inputVars, tick, phase, markers, published, ticks>>

\* Mutant: the input phase drains the queue itself, without the swap.
inject_live(i) ==
  /\ phase \notin {kTickBegin, kTickEnd}
  /\ \A k \in DOMAIN injected : injected[k].input # i
  /\ IF phase = kInput
       THEN input_drain' = Append(input_drain, i) /\ UNCHANGED input_queue
       ELSE input_queue' = Append(input_queue, i) /\ UNCHANGED input_drain
  /\ injected' = Append(injected, [input |-> i, tick |-> tick + 1])
  /\ UNCHANGED <<resolved, clockVars>>

\* inject_input: a FIFO for the next input phase.  inject_at refuses every
\* target but the tick after the current one, and is the same call otherwise.
\* No user code runs in the first phase and in the last.
inject(i) ==
  /\ phase \notin {kTickBegin, kTickEnd}
  /\ \A k \in DOMAIN injected : injected[k].input # i
  /\ input_queue' = Append(input_queue, i)
  /\ injected' = Append(injected, [input |-> i, tick |-> tick + 1])
  /\ UNCHANGED <<input_drain, resolved, clockVars>>

\* Mutant: a refused marker ends nothing.
phase_marker_unchecked(t, p) ==
  /\ phase' = p
  /\ markers' = IF poisoned THEN markers ELSE Append(markers, Marker(t, p))

\* The marker comes before the body: refused, the tick ends here.
phase_marker(t, p) ==
  IF poisoned THEN phase' = 0 /\ UNCHANGED markers
              ELSE phase' = p /\ markers' = Append(markers, Marker(t, p))

begin_tick ==
  /\ phase = 0 /\ tick < MaxTick
  /\ tick' = tick + 1
  /\ phase_marker(tick', kTickBegin)
  /\ UNCHANGED <<inputVars, poisoned, published, ticks>>

\* The swap at phase entry is the cut-off.
enter_input ==
  /\ phase = kTickBegin
  /\ phase_marker(tick, kInput)
  /\ IF poisoned THEN UNCHANGED <<input_queue, input_drain>>
                 ELSE input_drain' = input_queue /\ input_queue' = <<>>
  /\ UNCHANGED <<tick, poisoned, published, ticks, injected, resolved>>

\* One input goes to the bus.  A refusal by the bus is counted and skipped, one
\* by the journal ends the tick.
deliver_input ==
  /\ phase = kInput /\ input_drain # <<>>
  /\ IF poisoned
       THEN phase' = 0 /\ UNCHANGED <<input_drain, resolved>>
       ELSE /\ input_drain' = Tail(input_drain)
            /\ resolved' = Append(resolved, [input |-> Head(input_drain), tick |-> tick])
            /\ UNCHANGED phase
  /\ UNCHANGED <<tick, poisoned, markers, published, ticks, input_queue, injected>>

\* From one phase to the next, when the body of the first is over.
next_phase ==
  /\ phase \in kInput .. kTickEnd - 1
  /\ phase = kInput => input_drain = <<>>
  /\ phase_marker(tick, phase + 1)
  /\ UNCHANGED <<inputVars, tick, poisoned, published, ticks>>

\* run_structural_apply: the preparer, the flush or the realizer returns an error
\* of its own.  The tick ends without its last phase; the journal takes what the
\* next one records.
structural_fails ==
  /\ phase = kStructuralApply
  /\ phase' = 0
  /\ UNCHANGED <<inputVars, tick, poisoned, markers, published, ticks>>

\* run_tick_end: the packet is published, and then the journal is flushed.
end_tick ==
  /\ phase = kTickEnd
  /\ phase' = 0
  /\ published' = Append(published, tick)
  /\ ticks' = IF poisoned THEN ticks ELSE ticks + 1
  /\ UNCHANGED <<inputVars, tick, poisoned, markers>>

Ticking ==
  begin_tick \/ enter_input \/ deliver_input \/ structural_fails \/ end_tick \/ journal_fails

\* The loop, whatever its phases do.
TickNext == Ticking \/ next_phase \/ \E i \in Input : inject(i)
TickSpec == TickInit /\ [][TickNext]_tickVars

-----------------------------------------------------------------------------
\* Inputs reach the bus once each, in the order of the calls, in the tick that
\* inject_at names: those of a listener in an input phase wait for the next
\* one, and none is left behind while the journal lives (inject.h; "the queue
\* swap at phase entry is the cutoff", tick_loop.h).
InputsOnTime ==
  /\ Len(resolved) <= Len(injected)
  /\ \A k \in DOMAIN resolved : resolved[k] = injected[k]
  /\ \A k \in DOMAIN injected :
       ~poisoned /\ injected[k].tick <= tick /\ phase \notin {kTickBegin, kInput} => k <= Len(resolved)

\* The heartbeat: after a marker comes that of the next phase, or the first one
\* of the next tick, when a tick ended or failed in its structural phase.
Follows(m, next) ==
  \/ next = Marker(m.tick, m.phase + 1)
  \/ m.phase \in {kStructuralApply, kTickEnd} /\ next = Marker(m.tick + 1, kTickBegin)

\* A tick the renderer has seen a packet of has its nine markers in the journal,
\* one after the other; the journal of a run starts with its first tick and has
\* no gap but those of failed structural phases, and the packets come in the
\* order of the ticks.  The ticks counted are those published, short of one
\* whose flush failed ("unjournaled ticks do not exist", tick_loop.h).
FramesJournaled ==
  /\ \A k \in DOMAIN published : \E n \in 0 .. Len(markers) - kTickEnd :
       \A p \in 1 .. kTickEnd : markers[n + p] = Marker(published[k], p)
  /\ \A n \in 1 .. Len(markers) - 1 : Follows(markers[n], markers[n + 1])
  /\ markers # <<>> => markers[1] = Marker(1, kTickBegin)
  /\ \A k \in 1 .. Len(published) - 1 : published[k] < published[k + 1]
  /\ ticks <= Len(published) /\ (ticks < Len(published) => poisoned)
=============================================================================
