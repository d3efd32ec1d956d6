------------------------------ MODULE Lifecycle ------------------------------
(***************************************************************************)
(* What a statechart promises the hooks of its states (Appendix A.2.1 of   *)
(* the engine spec, statechart.h).  A state is out, waking (subtree up,    *)
(* components and substate entering), in (its script has entered), leaving *)
(* (its script has begun to exit) or out again.  The states of an initial  *)
(* configuration are seated: up before their enter chain runs.             *)
(***************************************************************************)
CONSTANTS State, NULL, Parent, RegionOf

VARIABLES phase, born

vars == <<phase, born>>

Siblings(s) == {u \in State \ {s} : Parent[u] = Parent[s] /\ RegionOf[u] = RegionOf[s]}
Children(s) == {u \in State : Parent[u] = s}
ParentIn(s, phases) == Parent[s] = NULL \/ phase[Parent[s]] \in phases

Init == ~born /\ phase = [s \in State |-> "out"]

\* Only whole chains are seated, one per region.
Seat ==
  /\ ~born /\ born'
  /\ phase' \in [State -> {"out", "seated"}]
  /\ \A s \in State : phase'[s] = "seated" =>
       /\ Parent[s] = NULL \/ phase'[Parent[s]] = "seated"
       /\ \A u \in Siblings(s) : phase'[u] = "out"

Become(s, p) == phase' = [phase EXCEPT ![s] = p] /\ UNCHANGED born

\* Under a parent that is up and not leaving, and beside no other substate.
Wake(s) ==
  /\ phase[s] \in {"out", "seated"}
  /\ ParentIn(s, {"seated", "waking", "in"})
  /\ \A u \in Siblings(s) : phase[u] = "out"
  /\ Become(s, "waking")

\* The script enters when the substate is in.
Settle(s) ==
  /\ phase[s] = "waking"
  /\ \A c \in Children(s) : phase[c] \in {"out", "in"}
  /\ Children(s) # {} => \E c \in Children(s) : phase[c] = "in"
  /\ Become(s, "in")

\* A state leaves under a parent that stays, or that began to leave before it.
Leave(s) ==
  /\ phase[s] \in {"in", "seated"}
  /\ ParentIn(s, {"seated", "in", "leaving"})
  /\ Become(s, "leaving")

\* Deactivation completes deepest first.
Sleep(s) ==
  /\ phase[s] = "leaving"
  /\ \A c \in Children(s) : phase[c] = "out"
  /\ Become(s, "out")

Next == Seat \/ \E s \in State : Wake(s) \/ Settle(s) \/ Leave(s) \/ Sleep(s)

Spec == Init /\ [][Next]_vars
=============================================================================
