---------------------------- MODULE MCStatechart ----------------------------
(* A machine of two regions: `body` with a composite P of two substates and  *)
(* a leaf Q, and `aux` with two leaves.  Its table has an any-state rule, a  *)
(* deep target, a self transition, rules that compete, an event both regions *)
(* hear and one that only `aux` hears.                                       *)
EXTENDS Statechart

CONSTANTS P, C, D, Q, X, Y, body, aux, step, leave, reset, turn

MCRegions == <<body, aux>>
MCRegionOf == [s \in State |-> IF s \in {X, Y} THEN aux ELSE body]
MCParent == [s \in State |-> IF s \in {C, D} THEN P ELSE NULL]
MCInitialChild == [s \in State |-> IF s = P THEN C ELSE NULL]
MCInitial == [r \in Range(MCRegions) |-> IF r = body THEN P ELSE X]

rule(e, s, t, p, f) == [event |-> e, source |-> s, target |-> t, priority |-> p, filtered |-> f]
MCTransitions ==
  << rule(reset, NULL, P, 0, FALSE), rule(reset, C, D, 1, FALSE),
     rule(step, P, P, 0, FALSE), rule(leave, P, Q, 0, FALSE),
     rule(step, C, D, 1, TRUE), rule(leave, Q, D, 0, FALSE),
     rule(turn, X, Y, 0, TRUE), rule(leave, Y, X, 0, FALSE) >>
MCWatchers == <<[state |-> P, event |-> leave], [state |-> C, event |-> step]>>
=============================================================================
