----------------------------- MODULE MCSequence -----------------------------
(* Sequence for TLC: every sheet of up to MaxDuration with one trigger and   *)
(* one span anywhere, every end, with and without history, and one sheet     *)
(* with two overlapping spans.                                               *)
EXTENDS Sequence

CONSTANT MaxDuration

Times == 0 .. MaxDuration
SmallSheets ==
  [duration : 1 .. MaxDuration, end : {"finish", "loop", "hold"}, loop_count : {0, 2},
   history : BOOLEAN, triggers : {<<t>> : t \in Times},
   spans : {<<s>> : s \in [begin : Times, end : Times]}]

Overlapping ==
  [duration : {2}, end : {"finish"}, loop_count : {0}, history : BOOLEAN,
   triggers : {<<0, 2, 1>>},
   spans : {<<[begin |-> 0, end |-> 2], [begin |-> 1, end |-> 1], [begin |-> 1, end |-> 2]>>}]

MCSheets == SmallSheets \cup Overlapping
=============================================================================
