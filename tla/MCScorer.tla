------------------------------ MODULE MCScorer ------------------------------
(***************************************************************************)
(* Small instances of Scorer for TLC: prices at, between and beyond the    *)
(* levels of a call with entry 8, stop 4 and target 12.                    *)
(***************************************************************************)
EXTENDS Scorer

Bar(o, h, l, c) ==
  [open |-> o, high |-> h, low |-> l, close |-> c, first |-> "none", invalid |-> FALSE]

AllShapes ==
  { Bar(8, 10, 6, 10), Bar(8, 8, 4, 6), Bar(8, 12, 8, 8), Bar(2, 2, 2, 2),
    Bar(2, 12, 2, 8), Bar(14, 14, 14, 14), Bar(14, 14, 4, 8),
    [Bar(8, 10, 6, 6) EXCEPT !.invalid = TRUE] }
  \cup {[Bar(8, 12, 4, 8) EXCEPT !.first = f] : f \in {"none", "stop", "target"}}
=============================================================================
