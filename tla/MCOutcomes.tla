----------------------------- MODULE MCOutcomes -----------------------------
(***************************************************************************)
(* Small instances of Outcomes for TLC: horizons of one and two sessions   *)
(* stand for 1, 3 and 5, three sessions for a call's ten.                  *)
(***************************************************************************)
EXTENDS Outcomes

OneAuthor == [m \in Mentions |-> "sage"]
OneSymbol == [m \in Mentions |-> "NVDA"]
\* A quiet bar, one that reaches the target, a wild one.
SomeTouch == {{}, {"target"}, {"stop", "target"}}
NoTouch == {{}}
=============================================================================
