------------------------------ MODULE MCSpine ------------------------------
(***************************************************************************)
(* Small instances of Spine for TLC.                                       *)
(***************************************************************************)
EXTENDS Spine

CONSTANTS p1, p2

Take(symbol, contract, stance, sure, loud) ==
  [symbol |-> symbol, contract |-> contract, stance |-> stance,
   sure |-> sure, loud |-> loud]

\* The same author turns from long to short on a name, three days later: exactly
\* at the lookback of the instance.
TwoPosts == {p1, p2}
SameAuthor == [p \in TwoPosts |-> "ann"]
ThreeDaysApart == [p \in TwoPosts |-> IF p = p1 THEN 1 ELSE 4]

\* The earlier take may be read as confident, as a guess, or not at all; the
\* later one is on the share, quietly, and on an option, loudly: two alert keys,
\* one reversal key.
MayTurnAround ==
  [p \in TwoPosts |->
     IF p = p1 THEN {<<Take("NVDA", "share", "bullish", TRUE, FALSE)>>,
                     <<Take("NVDA", "share", "bullish", FALSE, FALSE)>>, <<>>}
     ELSE {<<Take("NVDA", "share", "bearish", TRUE, FALSE),
             Take("NVDA", "call", "bearish", TRUE, TRUE)>>}]

LongCalls == {"none", "long"}
AnyTask == Permutations(Tasks)
=============================================================================
