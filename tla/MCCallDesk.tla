----------------------------- MODULE MCCallDesk -----------------------------
(***************************************************************************)
(* Small instances of CallDesk for TLC.                                    *)
(***************************************************************************)
EXTENDS CallDesk, TLC

CONSTANTS NVDA, AMD, TSLA

\* Two of the three names are the same trade.
ThreeSymbols == {NVDA, AMD, TSLA}
Themes == [s \in ThreeSymbols |-> IF s = TSLA THEN NoNarrative ELSE "chips"]
\* The two names of one narrative are interchangeable.
Symmetry == Permutations({NVDA, AMD})

\* A date an hour.
OnePerDay == [h \in 1 .. 2 |-> h]
=============================================================================
