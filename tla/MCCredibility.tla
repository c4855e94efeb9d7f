---------------------------- MODULE MCCredibility ----------------------------
(***************************************************************************)
(* Small instances of Credibility for TLC.                                 *)
(***************************************************************************)
EXTENDS Credibility

CONSTANTS a, b, first, second

Says(account, stance, weight) ==
  [account |-> account, stance |-> stance, weight |-> weight]

\* Both agree; one changes its mind, and they differ; one is neutral; one alone.
Discussions ==
  { <<Says(a, 1, 1), Says(b, 1, 2)>>,
    <<Says(a, 1, 2), Says(b, 1, 1), Says(a, -1, 1)>>,
    <<Says(a, -1, 1), Says(b, 0, 1)>>,
    <<Says(b, 1, 1)>> }

\* The second call is due a day after the first.
DayByDay == [c \in Calls |-> IF c = first THEN 1 ELSE 2]
WinOrLose == {2, -1}
=============================================================================
