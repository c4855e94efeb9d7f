------------------------------- MODULE Scorer -------------------------------
(***************************************************************************)
(* score_call: the result of a call, from the bars after it.               *)
(*                                                                         *)
(* The tape grows bar by bar, and the scorer is asked after each of them.  *)
(* The prices are numbers around the levels of the call, in the shares of  *)
(* the day of issuance; from a two-for-one split on, the tape quotes half  *)
(* of them.  Results are in price per issued share, the code's R times the *)
(* risk, and with the sign of the direction, so that a long and a short    *)
(* read the same.  The ledger holds one split and one dividend at most.    *)
(***************************************************************************)
EXTENDS Integers, Sequences, SequencesExt

CONSTANTS
  Entry, Risk, Reward,   \* the call: its entry, and how far stop and target are
  Horizon,               \* days it is given
  Shapes,                \* the bars there are, in shares of issuance
  Cash,                  \* the dividend, per share of issuance (even)
  SplitDays, DivDays, TerminalDays,   \* when they may be, 0 for never
  TerminalPrice,         \* per share of issuance (even)
  MaxBars                \* bound: bars on the tape

ASSUME CallAssumption ==
  /\ Entry \in Int /\ Horizon \in Nat
  /\ Risk \in Nat \ {0} /\ Reward \in Nat \ {0}

\* A split halves what there is per share.
ASSUME EventsAssumption ==
  /\ SplitDays \cup DivDays \cup TerminalDays \subseteq Nat
  /\ Cash \in Int /\ 2 * (Cash \div 2) = Cash
  /\ TerminalPrice \in Int /\ 2 * (TerminalPrice \div 2) = TerminalPrice

\* Open and close lie between low and high.
Sound(bar) == /\ bar.low <= bar.open /\ bar.open <= bar.high
              /\ bar.low <= bar.close /\ bar.close <= bar.high

ASSUME ShapesAssumption ==
  /\ Shapes \subseteq [open : Int, high : Int, low : Int, close : Int,
                       first : {"none", "stop", "target"}, invalid : BOOLEAN]
  /\ \A shape \in Shapes : Sound(shape)

VARIABLES
  direction,             \* of the call, issued on day 1
  split, div, terminal,  \* the days of the events, 0 for never
  quotes,                \* the bars so far
  score                  \* what the scorer says of them

scoreVars == <<direction, split, div, terminal, quotes, score>>

\* The bar of day 1 is the last one at or before t0: the fill is the next.
Issued == 1

-----------------------------------------------------------------------------
Long == direction = "long"

\* What the tape shows of a price: a split before issuance is in the levels of
\* the call already.
Halved(amount, s, ts) ==
  IF Issued < s /\ s <= ts THEN amount \div 2 ELSE amount
Quoted(price, ts) == Halved(price, split, ts)

\* A short sees the market upside down.
Mirror(shape) ==
  IF Long THEN shape
  ELSE [shape EXCEPT !.open = 2 * Entry - @, !.close = 2 * Entry - @,
                     !.high = 2 * Entry - shape.low, !.low = 2 * Entry - shape.high]

-----------------------------------------------------------------------------
\* Mutant of Scale: the split counts from the day after.
ScaleLate(s, ts) == IF s # 0 /\ s < ts THEN 2 ELSE 1

\* apply_split, for every split of the ledger up to the bar, however old.
Scale(s, ts) == IF s # 0 /\ s <= ts THEN 2 ELSE 1

\* _Plan.r times the risk: entry, stop, target and risk are divided by the ratio.
R(scale, price) == IF Long THEN price * scale - Entry ELSE Entry - price * scale

StopR == 0 - Risk
TargetR == Reward
BestPrice(bar) == IF Long THEN bar.high ELSE bar.low
WorstPrice(bar) == IF Long THEN bar.low ELSE bar.high

\* Mutant of Window: the horizon is left to the caller.
WindowOpen(bars) == bars

\* The bars within the horizon, which the tape begins with, or the fill alone.
Window(bars) ==
  SubSeq(bars, 1, Max({1} \cup {i \in DOMAIN bars : bars[i].ts <= Issued + Horizon}))

\* Mutant of Rules: the target is looked at before the stop.
RulesTargetFirst(bar, k, s) ==
  << [if |-> bar.ts = terminal, reason |-> "terminal",
      r |-> R(k, Halved(TerminalPrice, s, bar.ts))],
     [if |-> R(k, BestPrice(bar)) >= TargetR, reason |-> "target", r |-> TargetR],
     [if |-> R(k, WorstPrice(bar)) <= StopR, reason |-> "stop", r |-> StopR],
     [if |-> bar.invalid, reason |-> "invalidated", r |-> R(k, bar.close)] >>

\* What closes the call on a bar, in the order the loop asks: the terminal
\* event, a gap, both levels with sub-bars that show the target first, the
\* stop, the target, the invalidation.
Rules(bar, k, s) ==
  LET open == R(k, bar.open)
      stopped == R(k, WorstPrice(bar)) <= StopR
      reached == R(k, BestPrice(bar)) >= TargetR IN
  << [if |-> bar.ts = terminal, reason |-> "terminal",
      r |-> R(k, Halved(TerminalPrice, s, bar.ts))],
     [if |-> open <= StopR, reason |-> "stop", r |-> open],
     [if |-> open >= TargetR, reason |-> "target", r |-> open],
     [if |-> stopped /\ reached /\ bar.first = "target", reason |-> "target", r |-> TargetR],
     [if |-> stopped, reason |-> "stop", r |-> StopR],
     [if |-> reached, reason |-> "target", r |-> TargetR],
     [if |-> bar.invalid, reason |-> "invalidated", r |-> R(k, bar.close)] >>

\* The first rule that closes the call on a bar, with the split s in the ledger;
\* 0 if none does.
RulesOn(bar, s) == Rules(bar, Scale(s, bar.ts), s)
ClosedBy(bar, s) == SelectInSeq(RulesOn(bar, s), LAMBDA rule : rule.if)

\* _dividend_credit: after the fill, up to the close.
Credited(from, to) == div # 0 /\ from < div /\ div <= to

\* The cash is per share of its own day; the risk it is divided by is rescaled.
Paid(s) == Halved(Cash, s, div)

Dividend(from, to, s) ==
  IF Credited(from, to)
  THEN (IF Long THEN 1 ELSE 0 - 1) * Paid(s) * Scale(s, to)
  ELSE 0

Pending == [reason |-> "pending", r |-> 0, ts |-> 0, mfe |-> 0, mae |-> 0]

\* The bar the loop stops at: the first that closes the call, or the last, where it
\* expires.
End(window, s) ==
  Min({Len(window)} \cup {i \in DOMAIN window : ClosedBy(window[i], s) # 0})

Close(bar, s) ==
  LET rules == RulesOn(bar, s)
      n == ClosedBy(bar, s) IN
  IF n = 0 THEN [reason |-> "expiry", r |-> R(Scale(s, bar.ts), bar.close)]
  ELSE [reason |-> rules[n].reason, r |-> rules[n].r]

Outcome(window, s) ==
  LET end == End(window, s)
      bar == window[end]
      close == Close(bar, s) IN
  [reason |-> close.reason, ts |-> bar.ts,
   r |-> close.r + Dividend(window[1].ts, bar.ts, s),
   mfe |-> Max({R(Scale(s, window[i].ts), BestPrice(window[i])) : i \in 1 .. end}),
   mae |-> Min({R(Scale(s, window[i].ts), WorstPrice(window[i])) : i \in 1 .. end})]

\* score_call over the bars after the signal bar.
ScoreCall(bars, s) == IF bars = <<>> THEN Pending ELSE Outcome(Window(bars), s)

-----------------------------------------------------------------------------
ScoreInit ==
  /\ direction \in {"long", "short"}
  /\ split \in SplitDays /\ div \in DivDays /\ terminal \in TerminalDays
  /\ quotes = <<>> /\ score = Pending

\* The next bar, a day or two after the one before.
Grow ==
  /\ Len(quotes) < MaxBars
  /\ \E shape \in Shapes, gap \in {1, 2} :
       LET ts == gap + (IF quotes = <<>> THEN Issued ELSE Last(quotes).ts)
           bar == Mirror(shape)
           longer == Append(quotes,
             [ts |-> ts, first |-> bar.first, invalid |-> bar.invalid,
              open |-> Quoted(bar.open, ts), high |-> Quoted(bar.high, ts),
              low |-> Quoted(bar.low, ts), close |-> Quoted(bar.close, ts)]) IN
       /\ quotes' = longer
       /\ score' = ScoreCall(longer, split)
  /\ UNCHANGED <<direction, split, div, terminal>>

ScoreSpec == ScoreInit /\ [][Grow]_scoreVars

-----------------------------------------------------------------------------
\* A tape has sound bars of one day after the other, from the signal on.
Quotes == [ts : Nat, first : {"none", "stop", "target"}, invalid : BOOLEAN,
           open : Int, high : Int, low : Int, close : Int]
IsTape(bars) ==
  /\ bars \in Seq(Quotes)
  /\ \A i \in DOMAIN bars : Sound(bars[i]) /\ Issued < bars[i].ts
  /\ \A i, j \in DOMAIN bars : i < j => bars[i].ts < bars[j].ts

ScoreTypeOK ==
  /\ direction \in {"long", "short"}
  /\ split \in SplitDays /\ div \in DivDays /\ terminal \in TerminalDays
  /\ IsTape(quotes)

\* Whether a bar touches a level.
TouchesALevel(bar) ==
  \/ R(Scale(split, bar.ts), WorstPrice(bar)) <= StopR
  \/ R(Scale(split, bar.ts), BestPrice(bar)) >= TargetR

\* "single bar tagging both stop and target resolves stop-first (conservative)"
\* (INV-5): a target is only ever granted when no earlier bar touched a level
\* and, on its own bar, the stop was not touched, or the open or the sub-bars
\* show that it came later; a stop never costs less than the risk; a call
\* expires only if nothing was touched at all.
VerdictIsConservative ==
  LET bar == CHOOSE b \in ToSet(quotes) : b.ts = score.ts
      k == Scale(split, bar.ts) IN
  (quotes # <<>> /\ div = 0) =>
    /\ \A b \in ToSet(Window(quotes)) : b.ts < score.ts => ~TouchesALevel(b)
    /\ score.reason = "target" =>
         /\ score.r >= TargetR
         /\ \/ R(k, WorstPrice(bar)) > StopR
            \/ R(k, bar.open) >= TargetR
            \/ bar.first = "target" /\ R(k, bar.open) > StopR
    /\ score.reason = "stop" => score.r <= StopR
    /\ score.reason = "expiry" => ~TouchesALevel(bar)

\* "mae_R <= realized_R <= mfe_R": a result is a price the call has seen, so no
\* fill is better or worse than the market was.
WithinExcursions ==
  (div = 0 /\ score.reason \notin {"pending", "terminal"}) =>
    score.mae <= score.r /\ score.r <= score.mfe

\* Conservative, and a price that was there, of what the scorer says of the tape.
ResultIsFair ==
  /\ ScoreTypeOK /\ score = ScoreCall(quotes, split)
  /\ VerdictIsConservative /\ WithinExcursions

\* No look-ahead: once a call is decided, or its horizon is over, later bars
\* change nothing of its result.
Settled ==
  /\ quotes # <<>>
  /\ score.reason # "expiry" \/ Last(quotes).ts >= Issued + Horizon
ResultIsFinal == [][Settled => score' = score]_scoreVars

\* The tape as it would be without the split.
Restated ==
  [i \in DOMAIN quotes |->
     IF Issued < split /\ split <= quotes[i].ts
     THEN [quotes[i] EXCEPT !.open = 2 * @, !.high = 2 * @, !.low = 2 * @, !.close = 2 * @]
     ELSE quotes[i]]

\* "corporate actions (replayed forward over as-of-issuance unadjusted bars)"
\* (core.py:4-6): a call through which a stock splits has the result it would
\* have had without the split.  Dividends before the split are left aside: the
\* code divides their cash by the rescaled risk.
SplitInvariance ==
  (quotes # <<>> /\ Issued < split /\ (div = 0 \/ split <= div))
    => score = ScoreCall(Restated, 0)

\* The same sentence of core.py:4-6, for a split before issuance: the levels
\* are in the new shares, so the ledger's entry must not touch the plan.
OldSplitIsSettled == split = Issued => score = ScoreCall(quotes, 0)
=============================================================================
