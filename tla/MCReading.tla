----------------------------- MODULE MCReading -----------------------------
(***************************************************************************)
(* Small instances of Reading for TLC.                                     *)
(***************************************************************************)
EXTENDS Reading

CONSTANTS coin, squeeze, chart, loop, listener

Quiet == [question |-> FALSE, negated |-> FALSE, sarcasm |-> FALSE,
          bull |-> 0, bear |-> 0, lean |-> "none", committed |-> 0, hedged |-> 0]
Blank == [options |-> {}, tags |-> {}, words |-> {}, aliases |-> <<>>,
          finance |-> FALSE, etf |-> FALSE, onchain |-> FALSE,
          long |-> FALSE, media |-> <<>>]
Meta(author, ts) == [author |-> author, ts |-> ts, credibility |-> 1]

\* "$BTC spot ETF, bitcoin to the moon" with a screenshot, two options on SPY
\* that are not a buy, and two pictures with the word ALL as a cashtag.
ThreeTexts ==
  [p \in {coin, squeeze, chart} |->
    CASE p = coin ->
         [Blank EXCEPT !.tags = {"BTC"}, !.etf = TRUE, !.long = TRUE,
                       !.aliases = <<[symbol |-> "BTC", class |-> "crypto",
                                      indirect |-> FALSE]>>,
                       !.media = <<"screenshot">>]
           @@ [Quiet EXCEPT !.bull = 1] @@ Meta("ann", 1)
      [] p = squeeze ->
         [Blank EXCEPT !.options = {[root |-> "SPY", contract |-> "600C"],
                                    [root |-> "SPY", contract |-> "610C"]},
                       !.tags = {"SPY"}, !.finance = TRUE]
           @@ [Quiet EXCEPT !.bull = 1, !.negated = TRUE, !.committed = 2]
           @@ Meta("bob", 2)
      [] OTHER ->
         [Blank EXCEPT !.tags = {"ALL"}, !.words = {"ALL"},
                       !.media = <<"screenshot", "levels">>]
           @@ Quiet @@ Meta("bob", 0)]

Item(symbol, confidence, stance) ==
  [symbol |-> symbol, class |-> "equity", wellFormed |-> TRUE,
   confidence |-> confidence, stance |-> stance]
SomeInferences == {<<Item("BTC", 95, "neutral"), Item("SPY", 40, "neutral")>>}
SomeImages == {<<Item("SPY", 90, "bearish")>>, <<>>}
SomeStances ==
  {[stance |-> "bullish", confidence |-> 80, conviction |-> 90]}
=============================================================================
