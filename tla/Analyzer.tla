------------------------------ MODULE Analyzer ------------------------------
(***************************************************************************)
(* The standing Analyzer: the credibility-weighted moving sums of stance   *)
(* per symbol, and who contributed to them.  In memory, fed one mention at *)
(* a time in the order posts are processed, which is not the order they    *)
(* were written: a poll of X answers newest first.                         *)
(*                                                                         *)
(* Time is counted in half-lives.  A sum that fades is not divided: it     *)
(* counts halves from then on, quarters, and so on (halved), so that it    *)
(* stays a whole number however long it fades.                             *)
(***************************************************************************)
EXTENDS Integers, FiniteSets, SequencesExt

CONSTANTS
  Symbols,
  MaxContributors    \* what a symbol's list of contributors is cut to (50)

ASSUME AnalyzerAssumption == MaxContributors \in Nat \ {0}

VARIABLES
  mood,              \* mood[s]: a, b, q and last_ts of _SymState; ~known: none yet.
                     \* a and b are in units of 2 ^ -halved, q in those of 4 ^ -halved
  contributors,      \* contributors[s]: the mentions kept, oldest arrival first
  fed                \* history: the mentions ingested since the start

memory == <<mood, contributors, fed>>

NoMood == [known |-> FALSE, a |-> 0, b |-> 0, q |-> 0, halved |-> 0, last |-> 0]

AnalyzerInit ==
  /\ mood = [s \in Symbols |-> NoMood]
  /\ contributors = [s \in Symbols |-> <<>>]
  /\ fed = <<>>

\* The process starts again: nothing of it is stored.
Forget ==
  /\ mood' = [s \in Symbols |-> NoMood]
  /\ contributors' = [s \in Symbols |-> <<>>]
  /\ fed' = <<>>

-----------------------------------------------------------------------------
\* Time passes for a late mention as if it came with the last one: the clamp.
Elapsed(from, to) == IF to > from THEN to - from ELSE 0

Faded(st, dt) == [st EXCEPT !.halved = @ + dt]

Sign(stance) ==
  CASE stance = "bullish" -> 1 [] stance = "bearish" -> -1 [] OTHER -> 0

\* What a mention weighs, in the unit of the sums it is added to.
Weight(m) == m.credibility * m.confidence
With(st, m) ==
  LET w == Weight(m) * 2 ^ st.halved IN
  [known |-> TRUE, a |-> st.a + w * Sign(m.stance), b |-> st.b + w,
   q |-> st.q + w * w, halved |-> st.halved, last |-> m.ts]

\* Mutant of Updated: the clock of the symbol never goes back, so a late
\* mention counts as if it were as fresh as the last one.
UpdatedForward(st, m) ==
  LET fresh == With(IF st.known THEN Faded(st, Elapsed(st.last, m.ts)) ELSE st, m) IN
  IF st.known /\ st.last > m.ts THEN [fresh EXCEPT !.last = st.last] ELSE fresh

\* SentimentAggregator.update; last_ts takes the time of the mention, also when
\* that is earlier than it was.
Updated(st, m) == With(IF st.known THEN Faded(st, Elapsed(st.last, m.ts)) ELSE st, m)

\* SentimentAggregator.read: the sums as they stand at now.
Read(s, now) == Faded(mood[s], Elapsed(mood[s].last, now))

\* The sums of all symbols after some mentions, one after the other.
Moods(before, ms) ==
  LET after[n \in 0 .. Len(ms)] ==
        IF n = 0 THEN before
        ELSE [after[n - 1] EXCEPT ![ms[n].symbol] = Updated(@, ms[n])] IN
  after[Len(ms)]

\* Who said what.
Voice(m) ==
  [author |-> m.author, sign |-> Sign(m.stance), conf |-> m.confidence, ts |-> m.ts]

\* Mutant of LastOf: a full list takes no more.
FirstOf(seq, n) == IF Len(seq) > n THEN SubSeq(seq, 1, n) ELSE seq

LastOf(seq, n) == IF Len(seq) > n THEN SubSeq(seq, Len(seq) - n + 1, Len(seq)) ELSE seq

\* The lists of contributors after some mentions: each is put at the end of its
\* symbol's, which is cut if it has got too long.
Voices(before, ms) ==
  LET after[n \in 0 .. Len(ms)] ==
        IF n = 0 THEN before
        ELSE [after[n - 1] EXCEPT ![ms[n].symbol] =
                LastOf(Append(@, Voice(ms[n])), MaxContributors)] IN
  after[Len(ms)]

\* Analyzer.ingest of the mentions of one post, a sequence.
Ingest(ms) ==
  /\ mood' = Moods(mood, ms)
  /\ contributors' = Voices(contributors, ms)
  /\ fed' = fed \o ms

-----------------------------------------------------------------------------
\* The mentions of a symbol so far, by their place in the order of arrival.
Heard(s) == {i \in DOMAIN fed : fed[i].symbol = s}
InOrder(s) == \A i, j \in Heard(s) : i < j => fed[i].ts <= fed[j].ts

\* The moving sum as it is defined over event time, whatever the order of
\* arrival: every mention weighs what it weighed, halved for each half-life.
Total(s, weigh(_), now) ==
  SumFunctionOnSet(
    [i \in Heard(s) |->
       weigh(fed[i]) * 2 ^ (Read(s, now).halved - Elapsed(fed[i].ts, now))], Heard(s))
SignedWeight(m) == Weight(m) * Sign(m.stance)

\* A symbol has sums once it was heard of, and its clock is that of the last mention.
ClockIsOfTheLast ==
  \A s \in Symbols :
    IF mood[s].known THEN \E i \in Heard(s) : /\ \A j \in Heard(s) : j <= i
                                             /\ mood[s].last = fed[i].ts
    ELSE Heard(s) = {} /\ mood[s] = NoMood

\* What the Analyzer says of a symbol is what the posts said: exactly, when its
\* mentions came in the order they were written; a mention that came late may
\* make the older ones fade too fast, but none ever counts for more than it does
\* by the definition.
MoodIsOfThePostsAt(now) ==
  \A s \in Symbols :
    LET r == Read(s, now) IN
    /\ \A i \in Heard(s) : Elapsed(fed[i].ts, now) <= r.halved
    /\ r.b <= Total(s, Weight, now)
    /\ InOrder(s) /\ (\A i \in Heard(s) : fed[i].ts <= now) =>
         r.a = Total(s, SignedWeight, now) /\ r.b = Total(s, Weight, now)

\* The effective number of voices, b squared over q, is what the sizing of a
\* consensus rests on: never less than one and never more than were heard.
VoicesAreCounted ==
  \A s \in Symbols :
    LET m == mood[s] IN
    /\ m.q <= m.b * m.b
    /\ m.b * m.b <= Cardinality(Heard(s)) * m.q

Least(x, y) == IF x < y THEN x ELSE y

\* How many mentions of the symbol came after i.
HeardAfter(s, i) == Cardinality({j \in Heard(s) : i < j})

\* A call's result is shared among the contributors its symbol has when the call is
\* made, and of each account the last of them counts (score/credibility.py:31).
\* They are those that came last, as many as the list may hold, in the order they
\* came: whoever spoke since the process began is among them, with the last that
\* was heard of him, until as many mentions have come after.
ContributorsAreTheLast ==
  \A s \in Symbols :
    LET kept == contributors[s] IN
    /\ Len(kept) = Least(Cardinality(Heard(s)), MaxContributors)
    /\ \A i \in Heard(s) : HeardAfter(s, i) < MaxContributors =>
         kept[Len(kept) - HeardAfter(s, i)] = Voice(fed[i])
=============================================================================
