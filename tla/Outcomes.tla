------------------------------ MODULE Outcomes ------------------------------
(***************************************************************************)
(* run_outcomes: forward returns of every mention against a benchmark, and *)
(* the grades of the calls authors state.                                  *)
(*                                                                         *)
(* A run lists the mentions without a complete row, fetches the benchmark  *)
(* and then their symbols, each at a moment of its own, upserts the rows   *)
(* and grades the open calls.  The feed grows meanwhile, session by        *)
(* session, and a symbol may skip sessions.  A close is named by its       *)
(* session, so a return is the session it ends with, 0 for none; a bar     *)
(* says which levels of the stated call it touches.  At its end the run    *)
(* folds what the ledger shows of each author into a new credibility row:  *)
(* here the mentions and calls it counts.  Its window (90 days) holds the  *)
(* whole work list (45), so nothing leaves it before it has been counted.  *)
(***************************************************************************)
EXTENDS Naturals, FiniteSets, SequencesExt

CONSTANTS
  Mentions, SymbolOf,    \* the mentions, the symbol of each
  AuthorOf,              \*   and its author's account
  Bench,                 \* the benchmark, no mention's symbol
  Horizons,              \* {1, 3, 5} sessions
  EdgeHorizon,           \* the one that counts for credibility (3)
  CallHorizon,           \* sessions until a stated call times out
  Touches,               \* the sets of levels a bar may touch
  Lookback,              \* days a mention stays on the work list
  MaxDay, MaxFaults      \* bounds: days, failures

ASSUME HorizonsAssumption ==
  EdgeHorizon \in Horizons /\ Horizons \subseteq Nat \ {0} /\ CallHorizon \in Nat \ {0}

ASSUME BoundsAssumption ==
  /\ Touches \subseteq SUBSET {"stop", "target"}
  /\ Lookback \in Nat /\ MaxDay \in Nat \ {0} /\ MaxFaults \in Nat

Symbols == {SymbolOf[m] : m \in Mentions}
Authors == {AuthorOf[m] : m \in Mentions}
Feeds == Symbols \cup {Bench}
Bars == [day : 1 .. MaxDay, touch : SUBSET {"stop", "target"}]
LastHorizon == Max(Horizons)

VARIABLES
  today,
  feed,        \* what the data provider has published, ascending
  posted,      \* the day of each stored mention, 0 while there is none
  rows,        \* mention_outcomes: fwd and bench, all 0 before the first upsert
  grades,      \* explicit_calls of the mention: "none", "open", or its result
  scores,      \* account_scores: the evidence in the latest row of an author
  cached,      \* market_bars under massive-adj
  run,         \* the job: pc, work list, symbols to fetch, bars_by, open calls,
               \*   authors to score
  faults

vars == <<today, feed, posted, rows, grades, scores, cached, run, faults>>

NoReturns == [h \in Horizons |-> 0]
NoRow == [fwd |-> NoReturns, bench |-> NoReturns]
NoBars == [s \in Feeds |-> <<>>]
Resting == [pc |-> "idle", pend |-> {}, todo |-> {}, got |-> NoBars, open |-> {},
            score |-> {}]
Open == [status |-> "open", day |-> 0]
NoEvidence == [events |-> {}, calls |-> {}]
NoCall == [status |-> "none", day |-> 0]

\* A tape is bars of one day after the other.
Ascending(tape) == \A i, j \in DOMAIN tape : i < j => tape[i].day < tape[j].day

TypeOK ==
  /\ today \in 1 .. MaxDay /\ faults \in 0 .. MaxFaults
  /\ {feed, cached} \subseteq [Feeds -> Seq(Bars)]
  /\ \A s \in Feeds : /\ Ascending(feed[s])
                       /\ \A i \in DOMAIN feed[s] : feed[s][i].day <= today
  /\ posted \in [Mentions -> 0 .. today]
  /\ rows \in [Mentions -> [fwd : [Horizons -> 0 .. today],
                            bench : [Horizons -> 0 .. today]]]
  /\ grades \in [Mentions -> [status : {"none", "open", "stop", "target", "timeout"},
                              day : 0 .. today]]
  /\ run \in [pc : {"idle", "fetch", "rows", "calls", "scores"}, pend : SUBSET Mentions,
               todo : SUBSET Feeds, got : [Feeds -> Seq(Bars)], open : SUBSET Mentions,
               score : SUBSET Authors]
  /\ scores \in [Authors -> [events : SUBSET Mentions, calls : SUBSET Mentions]]

Init ==
  /\ today = 1
  /\ feed = NoBars
  /\ posted = [m \in Mentions |-> 0]
  /\ rows = [m \in Mentions |-> NoRow]
  /\ grades = [m \in Mentions |-> NoCall]
  /\ scores = [a \in Authors |-> NoEvidence]
  /\ cached = NoBars
  /\ run = Resting
  /\ faults = 0

-----------------------------------------------------------------------------
\* The world: days pass; a close is published, late perhaps, and a halted
\* symbol has none; a post is stored, and the call scan finds a call in it.
NextDay ==
  /\ today < MaxDay
  /\ today' = today + 1
  /\ UNCHANGED <<feed, posted, rows, grades, scores, cached, run, faults>>

LastDay(tape) == IF tape = <<>> THEN 0 ELSE Last(tape).day

Publish(s) ==
  /\ \E d \in LastDay(feed[s]) + 1 .. today,
        t \in (IF s = Bench THEN {{}} ELSE Touches) :
       /\ s = Bench => d = LastDay(feed[s]) + 1
       /\ feed' = [feed EXCEPT ![s] = Append(@, [day |-> d, touch |-> t])]
  /\ UNCHANGED <<today, posted, rows, grades, scores, cached, run, faults>>

Store(m) ==
  /\ posted[m] = 0
  /\ posted' = [posted EXCEPT ![m] = today]
  /\ UNCHANGED <<today, feed, rows, grades, scores, cached, run, faults>>

SaveCall(m) ==
  /\ run = Resting
  /\ posted[m] # 0 /\ grades[m] = NoCall
  /\ grades' = [grades EXCEPT ![m] = Open]
  /\ UNCHANGED <<today, feed, posted, rows, scores, cached, run, faults>>

-----------------------------------------------------------------------------
\* anchor_index: the first close on or after the date of the post, 0 for none.
AnchorIndex(tape, d) == SelectInSeq(tape, LAMBDA b : b.day >= d)

\* forward_returns, where there is an anchor.
ForwardReturns(tape, d) ==
  LET i == AnchorIndex(tape, d) IN
  [h \in Horizons |-> IF i + h <= Len(tape) THEN tape[i + h].day ELSE 0]

\* Mutant of Graded: the latest bar times out a call that has not had its time.
GradedEarly(tape, d) ==
  LET i == AnchorIndex(tape, d)
      hits == {j \in i + 1 .. Len(tape) : tape[j].touch # {}} IN
  IF hits = {} THEN [status |-> "timeout", day |-> Last(tape).day]
  ELSE [status |-> IF "stop" \in tape[Min(hits)].touch THEN "stop" ELSE "target",
        day |-> tape[Min(hits)].day]

\* stated_call_outcome: the first bar after the anchor, within the horizon,
\* that touches a level; both count as the stop; then the timeout.
Graded(tape, d) ==
  LET i == AnchorIndex(tape, d)
      end == i + CallHorizon
      hits == {j \in i + 1 .. Min({end, Len(tape)}) : tape[j].touch # {}} IN
  IF i = 0 THEN Open
  ELSE IF hits # {}
       THEN [status |-> IF "stop" \in tape[Min(hits)].touch THEN "stop" ELSE "target",
             day |-> tape[Min(hits)].day]
  ELSE IF end <= Len(tape) THEN [status |-> "timeout", day |-> tape[end].day]
  ELSE Open

-----------------------------------------------------------------------------
\* Mutant of NeedsOutcome: a row, complete or not, ends the work.
NeedsFirstOutcome(m) ==
  /\ posted[m] # 0 /\ posted[m] + Lookback >= today
  /\ rows[m].fwd = NoReturns /\ rows[m].bench = NoReturns

\* mentions_needing_outcomes: in the window, and no row or no fwd_5d.
NeedsOutcome(m) ==
  /\ posted[m] # 0 /\ posted[m] + Lookback >= today
  /\ rows[m].fwd[LastHorizon] = 0

\* A run with nothing pending returns at once, its open calls ungraded.
StartRun ==
  /\ run = Resting
  /\ LET pend == {m \in Mentions : NeedsOutcome(m)} IN
     /\ pend # {}
     /\ run' = [Resting EXCEPT !.pc = "fetch", !.pend = pend,
                               !.todo = {Bench} \cup {SymbolOf[m] : m \in pend}]
  /\ UNCHANGED <<today, feed, posted, rows, grades, scores, cached, faults>>

\* The benchmark goes first, then the symbols in their order.
Fetching(s) ==
  /\ run.pc = "fetch" /\ s \in run.todo
  /\ Bench \in run.todo => s = Bench

\* fetch_bars and save_bars, which inserts the bars not there yet.
Fetch(s) ==
  /\ Fetching(s)
  /\ run' = [run EXCEPT !.todo = @ \ {s}, !.got[s] = feed[s]]
  /\ cached' = [cached EXCEPT ![s] = feed[s]]
  /\ UNCHANGED <<today, feed, posted, rows, grades, scores, faults>>

\* fetch_bars fails and there are no bars, or save_bars fails and there are.
FetchFails(s) ==
  /\ Fetching(s)
  /\ faults < MaxFaults
  /\ faults' = faults + 1
  /\ \E tape \in {<<>>, feed[s]} :
       run' = [run EXCEPT !.todo = @ \ {s}, !.got[s] = tape]
  /\ UNCHANGED <<today, feed, posted, rows, grades, scores, cached>>

\* Without bars of the benchmark the rows wait for the next run.
Fetched ==
  /\ run.pc = "fetch" /\ run.todo = {}
  /\ run' = IF run.got[Bench] = <<>>
            THEN [run EXCEPT !.pc = "calls", !.pend = {},
                             !.open = {c \in Mentions : grades[c] = Open}]
            ELSE [run EXCEPT !.pc = "rows"]
  /\ UNCHANGED <<today, feed, posted, rows, grades, scores, cached, faults>>

\* Mutant of Upserted: nobody asks whether the benchmark has an anchor.
UpsertedUnanchored(m) ==
  [fwd |-> ForwardReturns(run.got[SymbolOf[m]], posted[m]),
   bench |-> ForwardReturns(run.got[Bench], posted[m])]

\* upsert_outcome: all returns are written; those of the benchmark only if it
\* has an anchor.
Upserted(m) ==
  LET d == posted[m]  bench == run.got[Bench] IN
  [fwd |-> ForwardReturns(run.got[SymbolOf[m]], d),
   bench |-> IF AnchorIndex(bench, d) = 0 THEN rows[m].bench
             ELSE ForwardReturns(bench, d)]

Upsert(m) ==
  /\ run.pc = "rows" /\ m \in run.pend
  /\ \A n \in run.pend : posted[m] <= posted[n]
  /\ rows' = IF AnchorIndex(run.got[SymbolOf[m]], posted[m]) = 0 THEN rows
             ELSE [rows EXCEPT ![m] = Upserted(m)]
  /\ run' = [run EXCEPT !.pend = @ \ {m}]
  /\ UNCHANGED <<today, feed, posted, grades, scores, cached, faults>>

RowsDone ==
  /\ run.pc = "rows" /\ run.pend = {}
  /\ run' = [run EXCEPT !.pc = "calls", !.open = {c \in Mentions : grades[c] = Open}]
  /\ UNCHANGED <<today, feed, posted, rows, grades, scores, cached, faults>>

\* The bars of this run, or those an earlier one saved.
BarsOf(s) == IF run.got[s] # <<>> THEN run.got[s] ELSE cached[s]

\* One open call: close_call, or it stays open.
Grade(c) ==
  /\ run.pc = "calls" /\ c \in run.open
  /\ grades' = [grades EXCEPT ![c] =
       IF BarsOf(SymbolOf[c]) = <<>> THEN @
       ELSE Graded(BarsOf(SymbolOf[c]), posted[c])]
  /\ run' = [run EXCEPT !.open = @ \ {c}]
  /\ UNCHANGED <<today, feed, posted, rows, scores, cached, faults>>

CallsDone ==
  /\ run.pc = "calls" /\ run.open = {}
  /\ run' = [run EXCEPT !.pc = "scores", !.score = Authors]
  /\ UNCHANGED <<today, feed, posted, rows, grades, scores, cached, faults>>

\* A mention has an edge once its return is there, with or without that of the
\* benchmark to be taken off; a call counts when it is closed.
Edge(m) == rows[m].fwd[EdgeHorizon] # 0
Closed(c) == grades[c] \notin {NoCall, Open}

\* Mutant of Evidence: only rows that are complete count.
EvidenceOfCompleteRows(a) ==
  [events |-> {m \in Mentions : AuthorOf[m] = a /\ rows[m].fwd[LastHorizon] # 0},
   calls |-> {c \in Mentions : AuthorOf[c] = a /\ Closed(c)}]

\* What evidence_credibility blends with the prior of the tier.
Evidence(a) ==
  [events |-> {m \in Mentions : AuthorOf[m] = a /\ Edge(m)},
   calls |-> {c \in Mentions : AuthorOf[c] = a /\ Closed(c)}]

\* refresh_account_credibility: a row for every author the ledger knows of.
Score(a) ==
  /\ run.pc = "scores" /\ a \in run.score
  /\ scores' = [scores EXCEPT ![a] = IF Evidence(a) = NoEvidence THEN @ ELSE Evidence(a)]
  /\ run' = [run EXCEPT !.score = @ \ {a}]
  /\ UNCHANGED <<today, feed, posted, rows, grades, cached, faults>>

EndRun ==
  /\ run.pc = "scores" /\ run.score = {}
  /\ run' = Resting
  /\ UNCHANGED <<today, feed, posted, rows, grades, scores, cached, faults>>

\* A commit raises, or the process dies: what the run has committed stays.
Abandon ==
  /\ run # Resting
  /\ faults < MaxFaults
  /\ faults' = faults + 1
  /\ run' = Resting
  /\ UNCHANGED <<today, feed, posted, rows, grades, scores, cached>>

Work ==
  \/ StartRun \/ Fetched \/ RowsDone \/ CallsDone \/ EndRun
  \/ \E s \in Feeds : Fetch(s)
  \/ \E m \in Mentions : Upsert(m) \/ Grade(m)
  \/ \E a \in Authors : Score(a)

Next ==
  \/ Work \/ Abandon \/ NextDay
  \/ \E s \in Feeds : Publish(s) \/ FetchFails(s)
  \/ \E m \in Mentions : Store(m) \/ SaveCall(m)

Spec == Init /\ [][Next]_vars

\* The scheduler starts the job every six hours, and a run goes on.
FairSpec == Spec /\ WF_vars(Work)

-----------------------------------------------------------------------------
\* Sessions of a symbol from the day of the post, before the given one.
SessionsBefore(tape, d, end) ==
  Cardinality({i \in DOMAIN tape : d <= tape[i].day /\ tape[i].day < end})

\* "fwd[h] is the return to the close h trading days later (None until that bar
\* exists)": whatever had been published when a row was written, and however
\* often it was written, each value is the one the whole tape gives.
ReturnsAreOfTheTape ==
  \A m \in Mentions, h \in Horizons :
    /\ rows[m].fwd[h] # 0 =>
         SessionsBefore(feed[SymbolOf[m]], posted[m], rows[m].fwd[h]) = h
    /\ rows[m].bench[h] # 0 =>
         SessionsBefore(feed[Bench], posted[m], rows[m].bench[h]) = h

\* A grade is the verdict of the whole tape, no matter how much of it the run
\* that gave it could see: no touch comes before it, a bar with both levels is
\* a stop, and a timeout has had all its sessions.
GradesAreOfTheTape ==
  \A c \in Mentions : grades[c].status \in {"stop", "target", "timeout"} =>
    LET tape == feed[SymbolOf[c]]
        n == SessionsBefore(tape, posted[c], grades[c].day)
        bar == CHOOSE b \in ToSet(tape) : b.day = grades[c].day
        later == {b \in ToSet(tape) :
                    b.day < bar.day /\ SessionsBefore(tape, posted[c], b.day) > 0} IN
    /\ n \in 1 .. CallHorizon
    /\ \A b \in later : b.touch = {}
    /\ grades[c].status = "stop" => "stop" \in bar.touch
    /\ grades[c].status = "target" => bar.touch = {"target"}
    /\ grades[c].status = "timeout" => n = CallHorizon /\ bar.touch = {}

\* What a run fetched, and what is cached, is the beginning of what the provider
\* has published; only what is posted has rows and grades; a call the run is to
\* grade is open.
WorkIsInOrder ==
  /\ \A s \in Feeds : IsPrefix(run.got[s], feed[s]) /\ IsPrefix(cached[s], feed[s])
  /\ \A m \in Mentions : posted[m] = 0 => rows[m] = NoRow /\ grades[m] = NoCall
  /\ \A m \in run.pend : posted[m] # 0
  /\ \A c \in run.open : grades[c] = Open

\* A return is the one the feed gives by now, and so is a grade.
Given(tape, d, h, return) ==
  return # 0 => AnchorIndex(tape, d) # 0 /\ return = ForwardReturns(tape, d)[h]

ResultsFitTheFeed ==
  /\ \A m \in Mentions, h \in Horizons :
       /\ Given(feed[SymbolOf[m]], posted[m], h, rows[m].fwd[h])
       /\ Given(feed[Bench], posted[m], h, rows[m].bench[h])
  /\ \A c \in Mentions :
       Closed(c) => grades[c] = Graded(feed[SymbolOf[c]], posted[c])

\* A run has no less of a tape than the row it is about to write over was from.
RunIsNotBehind ==
  \A m \in run.pend, h \in Horizons :
    /\ rows[m].fwd[h] <= LastDay(run.got[SymbolOf[m]]) \/ run.got[SymbolOf[m]] = <<>>
    /\ rows[m].bench[h] <= LastDay(run.got[Bench]) \/ run.got[Bench] = <<>>

\* Tape, rows, grades and run are well-typed, the run goes by what there was to
\* fetch, and what is in the rows and grades is what the whole tape gives.
ResultsAreOfTheTape ==
  /\ TypeOK /\ WorkIsInOrder /\ RunIsNotBehind /\ ResultsFitTheFeed
  /\ ReturnsAreOfTheTape /\ GradesAreOfTheTape

\* No later run changes a return once written or takes it back, none touches a
\* call once graded.
ResultsAreFinal ==
  [][\A m \in Mentions :
       /\ \A h \in Horizons :
            /\ rows[m].fwd[h] # 0 => rows'[m].fwd[h] = rows[m].fwd[h]
            /\ rows[m].bench[h] # 0 => rows'[m].bench[h] = rows[m].bench[h]
       /\ grades[m] \notin {NoCall, Open} => grades'[m] = grades[m]]_vars

\* "a row can be partially complete and is re-completed on later runs": once
\* the closes are there, the row of a mention gets complete, past failed
\* fetches and crashes, if its window does not end before.
RowsComplete ==
  \A m \in Mentions :
    ( /\ posted[m] # 0 /\ AnchorIndex(feed[SymbolOf[m]], posted[m]) # 0
      /\ ForwardReturns(feed[SymbolOf[m]], posted[m])[LastHorizon] # 0
      /\ feed[Bench] # <<>> )
    ~> (rows[m].fwd[LastHorizon] # 0 \/ posted[m] + Lookback < today)

\* Fresh evidence is folded into credibility (jobs.py:217): an edge or a grade in
\* the ledger is counted in a later row of its author, unless the run that put it
\* there failed and left nothing pending that would make another run refresh.
NobodyRefreshes == faults > 0 /\ run = Resting /\ \A n \in Mentions : ~NeedsOutcome(n)

Uncounted(m) ==
  \/ Edge(m) /\ m \notin scores[AuthorOf[m]].events
  \/ Closed(m) /\ m \notin scores[AuthorOf[m]].calls

EvidenceCounts ==
  \A m \in Mentions : Uncounted(m) ~> (~Uncounted(m) \/ NobodyRefreshes)

\* "which came first, their stop, their target, or the timeout?" (jobs.py:197-
\* 198): a call whose sessions are all published is graded.
CallsAreGraded ==
  \A c \in Mentions :
    (grades[c] = Open /\ Graded(feed[SymbolOf[c]], posted[c]) # Open)
      ~> grades[c] # Open
=============================================================================
