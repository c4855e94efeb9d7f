----------------------------- MODULE Credibility -----------------------------
(***************************************************************************)
(* The feedback loop: once a day, run_refresh_bars fetches the bars and    *)
(* corporate actions of the live calls; run_scoring closes calls on them,  *)
(* shares their results among the accounts that spoke (attribute_call),    *)
(* recomputes the credibility of all of them (recompute_credibility) and   *)
(* appends it to account_scores, where run_outcomes writes as well and     *)
(* get_credibility reads as of the time of a post.                         *)
(*                                                                         *)
(* A result is the benchmark-neutral R, a whole number here; shares are in *)
(* Units of it, fine enough to be divided by every sum of weights.  The    *)
(* score itself (powers, decay, shrinkage) is abstracted to what it is a   *)
(* function of: how many results an account has, how many of them it won,  *)
(* and what they add up to.  What run_outcomes writes is in Outcomes; here *)
(* it is a row that says Evidence.  A call stands for its symbol, as the   *)
(* desk holds one per symbol (CallDesk).                                   *)
(***************************************************************************)
EXTENDS Integers, FiniteSets, SequencesExt

CONSTANTS
  Calls, Accounts,
  Voices,          \* the lists of contributions a call may be saved with
  Results,         \* the results a call may have
  Unit,
  DueOn,           \* DueOn[c]: the day call c is old enough to be scored
  MinResults,      \* n_min: with fewer results an account has the floor (2)
  Floor, Evidence,
  MaxDay,          \* bound: days
  MaxFaults        \* bound: exceptions and crashes

\* What an account said last of a call, which is all that counts (attribute_call), and
\* what some of them say all together.
LastWord(voices, a) == voices[SelectLastInSeq(voices, LAMBDA v : v.account = a)]
Total(voices, S) == SumFunctionOnSet([a \in S |-> LastWord(voices, a).weight], S)

ASSUME BoundsAssumption == MaxDay \in Nat \ {0} /\ MaxFaults \in Nat

\* A voice has a weight, and no sum of weights leaves a rest of Unit.
ASSUME SharesAssumption ==
  /\ IsFiniteSet(Accounts) /\ IsFiniteSet(Calls) /\ Results \subseteq Int /\ Unit \in Nat
  /\ Voices \subseteq Seq([account : Accounts, stance : {-1, 0, 1}, weight : Nat \ {0}])
  /\ \A voices \in Voices : \A S \in SUBSET {v.account : v \in ToSet(voices)} :
       S # {} => \E k \in 0 .. Unit : Unit = k * Total(voices, S)

VARIABLES
  today,
  direction,       \* of each call, 1 or -1
  contribs,        \* its sources, in the order the Analyzer heard them
  tape,            \* of each call: the days its bars and its ledger were fetched
  call,            \* recommendations and outcomes: state, and result once closed
  rows,            \* rows[a]: a's account_scores, in the order of their inserts
  job,             \* the jobs of the tick under way: its time, and where it is
  ran,             \* today's tick has been
  faults,
  owed             \* history: a run died between its closings and its rows

loopVars == <<today, direction, contribs, tape, call, rows, job, ran, faults, owed>>

Unfetched == [bars |-> 0, ledger |-> 0]
Live == [state |-> "live", result |-> 0, at |-> 0, tape |-> Unfetched]
Idle == [pc |-> "idle", now |-> 0, due |-> {}, closed |-> {}, scores |-> <<>>, todo |-> {}]

LoopInit ==
  /\ today = 1
  /\ direction \in [Calls -> {1, -1}]
  /\ contribs \in [Calls -> Voices]
  /\ tape = [c \in Calls |-> Unfetched]
  /\ call = [c \in Calls |-> Live]
  /\ rows = [a \in Accounts |-> <<>>]
  /\ job = Idle /\ ran = FALSE
  /\ faults = 0
  /\ owed = FALSE

NextDay ==
  /\ today < MaxDay
  /\ today' = today + 1 /\ ran' = FALSE
  /\ UNCHANGED <<direction, contribs, tape, call, rows, job, faults, owed>>

-----------------------------------------------------------------------------
\* attribute_call: who spoke, however often.
Speakers(c) == {v.account : v \in ToSet(contribs[c])}

\* Who did not say what the call says, opposed it: neutral voices too.
Aligned(c) == {a \in Speakers(c) : LastWord(contribs[c], a).stance = direction[c]}
Opposed(c) == Speakers(c) \ Aligned(c)

\* Mutant of Share: one sum for both sides.
ShareOfAll(c, a) ==
  LET sign == IF a \in Aligned(c) THEN 1 ELSE -1 IN
  (sign * call[c].result * Unit * LastWord(contribs[c], a).weight)
    \div Total(contribs[c], Speakers(c))

\* Each side shares the result, or its inverse, by weight.
Share(c, a) ==
  LET side == IF a \in Aligned(c) THEN Aligned(c) ELSE Opposed(c)
      sign == IF a \in Aligned(c) THEN 1 ELSE -1 IN
  (sign * call[c].result * Unit * LastWord(contribs[c], a).weight)
    \div Total(contribs[c], side)

\* What the score of an account is computed from, given the closed calls.
Scored(closed, a) ==
  LET mine == {c \in closed : a \in Speakers(c)}
      sum == SumFunctionOnSet([c \in mine |-> Share(c, a)], mine) IN
  IF Cardinality(mine) < MinResults \/ sum <= 0 THEN Floor
  ELSE [n |-> Cardinality(mine), wins |-> Cardinality({c \in mine : Share(c, a) > 0}),
        sum |-> sum]

Closed == {c \in Calls : call[c].state = "closed"}

\* Mutant of Recomputed: only the calls of this run, as a delta would be.
RecomputedFrom(run) ==
  LET accounts == UNION {Speakers(c) : c \in run} IN
  [a \in accounts |-> Scored(run, a)]

\* closed_calls_for_credibility and recompute_credibility: all the calls closed
\* so far, by whatever run.
Recomputed(run) ==
  LET accounts == UNION {Speakers(c) : c \in Closed} IN
  [a \in accounts |-> Scored(Closed, a)]

-----------------------------------------------------------------------------
Still == {c \in Calls : call[c].state = "live"}

\* A tick has one time for all its jobs, however long they take; no two ticks have
\* the same.
StartTick ==
  /\ job = Idle /\ ~ran
  /\ ran' = TRUE
  /\ job' = [Idle EXCEPT !.pc = "bars", !.now = today, !.todo = Still]
  /\ UNCHANGED <<today, direction, contribs, tape, call, rows, faults, owed>>

\* run_refresh_bars: of one symbol after the other the bars and then the ledger,
\* each fetched and saved in a commit of its own.
SaveBars(c) ==
  /\ job.pc = "bars" /\ c \in job.todo
  /\ tape' = [tape EXCEPT ![c].bars = today]
  /\ job' = [job EXCEPT !.pc = "ledger", !.due = {c}]
  /\ UNCHANGED <<today, direction, contribs, call, rows, ran, faults, owed>>

SaveAdjustments(c) ==
  /\ job.pc = "ledger" /\ c \in job.due
  /\ tape' = [tape EXCEPT ![c].ledger = today]
  /\ job' = [job EXCEPT !.pc = "bars", !.due = {}, !.todo = @ \ {c}]
  /\ UNCHANGED <<today, direction, contribs, call, rows, ran, faults, owed>>

\* due_for_scoring
StartScoring ==
  /\ job.pc = "bars" /\ job.todo = {}
  /\ job' = [job EXCEPT !.pc = "close", !.due = {c \in Still : DueOn[c] <= job.now}]
  /\ UNCHANGED <<today, direction, contribs, tape, call, rows, ran, faults, owed>>

\* run_scoring, one call: its bars are missing or do not decide it yet, or it is
\* closed, in a commit of its own.
CloseCall(c) ==
  /\ job.pc = "close" /\ c \in job.due
  /\ \/ /\ job' = [job EXCEPT !.due = @ \ {c}]
        /\ UNCHANGED call
     \/ \E r \in Results :
          /\ call' = [call EXCEPT ![c] = [state |-> "closed", result |-> r,
                                          at |-> job.now, tape |-> tape[c]]]
          /\ job' = [job EXCEPT !.due = @ \ {c}, !.closed = @ \cup {c}]
  /\ UNCHANGED <<today, direction, contribs, tape, rows, ran, faults, owed>>

\* A run that closed nothing leaves credibility alone.
Recompute ==
  /\ job.pc = "close" /\ job.due = {}
  /\ job' = IF job.closed = {} THEN [job EXCEPT !.pc = "scored"]
             ELSE LET scores == Recomputed(job.closed) IN
                  [job EXCEPT !.pc = "rows", !.scores = scores, !.todo = DOMAIN scores]
  /\ UNCHANGED <<today, direction, contribs, tape, call, rows, ran, faults, owed>>

\* insert_account_score, as of the time of the tick.
Insert(a, of) ==
  /\ rows' = [rows EXCEPT ![a] = Append(@, [as_of |-> job.now, of |-> of])]
  /\ UNCHANGED <<today, direction, contribs, tape, call, ran, faults>>

SaveScore(a) ==
  /\ job.pc = "rows" /\ a \in job.todo
  /\ Insert(a, job.scores[a])
  /\ job' = [job EXCEPT !.todo = @ \ {a}]
  /\ UNCHANGED owed

ScoresSaved ==
  /\ job.pc = "rows" /\ job.todo = {}
  /\ job' = [job EXCEPT !.pc = "scored"]
  /\ owed' = FALSE
  /\ UNCHANGED <<today, direction, contribs, tape, call, rows, ran, faults>>

\* The outcome job of the same tick: refresh_account_credibility, for the
\* accounts with evidence.
StartRefresh ==
  /\ job.pc = "scored"
  /\ \E S \in SUBSET Accounts :
       job' = [Idle EXCEPT !.pc = "refresh", !.now = job.now, !.todo = S]
  /\ UNCHANGED <<today, direction, contribs, tape, call, rows, ran, faults, owed>>

Refresh(a) ==
  /\ job.pc = "refresh" /\ a \in job.todo
  /\ Insert(a, Evidence)
  /\ job' = [job EXCEPT !.todo = @ \ {a}]
  /\ UNCHANGED owed

EndTick ==
  /\ job.pc = "refresh" /\ job.todo = {}
  /\ job' = Idle
  /\ UNCHANGED <<today, direction, contribs, tape, call, rows, ran, faults, owed>>

\* Mutant of Fails: a refresh that fails is logged, and the calls are scored.
FailsAndScores ==
  /\ job.pc \in {"bars", "ledger", "close", "rows"}
  /\ faults < MaxFaults
  /\ faults' = faults + 1
  /\ owed' = (owed \/ job.closed # {})
  /\ job' \in {IF job.pc \in {"bars", "ledger"}
                THEN [job EXCEPT !.pc = "bars", !.todo = {}]
                ELSE [Idle EXCEPT !.pc = "scored", !.now = job.now], Idle}
  /\ UNCHANGED <<today, direction, contribs, tape, call, rows, ran>>

\* An await of the refresh or of run_scoring raises: the job is over, and the
\* scheduler goes on to the next one; or the process dies.
Fails ==
  /\ job.pc \in {"bars", "ledger", "close", "rows"}
  /\ faults < MaxFaults
  /\ faults' = faults + 1
  /\ owed' = (owed \/ job.closed # {})
  /\ job' \in {[Idle EXCEPT !.pc = "scored", !.now = job.now], Idle}
  /\ UNCHANGED <<today, direction, contribs, tape, call, rows, ran>>

LoopNext ==
  \/ NextDay
  \/ StartTick \/ StartScoring \/ Recompute \/ ScoresSaved \/ StartRefresh \/ EndTick \/ Fails
  \/ \E c \in Calls : SaveBars(c) \/ SaveAdjustments(c) \/ CloseCall(c)
  \/ \E a \in Accounts : SaveScore(a) \/ Refresh(a)

LoopSpec == LoopInit /\ [][LoopNext]_loopVars

-----------------------------------------------------------------------------
\* get_credibility: the latest row as of t.  Of several with one time, which the
\* jobs of one tick write, the database may give any; with none, it is the tier.
Credibility(a, t) ==
  LET before == {r \in ToSet(rows[a]) : r.as_of <= t} IN
  {r \in before : \A q \in before : q.as_of <= r.as_of}

Scores == {Floor} \cup [n : Nat, wins : Nat, sum : Int]

LoopTypeOK ==
  /\ today \in 1 .. MaxDay
  /\ direction \in [Calls -> {1, -1}] /\ contribs \in [Calls -> Voices]
  /\ tape \in [Calls -> [bars : 0 .. today, ledger : 0 .. today]]
  /\ call \in [Calls -> [state : {"live", "closed"}, result : Results \cup {0},
                         at : 0 .. today, tape : [bars : 0 .. today, ledger : 0 .. today]]]
  /\ rows \in [Accounts -> Seq([as_of : 1 .. today, of : Scores \cup {Evidence}])]
  /\ job \in [pc : {"idle", "bars", "ledger", "close", "rows", "scored", "refresh"},
               now : 0 .. today, due : SUBSET Calls, closed : SUBSET Closed,
               scores : {job.scores}, todo : SUBSET (Calls \cup Accounts)]
  /\ \E S \in SUBSET Accounts : job.scores \in [S -> Scores]
  /\ job.todo \subseteq IF job.pc \in {"bars", "ledger"} THEN Calls ELSE Accounts
  /\ faults \in 0 .. MaxFaults /\ owed \in BOOLEAN /\ ran \in BOOLEAN

\* "Aligned accounts share the outcome; opposed accounts share its inverse"
\* (credibility.py:23): the accounts that spoke for a call get what it made, and
\* those that did not get what it lost, no more and no less, however often each
\* of them spoke and changed its mind.
SharesAddUp ==
  \A c \in Closed :
    LET gets(S) == SumFunctionOnSet([a \in S |-> Share(c, a)], S) IN
    /\ Aligned(c) # {} => gets(Aligned(c)) = call[c].result * Unit
    /\ Opposed(c) # {} => gets(Opposed(c)) = 0 - call[c].result * Unit

\* A result is final, so no call is closed on an old tape: its bars and its splits
\* and dividends had both been fetched by the run that closed it, whichever
\* symbol's fetch failed or run died before.
ClosedOnFreshTape ==
  \A c \in Closed : call[c].tape.bars >= call[c].at /\ call[c].tape.ledger >= call[c].at

\* What the tick under way has fetched is of today or of a day since it began.
FetchedByTick ==
  /\ job.pc \in {"bars", "ledger"} => \A c \in Still \ job.todo :
       tape[c].bars >= job.now /\ tape[c].ledger >= job.now
  /\ job.pc = "ledger" => \A c \in job.due : tape[c].bars >= job.now
  /\ job.pc = "close" => \A c \in job.due :
       call[c].state = "live" /\ tape[c].bars >= job.now /\ tape[c].ledger >= job.now

\* No two ticks have one time: a tick finds only earlier rows, a day without one too.
RowsAreOfTicks ==
  /\ job.pc # "idle" => job.now > 0
  /\ ~ran => job.now < today
  /\ \A a \in Accounts : \A r \in ToSet(rows[a]) :
       /\ ~ran => r.as_of < today
       /\ job.pc # "idle" => r.as_of <= job.now
       /\ job.pc \in {"bars", "ledger", "close"} => r.as_of < job.now

\* The scores a run is writing are those of all closed calls, everybody who spoke in
\* one has such a score, and of the time of the tick there is no other.
ScoresInHand ==
  /\ job.pc = "rows" =>
       /\ job.closed # {} /\ job.scores = Recomputed(job.closed)
       /\ job.todo \subseteq DOMAIN job.scores
       /\ \A a \in DOMAIN job.scores \ job.todo :
            \E r \in ToSet(rows[a]) : r.as_of = job.now
       /\ \A a \in Accounts : \A r \in ToSet(rows[a]) :
            r.as_of = job.now /\ r.of # Evidence => r.of = job.scores[a]
  /\ \A a \in Accounts : \A r \in ToSet(rows[a]) :
       r.of # Evidence => \E c \in Closed : a \in Speakers(c)

\* A score a post is weighed with counts every call closed so far.
Whole ==
  \A a \in Accounts : \A r \in Credibility(a, today) :
    r.of # Evidence => r.of = Scored(Closed, a)

\* The only ticks that leave it otherwise are those that have closed calls.
WholeBetweenRuns ==
  ~owed /\ (job.closed = {} \/ job.pc \in {"scored", "refresh"}) => Whole

\* Calls, tapes, rows and tick are well-typed, results are of fresh tapes, the shares
\* of a call add up, and a run goes about the rows as it should.
ResultInv ==
  /\ LoopTypeOK /\ ClosedOnFreshTape /\ SharesAddUp
  /\ FetchedByTick /\ RowsAreOfTicks /\ ScoresInHand /\ WholeBetweenRuns

\* "never an incremental delta" (credibility.py:5): between ticks, a score a post
\* is weighed with counts every call closed so far, those of a run that died
\* before it could count them included, as soon as another run has closed one.
CredibilityIsWhole == job = Idle /\ ~owed => Whole
=============================================================================
