------------------------------ MODULE CallDesk ------------------------------
(***************************************************************************)
(* run_recommend and run_scoring: trade calls from candidate to outcome,   *)
(* next to the operator's kill switch and pause.                           *)
(*                                                                         *)
(* The scheduler runs its jobs one after the other, so one desk does all   *)
(* of it; the operator's commands come in between any two awaits.  Time is *)
(* counted in the hours of the recommend job.  A call is broadcast through *)
(* the notifier, under its call_id.                                        *)
(***************************************************************************)
EXTENDS Naturals, FiniteSets, SequencesExt

CONSTANTS
  Symbols,
  Narrative, NoNarrative,   \* Narrative[s]: assign_narratives(s)[0], if any
  MaxHour,                  \* bound: hours in a behaviour
  Day,                      \* Day[h]: the UTC date of hour h
  Horizon,                  \* run_scoring's max_age, in hours (15 days)
  MaxCalls,                 \* at most so many calls in a run (3)
  Top,                      \* at most so many candidates (hot_tickers' 10)
  PaperModes,               \* settings.paper_trade may be any of these
  PauseModes,               \* of "none", "broadcast", "full": those the operator sets
  MaxFaults,                \* bound: exceptions and crashes in a behaviour
  NoKey

Hours == 1 .. MaxHour

ASSUME BoundsAssumption ==
  /\ MaxHour \in Nat \ {0} /\ Horizon \in Nat
  /\ MaxCalls \in Nat \ {0} /\ Top \in Nat /\ MaxFaults \in Nat
ASSUME ModesAssumption ==
  PaperModes \subseteq BOOLEAN /\ PauseModes \subseteq {"none", "broadcast", "full"}

\* A call is graded days after its date, never on it.
ASSUME HorizonAssumption ==
  \A g, h \in Hours : Day[g] = Day[h] => h - g < Horizon

\* Mutant of CallId: ids are not told apart by date.
CallIdUndated(h, symbol, seq) == <<Day[1], symbol, seq>>

\* CALL-<date>-<symbol>-<seq>
CallId(h, symbol, seq) == <<Day[h], symbol, seq>>
Keys == {CallId(h, s, n) : h \in Hours, s \in Symbols, n \in 1 .. MaxCalls}

ASSUME NoKeyAssumption == NoKey \notin Keys

VARIABLES
  \* the database
  killed, pause,       \* system_flags
  paper,               \* settings.paper_trade
  rec,                 \* recommendations: state, and the hour of issued_at
  outcomes,            \* how many outcome rows a call has
  claims, delivered,   \* the notifier's ledger and the channel
  \* the process
  call,                \* the desk's notifier call
  desk,                \* where run_recommend is
  hour, ran,           \* the time; the job has run in this hour
  faults,
  \* history
  afterKill            \* claims made since the kill switch was engaged

flags == <<killed, pause, paper>>
book == <<rec, outcomes>>
ledger == <<claims, delivered, call>>
clock == <<hour, ran>>
vars == <<flags, book, ledger, desk, clock, faults, afterKill>>

N == INSTANCE Notifier WITH Senders <- {"desk"}

Evals == [symbol : Symbols, passed : BOOLEAN, id : Keys \cup {NoKey}]
Away == [pc |-> "idle", ranked |-> <<>>, seq |-> 0, evals |-> <<>>, may |-> FALSE]

TypeOK ==
  /\ N!TypeOK
  /\ killed \in BOOLEAN /\ paper \in PaperModes
  /\ pause \in {"none", "broadcast", "full"}
  /\ rec \in [Keys -> [state : {"absent", "candidate", "live", "closed"},
                       issued : 0 .. MaxHour]]
  /\ outcomes \in [Keys -> Nat]
  /\ desk \in [pc : {"idle", "gates", "save", "broadcast", "sending", "live",
                     "pass"},
               ranked : Seq(Symbols), seq : 0 .. MaxCalls, evals : Seq(Evals),
               may : BOOLEAN]
  /\ hour \in Hours /\ ran \in BOOLEAN
  /\ faults \in 0 .. MaxFaults
  /\ afterKill \in Nat

Init ==
  /\ N!Init
  /\ killed = FALSE /\ pause = "none" /\ paper \in PaperModes
  /\ rec = [k \in Keys |-> [state |-> "absent", issued |-> 0]]
  /\ outcomes = [k \in Keys |-> 0]
  /\ desk = Away
  /\ hour = 1 /\ ran = FALSE
  /\ faults = 0
  /\ afterKill = 0

-----------------------------------------------------------------------------
\* The operator: /kill, /unkill, /pause, /pause full, /resume.
Kill ==
  /\ ~killed
  /\ killed' = TRUE /\ afterKill' = 0
  /\ UNCHANGED <<pause, paper, book, ledger, desk, clock, faults>>

Unkill ==
  /\ killed
  /\ killed' = FALSE /\ afterKill' = 0
  /\ UNCHANGED <<pause, paper, book, ledger, desk, clock, faults>>

SetPause(mode) ==
  /\ pause # mode
  /\ pause' = mode
  /\ UNCHANGED <<killed, paper, book, ledger, desk, clock, faults, afterKill>>

-----------------------------------------------------------------------------
\* Mutant of MayStart: the job does not look at the kill switch.
MayAlwaysStart == TRUE

\* The job looks at the kill switch once, at its start.  A read that fails
\* counts as killed.
MayStart == ~killed

\* What is hot and in which order is the Analyzer's; after a restart it may know
\* of nothing.
StartRun ==
  /\ desk = Away /\ ~ran
  /\ ran' = TRUE
  /\ \/ UNCHANGED desk
     \/ /\ MayStart
        /\ \E ranked \in {r \in BoundedSeq(Symbols, Top) : IsInjective(r)} :
             desk' = [Away EXCEPT !.pc = "gates", !.ranked = ranked]
  /\ UNCHANGED <<flags, book, ledger, hour, faults, afterKill>>

LiveSymbols == {k[2] : k \in {j \in Keys : rec[j].state = "live"}}

\* The calls the run has found so far, and their narratives.
Proposed == {e \in ToSet(desk.evals) : e.passed}

\* Mutant of SelectedNarratives: they are not kept.
SelectedForgotten == {}
SelectedNarratives == {Narrative[e.symbol] : e \in Proposed} \ {NoNarrative}

\* Mutant of Passes: no stacking gate.
PassesStacked(symbol) == Narrative[symbol] \notin SelectedNarratives

\* The gates that depend on the calls found before: stacking (live_symbols is
\* read once, but nobody else makes a call live) and correlation.
Passes(symbol) ==
  /\ symbol \notin LiveSymbols \cup {e.symbol : e \in Proposed}
  /\ Narrative[symbol] \notin SelectedNarratives

Judged(eval) ==
  [desk EXCEPT !.ranked = Tail(@), !.evals = Append(@, eval),
               !.seq = IF eval.passed THEN @ + 1 ELSE @]

\* recommend(): the next symbol of the ranking goes through the gates, while the
\* run has found fewer than MaxCalls calls.  The gates that look at the market
\* and at the mention may refuse it, whatever the others say.
Judge ==
  LET symbol == Head(desk.ranked) IN
  /\ desk.pc = "gates"
  /\ desk.ranked # <<>> /\ desk.seq < MaxCalls
  /\ \/ desk' = Judged([symbol |-> symbol, passed |-> FALSE, id |-> NoKey])
     \/ /\ Passes(symbol)
        /\ desk' = Judged([symbol |-> symbol, passed |-> TRUE,
                           id |-> CallId(hour, symbol, desk.seq + 1)])
  /\ UNCHANGED <<flags, book, ledger, clock, faults, afterKill>>

\* get_pause, after the market data: only now is it decided whether this run
\* broadcasts.  A read that fails counts as a full pause.
ReadPause ==
  /\ desk.pc = "gates"
  /\ desk.ranked = <<>> \/ desk.seq = MaxCalls
  /\ \E seen \in {pause, "full"} :
       desk' = [Away EXCEPT !.pc = "save", !.evals = desk.evals,
                            !.may = seen = "none"]
  /\ UNCHANGED <<flags, book, ledger, clock, faults, afterKill>>

Current == Head(desk.evals)
NextEval == desk' = [desk EXCEPT !.pc = "save", !.evals = Tail(@)]

\* save_suppressed: gate evaluations only, which no job reads.
SaveSuppressed ==
  /\ desk.pc = "save" /\ desk.evals # <<>>
  /\ ~Current.passed
  /\ NextEval
  /\ UNCHANGED <<flags, book, ledger, clock, faults, afterKill>>

\* save_recommendation: idempotent on call_id.  If the row is there, it stays
\* as it is, and the gate evaluations are not written either.
SaveRec ==
  LET k == Current.id IN
  /\ desk.pc = "save" /\ desk.evals # <<>>
  /\ Current.passed
  /\ rec' = IF rec[k].state # "absent" THEN rec
            ELSE [rec EXCEPT ![k] = [state |-> "candidate", issued |-> hour]]
  /\ desk' = [desk EXCEPT !.pc = IF paper THEN "live"
                                  ELSE IF desk.may THEN "broadcast" ELSE "pass"]
  /\ UNCHANGED <<flags, outcomes, ledger, clock, faults, afterKill>>

\* A call that is not to be broadcast stays a candidate.
PassOver ==
  /\ desk.pc = "pass"
  /\ NextEval
  /\ UNCHANGED <<flags, book, ledger, clock, faults, afterKill>>

\* Mutant of Broadcast: a claim that is refused passes for a broadcast.
BroadcastPresumed ==
  LET k == Current.id IN
  /\ desk.pc = "broadcast"
  /\ \/ /\ N!ClaimSend("desk", k)
        /\ desk' = [desk EXCEPT !.pc = "sending"]
     \/ /\ ~N!Claimable(k)
        /\ desk' = [desk EXCEPT !.pc = "live"]
        /\ UNCHANGED ledger
  /\ UNCHANGED <<flags, book, clock, faults, afterKill>>

\* broadcast_call: the message has the prices of this run, even where an earlier
\* one saved the row.
Broadcast ==
  LET k == Current.id IN
  /\ desk.pc = "broadcast"
  /\ \/ /\ N!ClaimSend("desk", k)
        /\ desk' = [desk EXCEPT !.pc = "sending"]
        /\ afterKill' = IF killed THEN afterKill + 1 ELSE afterKill
     \/ /\ ~N!Claimable(k)
        /\ NextEval
        /\ UNCHANGED <<ledger, afterKill>>
  /\ UNCHANGED <<flags, book, clock, faults>>

TelegramAnswers ==
  /\ N!SendMarkdown("desk") \/ N!ParseError("desk") \/ N!SendPlain("desk")
  /\ UNCHANGED <<flags, book, desk, clock, faults, afterKill>>

MarkSent ==
  /\ N!MarkSent("desk")
  /\ desk' = [desk EXCEPT !.pc = "live"]
  /\ UNCHANGED <<flags, book, clock, faults, afterKill>>

\* mark_live: after the broadcast, in a commit of its own; unconditional.
MarkLive ==
  /\ desk.pc = "live"
  /\ rec' = [rec EXCEPT ![Current.id].state = "live"]
  /\ NextEval
  /\ UNCHANGED <<flags, outcomes, ledger, clock, faults, afterKill>>

EndRun ==
  /\ desk.pc = "save" /\ desk.evals = <<>>
  /\ desk' = Away
  /\ UNCHANGED <<flags, book, ledger, clock, faults, afterKill>>

-----------------------------------------------------------------------------
\* run_scoring of one call that is due and whose bars resolve.  An outcome row
\* that exists (unique on the recommendation) ends close_recommendation early.
Due(k) == rec[k].state = "live" /\ hour - rec[k].issued >= Horizon

Close(k) ==
  /\ desk = Away
  /\ Due(k)
  /\ outcomes[k] = 0
  /\ outcomes' = [outcomes EXCEPT ![k] = 1]
  /\ rec' = [rec EXCEPT ![k].state = "closed"]
  /\ UNCHANGED <<flags, ledger, desk, clock, faults, afterKill>>

\* The job is not due again before its interval has passed.
Tick ==
  /\ desk = Away
  /\ hour < MaxHour
  /\ hour' = hour + 1 /\ ran' = FALSE
  /\ UNCHANGED <<flags, book, ledger, desk, faults, afterKill>>

\* An await raises: the scheduler logs it and counts the job as run.
Raises ==
  /\ desk # Away
  /\ faults < MaxFaults
  /\ faults' = faults + 1
  /\ \/ call["desk"] = N!Idle /\ UNCHANGED ledger
     \/ N!SendRaises("desk")
     \/ N!MarkRaises("desk")
  /\ desk' = Away
  /\ UNCHANGED <<flags, book, clock, afterKill>>

\* The process restarts; its scheduler has not run anything yet.
Crash ==
  /\ faults < MaxFaults
  /\ faults' = faults + 1
  /\ N!Crash
  /\ desk' = Away
  /\ ran' = FALSE
  /\ UNCHANGED <<flags, book, hour, afterKill>>

Work ==
  \/ Judge \/ ReadPause \/ SaveSuppressed \/ SaveRec \/ PassOver \/ Broadcast
  \/ TelegramAnswers \/ MarkSent \/ MarkLive \/ EndRun

Next ==
  \/ Kill \/ Unkill \/ \E mode \in PauseModes : SetPause(mode)
  \/ StartRun \/ Work
  \/ \E k \in Keys : Close(k)
  \/ Tick \/ Raises \/ Crash

Spec == Init /\ [][Next]_vars

-----------------------------------------------------------------------------
\* The desk holds at most one live call per symbol, through pauses, failed runs
\* and restarts: what the stacking gate (gates.py:96) is for.
OneLiveCallPerSymbol ==
  \A j, k \in Keys :
    rec[j].state = "live" /\ rec[k].state = "live" /\ j[2] = k[2] => j = k

\* The calls a run has still to deal with: of this date, numbered upwards, each of
\* another symbol, none of which the desk holds live.
PlanIsSound ==
  /\ \A e \in Proposed :
       /\ \E n \in 1 .. MaxCalls : e.id = CallId(hour, e.symbol, n)
       /\ desk.pc = "gates" => e.id[3] <= desk.seq
  /\ \A i, j \in DOMAIN desk.evals :
       desk.evals[i].passed /\ desk.evals[j].passed /\ i < j =>
         /\ desk.evals[i].id[3] < desk.evals[j].id[3]
         /\ desk.evals[i].symbol # desk.evals[j].symbol
  /\ \A e \in Proposed : e.symbol \notin LiveSymbols

\* The call at hand has its row; the desk is inside the notifier only to send it,
\* and makes it live only when its message is recorded, or on paper.
CallAtHand ==
  /\ desk.pc \in {"broadcast", "sending", "live", "pass"} =>
       /\ desk.evals # <<>> /\ Current.passed
       /\ rec[Current.id].state # "absent"
  /\ IF desk.pc = "sending" THEN call["desk"].key = Current.id
                             ELSE call["desk"] = N!Idle
  /\ desk.pc = "live" /\ ~paper => claims[Current.id] = "sent"

\* A row is of the date of its id, and an outcome comes a horizon later.
OutcomesAreLate ==
  \A k \in Keys :
    /\ rec[k].state # "absent" =>
         rec[k].issued \in 1 .. hour /\ Day[rec[k].issued] = k[1]
    /\ outcomes[k] > 0 =>
         /\ outcomes[k] = 1 /\ rec[k].state = "closed"
         /\ hour - rec[k].issued >= Horizon

\* Each claim since the kill has used up a number of the run under way.
KillIsCounted ==
  /\ ~killed \/ desk.pc = "gates" => afterKill = 0
  /\ afterKill <= MaxCalls
  /\ \A i \in DOMAIN desk.evals :
       desk.evals[i].passed =>
         \/ afterKill < desk.evals[i].id[3]
         \/ i = 1 /\ desk.pc \in {"sending", "live"}
            /\ afterKill = desk.evals[i].id[3]

\* The book is well-typed and holds one live call per symbol.  The rest of it is
\* what the run under way has to keep for that, and for the properties below.
BookInv ==
  /\ TypeOK /\ N!IInv
  /\ OneLiveCallPerSymbol /\ OutcomesAreLate
  /\ PlanIsSound /\ CallAtHand /\ KillIsCounted

\* Live means public: unless it trades on paper, the desk tracks and grades
\* only calls whose message is in the channel, once, and recorded so.
LiveCallIsPublic ==
  ~paper => \A k \in Keys :
    rec[k].state \in {"live", "closed"} => claims[k] = "sent" /\ delivered[k] = 1

\* Whatever the ranking, a run proposes each symbol and each narrative once,
\* and nothing the desk already holds (gates 11 and 12).
RunIsSpread ==
  \A i, j \in DOMAIN desk.evals :
    LET a == desk.evals[i]
        b == desk.evals[j] IN
    a.passed /\ b.passed /\ i # j =>
      /\ a.symbol # b.symbol /\ a.id # b.id
      /\ Narrative[a.symbol] = Narrative[b.symbol]
           => Narrative[a.symbol] = NoNarrative

\* An outcome is final.  mark_live is unconditional, so this rests on call ids
\* that carry the date and on grading that never falls on that date.
ClosedForGood ==
  [][\A k \in Keys : outcomes[k] = 1 => rec'[k].state = "closed"]_vars

\* After /kill, no more than the calls of the one run under way still go out.
KillStopsTheNextRun == afterKill <= MaxCalls
=============================================================================
