# Formal models of the equities narrative tracker

TLA+ modules for the core of the narrative tracker (`src/src/narrative_tracker/`,
below `nt/`), the TLC instances that check them, and theorems about them that
TLAPS proves. Every definition is translated from the source; `PROJECT.json`
maps it to the lines it stands for.

The program is one asyncio process. It polls X handles and public Telegram
channels for posts of watched authors, finds the ticker mentions in them, sends
alerts to a private Telegram channel, proposes trade calls, grades its own calls
and the authors', and broadcasts digests and reports. Everything durable is in
one relational database. The rule it is built around is its own: *a missed alert
beats a duplicate*.

## 1. Inventory

| Component | State | Operations | What makes it hard |
|---|---|---|---|
| Alert ledger and notifier: `notify/telegram_bot.py`, `db/idempotency.py` | `sent_messages` (key, pending / sent), the channel | `claim_send`, `_safe_send`, `mark_sent`, behind `send_alert`, `send_reversal`, `broadcast_call`, `broadcast_text` | several coroutines race for one key; a commit or a request fails or times out after it took effect; death between claim and record |
| Processing spine: `worker.py` (`process_post`), `db/repo.py` | `posts`, `ticker_mentions`, `post_engagement`, `post_conviction`, the audit log; the Analyzer in memory | store once, alert on every sighting, reversal detection | two tasks with the same post; about ten awaits, each of which may raise or be the last one; reads that are old when used |
| Ingestion and watchlist: `ingest/composite.py`, `buffer.py`, `polling_client.py`, `telegram_channels.py`, `worker.py` loops, `admin/service.py` | `accounts`, per-source `since`, an unbounded queue, a bounded buffer | `/addsource`, `/rmsource`, poll, pump, ingest loop, process loop, channel-post listener, stop | hand-overs, backpressure, a dead provider, cancellation, the lookback after a restart, posts of a source removed meanwhile |
| Recommendation desk: `jobs.py` (`run_recommend`, `run_scoring`), `recommend/*`, `db/recs.py`, `ops/killswitch.py` | `recommendations`, `recommendation_outcomes`, `system_flags` | gates, save, broadcast, mark live, close; `/kill`, `/pause` | save, broadcast and mark-live are three commits; the flags are read once, early |
| Explicit-call scan: `jobs.py` (`run_call_scan`), `db/calls.py` | `explicit_calls`, `call_scan_cursor` | batch, extract, save, announce, cursor | one post of a batch fails; death between save and announcement; a rescan of what was done |
| Event study, grading, credibility: `jobs.py` (`run_outcomes`), `analyze/outcomes.py`, `db/outcomes.py`, `score/credibility.py` | `mention_outcomes`, `explicit_calls`, `market_bars`, `account_scores` | fetch, upsert, grade, refresh | the tape grows during a run; a work list that decides who is ever looked at again |
| Outcome scorer: `scorer/core.py` | none (a function) | `score_call` | gaps, both levels in one bar, splits, dividends, the window |
| Scheduler and cadence broadcasts: `scheduler.py`, `jobs.py`, `db/ops_stats.py` | stamps in memory, editions in the ledger | tick; digest, weekly report, ops line, pulse | slow ticks, restarts that forget the stamps, one-shot keys, windows |
| Extraction: `extract/*`, `ops/llm_budget.py` | the image cache, the daily LLM budget, the image budget | patterns, names, relevance gate, inference, image reading, stance | order of stages, one stage that raises, mentions shared between posts, midnight |
| Analyzer: `analyze/analyzer.py`, `sentiment.py`, `narratives.py` | decayed sums and contributors in memory | ingest, query | late posts move the clock back; a list that is cut |
| Credibility loop: `jobs.py` (`run_refresh_bars`, `run_scoring`), `score/credibility.py`, `db/bars.py` | `market_bars`, `adjustments`, `recommendation_outcomes`, `account_scores` | refresh, close, attribute, recompute, write | four kinds of commits in one job; two jobs of one tick write the same rows |
| Admin commands: `admin/*` | `accounts`, `watched_tickers`, flags | add, remove, list; the flags | commands between two awaits |
| Degraded modes, cost budget: `ops/*` | counters | charge, allow | called by tests only |
| Market data: `enrich/*` | none | fetch | HTTP and parsing |
| Analytics, reports, dashboard, settings, schema | none of their own | queries, rendering | not hard: read-only |

The flow between them:

```
operator -> /addsource /rmsource
   |
pollers -> queue -> ingest loop -> buffer -> process loop -> process_post --+
   (Ingest)                    channel-post listener ------> (Spine;        |
                                       extraction, Analyzer:  Reading)      |
                                                                            v
scheduler -> digest, weekly, ops, pulse (Cadence) -----------------> notifier -> channel
          -> call scan (CallScan) ---- explicit_calls ---+   ------> (Notifier
          -> run_outcomes (Outcomes) <-------------------+            implements
          -> run_recommend (CallDesk) -----------------------------> Delivery)
          -> run_refresh_bars, run_scoring (Scorer, Credibility) -> account_scores
operator -> /kill /pause (CallDesk, Cadence)
```

All components share the database and the notifier; the loops, the listener and
the scheduler run at the same time in one event loop, so the only interleaving
is at awaits, and an action of these models is one await that changes something
or reads what a later step depends on. The scheduler runs its jobs one after the
other. What makes each component correct:

* **Notifier** - no key twice in the channel; a row says no more than happened;
  a claim is for good; no call hangs.
* **Spine** - one-time work at most once; an audit row means the whole job was
  done; an undisturbed sighting alerts everything, whatever happened before;
  reversals are announced if and only if a stored take says so.
* **Ingest** - no hand-over of the pipes loses or reorders a post; posts come through; a
  source removed stays removed.
* **Reading** - what the text names survives an LLM that is down; a symbol is mentioned
  once; budgets are exact; a conviction is the post's own; the Analyzer's sums and lists
  of contributors are those of the posts.
* **Credibility** - no call is closed on an old tape; the shares of a result add up;
  a score counts every closed call.
* **CallDesk** - one live call per name; live means public; a run is spread over
  names and narratives; an outcome is final; `/kill` bites.
* **CallScan** - announced means tracked; scanned means complete; graded is
  final; every readable post is scanned.
* **Outcomes** - results are those of the whole tape whatever part of it a run
  saw, final, complete in the end, and counted.
* **Scorer** - never a better result than could be had; no look-ahead; splits do
  not matter.
* **Cadence** - an edition held back stays back; the weekly report catches up;
  silence is told; one bad job delays no other.

`PROJECT.json` lists the hazards (40, each at its line) with the properties that
cover them, or the reason why none does.

## 2. Modules

One module per component, an `MC` module for its instances. A model keeps the
control of the code (awaits, guards, early returns, error paths and their order)
and abstracts its data: a post, a key or a name is a model value, a text is not
there at all.

**Delivery** is the abstract specification: each key goes from unsent to claimed
to delivered, or is lost, and lost is for good. **Notifier** is the code: `claims`
is the `sent_messages` table, `delivered` counts what the channel shows, `call`
is where each sender is between `claim_send` and `mark_sent`. `ClaimAnswerLost` is a
commit whose answer never comes; `SendRaises` covers refusal and timeout, with
the message shown or not; `ParseError` leads to the plain text. The refinement
mapping `Outbox` reads the abstract state off rows, channel and calls.

**Spine** composes Notifier (`INSTANCE ... WITH Senders <- Tasks`). `InsertPost` is
`insert_post_if_new`; `Extract` picks one of the readings the pipeline may give
(the LLM stages are not deterministic); `StoreMentions` to `SaveConviction` are the
commits of the new sighting; `SendAlert` to `SendReversal` the loops over the
mentions; `RecordAudit` ends it. `Raises` cuts a sighting short at any await,
`Crash` all of them. `LastStances` is the SQL of `last_stance`: ties between rows of
one post are left open.

**CallDesk** composes Notifier too. `Judge` takes the next name of the ranking
through the gates: those that depend on what the run has found so far are `Passes`,
what the market gates say of a name is a choice. The flags are read where the code
reads them (`StartRun`, `ReadPause`), `SaveRec`, `Broadcast`, `MarkLive` are the three
commits; `Close` is `close_recommendation`.

**CallScan** composes Notifier. `Unscanned` is the batch query, `Poison` the posts
the extractor never manages, `Abandon` what a failed run leaves.

**Ingest**: a source is a feed of numbered posts, `account` its row. `GetOrCreate` is
called by the operator's `AddSource`, by `Process` for the author of a post, by the
listener and by the seeds of a start; only `RemoveSource` changes a row that is
there. `ReadWatchlist` begins a poller's cycle. `PollX` and `PollTg` differ as the
pollers do: X answers newest first and `since` moves after the last post, a channel
is sorted and `since` moves before the first; `Reach` is how far a poll gets, and
`missed` keeps what it did not reach. `TakeFromStream`, `PutInBuffer`, `GetFromBuffer`,
`Process` are the hand-overs; `Gone` is what cancellation leaves. `Stages` lists where
a post of a source may be on its way, from `process_post` back to the poller, and the
history variable `handled` how far the process loop is through a source's posts. `Listen`
is the channel-post listener, which goes to `process_post` past all of these.

**Reading** opens what Spine leaves open: which mentions a post has. A text is a record
of what the patterns look at. `Take` is the stages without an await (options,
cashtags, names: `Found`); `Relevance`, `Infer`, the image actions and `Stance` are one
await each, answered, failed (`NoAnswer`) or, for images, raising (`Refused`,
`LookFails`). `AddUnseen` is the `seen` set of the code: of one symbol the first mention
stays. `Items`, `Labels` and `Names` are what the schemas of the answers let through
(`ReadingAssumption`); a conviction of 0 is one, no row is `NoRow`. `Consume` and
`Denied` are the daily budget. Only the process loop (`Loop`) has the images of a post
(`MediaFor`): the listener's posts have none. A mention off an image is an object in the
cache, so its conviction is in the shared `conviction`; all others have the conviction
of their own reading. `Feed` gives the mentions to **Analyzer**, which
counts time in half-lives. A sum that fades is not divided there: `halved` counts its
half-lives, and what is added later is added in the finer unit (`Faded`, `With`), so
that the code's sums of decaying reals are whole numbers, exact for any length of time.

**Credibility** is the daily job that fetches, closes and attributes. `SaveBars` and
`SaveAdjustments` are the two commits per symbol of `run_refresh_bars`, `CloseCall` one
call of `run_scoring`, `Share` is `attribute_call`, `SaveScore` a row of
`account_scores`; `Refresh` is the other writer of that table, `run_outcomes`. `Fails` ends
the job at any of its awaits. What a score depends on (how many results, how many
won, their sum) stands for its number. `job` is the tick under way; the names of the
module that every module has are `LoopInit`, `LoopNext`, `LoopSpec`, as one module of
proofs extends this one and Cadence.

**Outcomes**: a close is named by its session, so "the right return" is "the right
session". `StartRun` is the early return on an empty work list, `Fetch` saves bars
as `save_bars` does, `Upsert`, `Grade` and `Score` are the three phases.

**Scorer**: `ScoreCall` is `score_call` as a function of the bars. `Rules` lists what
closes a call on a bar in the order the loop asks, `ClosedBy` is the first of them
that does; `End` is the bar the loop stops at, `Close` and `Dividend` what it returns
there. The tape grows bar by bar, and the scorer is asked after each. (`ScoreInit`,
`ScoreSpec`: one module of proofs extends this one and Outcomes.)

**Cadence** uses of the notifier only what Delivery promises. `Wake` to `Deliver`
are one `Scheduler.tick` and the job whose turn it is; `AskKill` and `AskPause` are
the two flag reads; `Pass` lets time go by, within a slow tick too. `held`, `calm`,
`open` are history variables.

## 3. Runs

Twelve, each a question of its own. States are distinct states.

| Run | Question | States |
|---|---|---|
| `notifier` | three senders, three keys: is the ledger a lock that survives everything? | 1.3 thousand |
| `spine` | two tasks, two posts of an author who turns around exactly at the lookback, one fault anywhere, explicit calls that open and close | 722 thousand |
| `reading` | the process loop and the listener, three posts, two of them with one image, three LLM calls a day, a midnight, a restart | 61 thousand |
| `desk` | three names, two of one narrative; kill, pause, resume, one fault; live and on paper | 713 thousand |
| `ingest` | a seeded handle and an administered channel, a buffer of one, one command, one fault and the way back | 219 thousand |
| `callscan` | three posts, the oldest unreadable, batches of two, two faults | 36 thousand |
| `outcomes` | a mention with a stated call, three days of a growing tape, one fault | 679 thousand |
| `scorer` | every tape of up to three bars of eleven shapes, with corporate actions | 535 thousand |
| `credibility` | two calls due a day apart, any contributions of two accounts, one fault | 1.05 million |
| `cadence` | a Thursday noon to Sunday, slow ticks, any two events | 292 thousand |
| `outcomes_stuck`, `scorer_old_split` | statements of the code's own comments that the code does not keep (section 6) | - |

Several invariants of a module that are checked together are conjuncts of one:
`IInv`, `SpineInv`, `BookInv`, `StreamInv`, `ScanInv`, `ReadingInv`, `WeeklyInv`, `ResultInv`,
`ResultsAreOfTheTape` and `ResultIsFair` are defined next to their parts. All of them
begin with the module's type invariant and hold what makes them inductive, as does
`MoodIsOfThePosts`, so that TLC checks on an instance what section 5 proves of all.

What each run shows, and why its bounds are enough:

* `notifier` - `IInv`, `ClaimsAreForGood`, `ClaimMeetsItsFate`, and `DeliverySpec`, the
  refinement of Delivery. No bound but the sets: channel counts stay at one because
  the property holds. The proofs (section 5) hold for all sets.
* `spine` - two tasks are enough for a race, and one exception or crash at any await
  for every recovery by the other task or by a re-sighting; sightings are not
  bounded. The later post is read as a share and an option on it: two alert keys, one
  reversal key. The earlier one may be read as a confident take, a guess, or nothing,
  and lies exactly `Lookback` before, on the boundary of the query. `OneTimeWorkOnce`
  (in `SpineInv`) is about rows that have no unique constraint; `SightingAlerts` is the
  recovery the head of `worker.py` promises; `AuditedPostIsComplete` says when an audit
  row can be relied on - and, by what it leaves out, that a post without one may be
  half-done for good.
* `reading` - `coin` is tagged and named, so two stages find it with different classes;
  `squeeze` has two options on one root; `chart` has an English word for a cashtag and
  two images, one of them `coin`'s. The gate may drop any set of symbols, after which
  the inference and the images are asked. Three calls are fewer than two readings
  want, so each stage meets an exhausted budget. Two images may be looked at,
  which a failure and a second look use up. Timestamps are such that posts reach
  the Analyzer late as well as in order. `TextIsKept` is the fail-open promise of
  `relevance.py` carried to the end of the pipeline. `ConvictionIsOwn` is about the objects
  of an image that two posts show: the later post gets them with the conviction of the
  earlier. That an image is read once in a process is a part of `ReadingInv`.
  `BudgetIsExact` is about those that ask the budget (see section 6). `MoodIsOfThePosts` is exact for posts in order; for late ones it says
  that no mention counts for more than it should, which is what can be said
  (`sentiment.py:55`). Its other half, `VoicesAreCounted`, is about the number of voices
  that a consensus is sized by: b squared over q lies between one and what was heard.
  `ContributorsAreTheLast` is what `attribute_call` is given: a list of two (fifty in the
  code) and posts with two options on one symbol, so that lists are cut.
* `desk` - two names of one narrative and one of none give every combination of
  stacking and correlation for `MaxCalls` = 2; hour 2 is another date, so ids change
  and calls become due. NVDA and AMD are interchangeable (symmetry; tasks are so in
  `spine`; no liveness property is checked in these two).
* `ingest` - two posts per source are the least that can be reordered; a buffer of
  one is always full or empty. A poll of the handle reaches one post, so a second
  one before the next cycle is out of reach for good (ten pages in the code); the
  channel's page holds both. `ChannelOrderKept` is about the process loop and the pipes that
  lead to it; in a channel the bot administers the listener may bring the second post to
  `process_post` before the first, or one a second time, which is Spine's matter (one-time
  work) and the Analyzer's (late mentions). One command is an add of a new source, or a removal with
  posts under way; one fault any one of a failed page, a dead provider, a failed
  post, a stop or a crash.
* `callscan` - one unreadable post in batches of two leaves one usable place. With
  as many unreadable posts as a batch holds `EveryPostIsScanned` does not hold:
  the scan asks for the same ones for ever (`db/calls.py:14`).
* `outcomes` - horizons 1 and 2 stand for 1, 3 and 5 sessions, two for the ten of
  a call; each bar is quiet, touches the target, or both levels; a symbol may
  skip days. `ResultsAreOfTheTape` says it of the rows; the parts that make it inductive
  say that what a run has fetched is a beginning of what was published
  (`WorkIsInOrder`), and that no run works with less of a tape than the row was made
  from that it is about to write over (`RunIsNotBehind`). `EvidenceCounts` excepts the
  one case the code leaves: the run that wrote the evidence failed, and nothing is
  pending that makes another.
* `scorer` - prices at, between and beyond the levels, long and short; the split is
  before, at, or inside the window. Horizon 3 with bars one or two days apart
  puts bars on both sides of the window's end. A split halves the price of a delisting
  and the cash of a dividend as it halves the bars, so both are even. `SplitInvariance`
  leaves aside dividends before the split: their cash is divided by a risk in new
  shares (`scorer/core.py:60`).
* `credibility` - one call is due a day before the other, so that a run recomputes what
  an earlier run closed; a third day adds nothing but another run. The discussions
  have both sides, a change of mind, a neutral voice and a single voice. `Unit` = 6 is
  divided by every sum of weights. A call may be put off (its bars do not decide it)
  or win or lose. `ResultInv` holds what the shares and the closings rest on:
  what the tick has fetched (`FetchedByTick`), which rows there are of its time
  (`RowsAreOfTicks`), which scores it is about to write (`ScoresInHand`), and when the
  stored scores are whole (`WholeBetweenRuns`).
* `cadence` - a unit is twelve hours, so the last unit of Friday begins at noon: the
  window of the weekly report is longer than in the code (which begins it at 21:00), the
  property `WeeklyInv` speaks of its end. The posts it reports on must be of the seven
  days before the check, so that the claim is made of windows that end at most seven
  days after the last post. `OpsAssumption` (the interval of the ops line and a slow tick
  fit in a day) is true of the code's six hours. `Slow` = 1 lets a tick cross midnight. Two events
  are a post and a failure, a flag set and released, or a crash in the run that
  was to make up for another one. `HoldIsObeyed` speaks of one flag that is set all
  along: TLC showed that an operator who answers a `/pause` with `/kill` and then
  `/resume` between the two reads is not heard, as the job asks one, then the other.

Deadlock is checked except where the instance ends by itself: a finite feed
(`ingest`, `reading`), a finite tape (`outcomes`, `scorer`) or a clock that stops
(`cadence`, `credibility`).

Every property has a mutant in `PROJECT.json`: a change of one definition, as a
plausible slip in the code would make it, under which TLC finds the property
violated in the same instance. The mutants are definitions marked "Mutant of"
next to the definition they change.

## 4. Fairness

Liveness is checked only where the code gives a reason for progress:

* Notifier: weak fairness of each running sender. A call that has begun returns or
  raises, because requests and commits have timeouts. Nothing forces a send to
  succeed, or a crash. Spine, CallDesk, Reading, Scorer and Credibility are checked
  without any fairness.
* CallScan: weak fairness of the scan's own steps, which the scheduler starts
  every five minutes; a failed run is stamped and the next one comes. Faults
  are bounded: a scan that always fails scans nothing.
* Ingest: weak fairness of each loop, pump and cycle: a provider goes round its list
  without end, so that it always has a next source to poll, and the event loop runs
  every coroutine that can run; the platform restarts a process that is down
  (`restart: unless-stopped` in `docker-compose.yml`). Nobody promises posts,
  commands or the listener. Faults are bounded: a source that always fails is never
  read.
* Outcomes: weak fairness of the job, the scheduler runs it again and again.
* Cadence: weak fairness of a tick. Time is not forced: the properties compare what
  is done with the clock.

## 5. Proofs

Eight modules have theorems about ten components (Analyzer with Reading), for all
values of their constants. Each component has one inductive invariant, the one its
run checks (the Analyzer two of its own, `MoodIsOfThePosts` and `ContributorsAre`, which
is `ContributorsAreTheLast` with its types), and takes the other
properties from it. Every safety invariant and every action property of the runs,
and the refinement of Delivery, is the subject of a theorem.

| Module | Theorem (property) | Beyond the instance |
|---|---|---|
| `NotifierProofs` | `Invariance` (`IInv`), `TypeCorrect`, `AtMostOnce`, `LedgerIsTruthful`, `ClaimExcludes`, `ClaimsPersist` (`ClaimsAreForGood`), `Refinement` (`DeliverySpec`) | any senders, keys, faults |
| `SpineProofs` | `SpineIsSound` (`SpineInv`), `AuditIsTrue` (`AuditedPostIsComplete`), `TurnIsAlerted` (`ReversalIsAlerted`), `ReversalHasCause` (`NoCauselessReversal`), `SightingsAlert` (`SightingAlerts`), `SentOnce`, `SpineUsesNotifier` | any tasks, posts, readings, lookback, faults |
| `CallDeskProofs` | `BookIsSound` (`BookInv`), `LiveIsPublic` (`LiveCallIsPublic`), `RunsAreSpread` (`RunIsSpread`), `KillStops` (`KillStopsTheNextRun`), `ClosedStaysClosed` (`ClosedForGood`), `DeskUsesNotifier` | any symbols, narratives, calendar, caps, faults |
| `CallScanProofs` | `ScanIsSound` (`ScanInv`), `GradedStaysGraded` (`GradedForGood`), `AnnouncedOnce`, `ScanUsesNotifier` | any posts, readings, batch size, faults |
| `IngestProofs` | `StreamIsSound` (`StreamInv`), `ChannelsKeepOrder` (`ChannelOrderKept`), `RemovalIsHeld` (`RemovalHolds`) | any sources, feeds, pages, lookbacks, buffer, faults |
| `ReadingProofs` | `ReadingIsSound` (`ReadingInv`), `TextStays` (`TextIsKept`), `BudgetHolds` (`BudgetIsExact`), `ConvictionStaysOwn` (`ConvictionIsOwn`), `MoodStays` (`MoodIsOfThePosts`), `VoicesStay` (`ContributorsAreTheLast`) | any texts, answers, budgets, tasks, lengths of time |
| `JobProofs` | `WeeklyIsSound` (`WeeklyInv`), `HoldIsHeard` (`HoldIsObeyed`), `SilenceIsHeard` (`SilenceIsTold`) of Cadence; `ResultsAreShared` (`ResultInv`), `CredibilityStaysWhole` (`CredibilityIsWhole`) of Credibility | any intervals, length of a tick, events; any calls, accounts, voices, results, faults |
| `GradingProofs` | `ResultsAlwaysOfTheTape` (`ResultsAreOfTheTape`), `ResultsFinal` (`ResultsAreFinal`) of Outcomes; `ResultsAreFair` (`ResultIsFair`), `ScoresAreFinal` (`ResultIsFinal`), `SplitsDoNotMatter` (`SplitInvariance`) of Scorer | any mentions, horizons, faults; any bars, levels, corporate actions, length of the tape |

### Assumptions

They are stated where the constants are declared, and TLC evaluates them in every
run. Bounds are naturals, and where the code has at least one of a thing, not zero. A
placeholder is not one of the things it stands in for (`NoKeyAssumption`,
`NoPostAssumption`). Readings, texts and answers are what the schemas of the code let
through (`ReadingsAssumption`, `ExtractionsAssumption`, `ReadingAssumption`). Two say
something of the world: `HorizonAssumption` (a call is graded days after its date,
never on it), `CadenceAssumption` with `OpsAssumption` (the half-hours of the pulse
divide a day; an ops interval and a slow tick fit in one). `SourceAssumption` says that
a source is either an X handle or a channel, and that the operator administers
channels only. No assumption is made on the number of faults or of commands.

Of the modules that calculate: horizons of Outcomes are positive (`HorizonsAssumption`).
The call of Scorer has a risk and a reward (`CallAssumption`); what there is per share
can be halved by a split (`EventsAssumption`), as prices are whole numbers here; open
and close of a bar lie between low and high (`ShapesAssumption`). A sum of weights of
Credibility divides `Unit`, so that shares are whole (`SharesAssumption`); the code's
are floating-point numbers, and the rounding is not modelled. Of a text,
`ReadingAssumption` says that it has finitely many options and tags, written at a whole
number of half-lives by somebody whose credibility is not negative. `LoopAssumption`: one
of the tasks of Reading is the process loop; the others are calls of the listener.

### The arguments

**Notifier.** `AtMostOneMessage` is not inductive: nothing in it keeps a sender from
sending what is already in the channel. `IInv` adds why that cannot be: a row of any
status refuses a second claim, so a key has one sender at most (`ClaimIsExclusive`),
and while that sender may still send, the channel has not seen the message
(`NotYetShown`). The refinement is proved action by action: a claim is a `Claim`; the
first request Telegram accepts, or one that times out and is shown all the same, is a
`Deliver`; an exception before that, and a claim whose answer is lost, a `Lose` of one
key; a crash a `Lose` of all keys in flight and not yet shown; the rest are stutters.

**Notifier in Spine, CallDesk and CallScan.** Each of the three composes the notifier
through an instance `N`. Their steps change the ledger as a step of `N` does, or not
at all (`SpineUsesNotifier`, `DeskUsesNotifier`, `ScanUsesNotifier`: `Spec => N!Spec`), and
the induction step of `NotifierProofs` is reused for `N!IInv`, so that at most one
message per key holds of the alerts, the reversals and the calls.

**Spine.** What the properties say of the rows of a post they say of one that is
through; the invariant says it of every task on its way there. `RowsFollowTask` ties
the rows of a post to the one task that inserted it and says, for each stage, what
they are; `TaskIsInOrder` ties a task to its notifier call; `SendsAreListed` says that what
is not claimed is still on the task's list. That the reversal of a post is known to
the task that must send it needs a fact about steps, too: a clear reversal of a stored
post was clear before the step, whoever stores mentions meanwhile (`TurnIsOld` in the
proofs, with the last of a finite set of earlier posts).

**CallDesk.** One live call per symbol is a fact about the book, but what keeps it is
the plan of the run under way: `PlanIsSound` says what the evaluations still to be dealt
with may become, `CallAtHand` where the run is with the first of them. That a graded
call is not made live again, although `mark_live` asks nothing, is `OutcomesAreLate`: a
call of this date has no outcome. `KillIsCounted` makes each claim since a kill use up a
number of the run.

**CallScan.** A cursor row is written long after its post was read, for what the run
remembers: `ReadIsKept`. A message goes out for the call at hand: `CallAtHand`.

**Ingest.** That nothing falls through is a promise about `since`. A handle's poll moves
it at its end, over posts it has long handed on, so `PollIsCovered` says of a poll under
way that whatever it will move `since` over is safe. A channel's poll moves it first,
so that all posts of the channel in the pipes are behind it (`PollersAreInOrder`),
which is what keeps their order, too: what the process loop has taken of a channel is
before all that is still in the pipes (`HandledIsPast`).

**Reading.** All that the invariant says of a task depends on the state of this task
and on which mention objects and readings there are, so the stages are dealt with one
by one, as facts about records; a step of one task leaves the others as sound as they
were, since objects are only added, and images read by the process loop only. That an
image is read once in a process is `CacheInv`: a task looks only at what is not in the
cache, and nobody else can put it there meanwhile. That a conviction is the post's own
takes that the mentions of images are with the process loop only, so that nobody else
labels them between its stance stage and its alert. `BudgetIsExact` takes that
the date of the count is never one to come.

**Cadence.** The pace of the scheduler carries everything. Unless the worker was
disturbed, a tick begins at most `Lag` after the one before (`TickIsOnTime`), and in it
every job that is due has its turn, so that the last run of a job is at most its
interval and a `Lag` away (`RunsKeepPace`). What the job did then stays: the edition that
was tried (`WeeklyIsTried`), the day's line that says what it should (`OpsLineIsTrue`).
The claims about the end of a window or a day follow. The induction showed that the
weekly claim needed its restriction to windows that end at most seven days after the
last post: with an older post there is nothing to report.

**Analyzer.** `MoodIsOfThePosts` takes nothing of the tasks but what they feed
(`AllFinite`: a post has finitely many mentions, so there is an order to feed them in).
One more mention of a symbol (`HeardOnce`) lets the sums fade and adds a weight in the
finer unit. That the sums bound what the mentions weigh by event time is the triangle
inequality of elapsed times, which the clamp of `update` keeps; they are equal if no
mention is late. That the voices are at most as many as were heard is a step of the
inequality of Cauchy and Schwarz. `Moods`, the loop over the mentions of a post, is a
recursive function; that it takes one mention after the other, and that sums over sets
add up, is proved by a smallest counterexample (`WFMin`, `FS_Subset`), as the induction
theorems of the library cannot be used. `Voices` is gone through in the same way: one
mention more is at the end of its list, and all others are one place further from it,
those that are left (`OneMoreSaid`).

**Outcomes.** What is given for a mention, a return or a grade, depends on a beginning of
a tape only, and once there it is what every longer tape gives. A run has a beginning
of what was published; so what it writes is right, stays right, and is written again
as it was, unless the run had less than the run before it. It has not
(`RunIsNotBehind`): a fetch gives what there is, and one that failed gives nothing, in
which case the row is left alone.

**Scorer.** The result is a function of the window up to the bar where the loop stops, and
neither changes once a bar closes the call or lies beyond the horizon: no look-ahead.
Fairness is a case per rule: the rules before the one that closes do not, which is
what keeps the target from being granted where the stop was hit. A split changes
the bars by two and the plan by two, so that every rule sees the same R.

**Credibility.** `Share` divides by the weight of a side, and the sum of the shares of a
side is its weight times the quotient: sums over sets again. A call is closed on a
fresh tape because every live call that is no longer on the list of the tick has been
fetched by it. After the rows of a run are written every speaker has a row of the time
of the tick, and no later one; so whatever `get_credibility` finds counts all calls
closed, or is the evidence row of the outcome job. `WholeBetweenRuns` is the invariant;
`CredibilityIsWhole` is what it says of a tick that is over.

### Model-checked only

* Liveness under fairness, which needs `ENABLED`: `ClaimMeetsItsFate`, `PostsComeThrough`,
  `EveryPostIsScanned`, `NoJobStarves`, `RowsComplete`, `EvidenceCounts`.
* The two runs that show a violation: a counterexample is a fact of an instance.

## 6. Where the code and its texts disagree

With a run that shows it:

1. `outcomes_stuck` - `jobs.py:197-198`: open stated calls are graded "against the same
   bars". Bars are fetched for the symbols of mentions whose five-session returns
   are incomplete, and a run without any returns at once (`jobs.py:161`). A call has
   ten sessions by default; if its symbol is not mentioned again, it is
   never graded.
2. `scorer_old_split` - `scorer/core.py:4-6`: splits are replayed over as-of-issuance
   bars. Every split of the ledger up to the bar is applied, those before issuance
   too (`scorer/core.py:133`), so the levels of a name that ever split are wrong.

Met while modelling, without a run of their own (the models follow the code):

* `jobs.py:345`: exhausted credits are "caught the same day". The first ops run of a
  date uses up the date's key; a silence that reaches 24 hours later that day is
  composed and then refused by the ledger. `SilenceIsTold` is what does hold.
* `/addsource` of a source removed before answers "Watching" (`admin/commands.py:158`),
  but `get_or_create_account` leaves its row inactive: it is not polled. `watch_ticker`
  does activate the row again.
* `ops/llm_budget.py:6-7` has "vision skips" when the cap is hit, as `vision.py:154` does;
  there is no handler, so `process_post` raises after the post was inserted, and the
  post, read off its image only, is never stored.
* There is "one shared daily call budget across every LLM surface" (`worker.py:339`), but the
  writer of the pulse (`worker.py:458`) does not ask it, and a call that is granted may
  send its request more than once when the answer does not fit the schema. `BudgetIsExact`
  holds of the calls that were asked for, not of requests.
* A channel the bot administers is read twice, by the listener without images and by the
  poller with them. If the listener's copy is first, a post that names something in its
  image only is alerted by the process loop, and never stored.
* A symbol the relevance gate was confident is no asset may come back from the
  inference or the image, which then run as if the post had named nothing.
* "No account is ever silenced" (`score/credibility.py:110`) is kept by
  `evidence_credibility`; `recompute_credibility` gives 0.001 to an account with one
  result, in a row of the same table and, in one tick, of the same time.
* An account that spoke several times is to be collapsed to its highest confidence
  and earliest mention (`docs/design/02-credibility-attribution.md:80`); `attribute_call`
  takes the last contribution.
* `main()` gives `run_scoring` no `bench_provider`, so the R that is attributed is not
  benchmark-neutral, against `score/credibility.py`'s `r_perp`.
* Nothing reconciles pending rows, which the plan asks for (plan, INV-4, Notify).
* `/kill` answers "ingestion + sending halted" (`admin/commands.py:359`), but neither
  the ingest loop nor `process_post` reads the flag; `jobs.py:6` says all jobs
  respect it, the call scan and the ops line do not.
* `request_stop` says "drain" (`worker.py:201`); the tasks are cancelled
  (`worker.py:218`), and what was buffered comes back by the lookback only.
* A call broadcast before a crash, and not yet marked live, is public and never
  graded; the converse does not happen (`LiveCallIsPublic`).
* A candidate saved during a pause and found again on the same date is announced
  with new prices, while its row keeps the old ones (`db/recs.py:59`).
* Mentions and the post's state are two commits (`worker.py:83`); INV-4 of the plan
  asks for one.
* The benchmark's bars may end before the symbol's: the row then counts as complete
  without its benchmark return, which `jobs.py:174` means to prevent.
* The weekly report is "exactly once" (`worker.py:368-370`) only if no claim is
  lost: at most once is what the ledger gives.
* Intervals count from the last tick, so a 24-hour job drifts and can step over a
  date.

## 7. Plan

Order: first what sends messages, as that cannot be taken back; then what stores;
then what reads and computes. All of these are modelled, checked and proved about.
What is left is a refinement that is not stated yet: Spine's `Readings` as the abstract
specification of Reading, which needs Reading's posts to carry Spine's keys.

## 8. Not modelled

* Texts, formatting and escaping; the patterns themselves (which words a regular
  expression finds), and what an LLM answers to which text.
* The pulse, the reports, the dashboard, the analytics queries: read-only; whether an
  edition goes out is in Cadence.
* Narrative momentum and technical indicators: exponentials and real arithmetic
  on which nothing but texts depends.
* The number of a credibility score, and the benchmark-neutral R.
* Watched tickers and tiers (they pin a message or weigh a score), the commands that
  only read, the export.
* The pulse writer, which calls the LLM outside the daily budget; the pump score,
  which is the constant 0.1 (`jobs.py:473`).
* HTTP and parsing of market data; bars stored before their session closed; adjusted
  and unadjusted bars of one symbol.
* The seconds of `since`: X's search takes whole seconds, two posts of one second
  are one position here.
* `stream_client.py` and `dedupe.py`, which `main()` does not build; `CostBudget`,
  `DegradedModes`, heartbeat and recovery in `ops/`, which only tests call.
* Settings, schema and preflight. The unique constraints of the schema are guards of
  the actions that insert.

## 9. Running

```
tlc -workers 2 -config MCSpine.cfg MCSpine.tla
tlapm NotifierProofs.tla
```

and so on for each `MC` configuration and each module of proofs.
