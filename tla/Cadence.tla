------------------------------ MODULE Cadence -------------------------------
(***************************************************************************)
(* The scheduler and the broadcasts it makes: the daily digest, the weekly *)
(* report, the ops line and the pulse.                                     *)
(*                                                                         *)
(* A tick runs the due jobs one after the other, with the time the tick    *)
(* began; the last-run stamps live in memory, the ledger of what was sent  *)
(* does not.  A job reads the kill switch, the pause and its data in       *)
(* separate awaits, and the operator, the authors and a crash get in       *)
(* between.  Of the notifier only what Delivery promises is used (Notifier *)
(* is shown to keep it): a broadcast claims its key, and then the message  *)
(* is delivered or lost.  The jobs that broadcast no edition (recommend,   *)
(* scoring, outcomes, the call scan, the heartbeat) have modules of their  *)
(* own; here they are the time a tick may take.                            *)
(***************************************************************************)
EXTENDS Integers, Sequences, FiniteSets

CONSTANTS
  DayLen,       \* the units of time of a day
  OpsEvery,     \* intervals of the jobs, in units: the ops line,
  PulseEvery,   \*   the pulse (and the window it looks back on),
  WeeklyEvery,  \*   the check for the weekly report
  Start, End,   \* the clock runs from Start to End (a bound)
  Slow,         \* how long a tick may take
  MaxEvents     \* bound: posts, commands, faults and crashes together

ASSUME CadenceAssumption ==
  /\ {DayLen, OpsEvery, PulseEvery, WeeklyEvery} \subseteq Nat \ {0}
  /\ {Start, End, Slow, MaxEvents} \subseteq Nat
  /\ DayLen % PulseEvery = 0 /\ Start > 8 * DayLen /\ Start <= End

\* From the beginning of a tick to that of the next.
Lag == IF Slow = 0 THEN 1 ELSE Slow

\* Six hours between two ops lines (worker.py:391) leave a tick most of a day.
ASSUME OpsAssumption == OpsEvery + Lag <= DayLen

VARIABLES
  clock,     \* the time, in units
  up,        \* does the worker run
  lastRun,   \* ScheduledJob.last_run, 0 = never
  tick,      \* Scheduler.tick: when it began, whose turn it is, what is next
  killed, paused,
  lastPost,  \* when the latest post was ingested, 0 = never
  outbox, messages,   \* Delivery: the ledger, the channel
  alarms,    \* the days whose ops line says "ZERO posts ingested in 24h"
  events,    \* how much has happened so far (bound)
  calm,      \* since when nothing went wrong in the worker
  open       \* since when neither /kill nor /pause is in force

vars == <<clock, up, lastRun, tick, killed, paused, lastPost, outbox, messages,
          alarms, events, calm, open>>
watch == <<calm, open>>
ledger == <<outbox, messages, alarms>>
flags == <<killed, paused, lastPost, events>>

-----------------------------------------------------------------------------
\* The calendar: a week begins on Monday, 0 = Monday (datetime.weekday).
Day(t) == t \div DayLen
Week(t) == t \div (7 * DayLen)
Weekday(t) == Day(t) % 7
DayStart(d) == d * DayLen

Order == <<"digest", "weekly", "ops", "pulse">>
Jobs == {"digest", "weekly", "ops", "pulse"}

Interval == [digest |-> DayLen, weekly |-> WeeklyEvery, ops |-> OpsEvery,
             pulse |-> PulseEvery]

\* The period an edition is for: its idempotency key, with the job's name.
Period(j, t) ==
  CASE j \in {"digest", "ops"} -> Day(t)
    [] j = "weekly" -> Week(t)
    [] j = "pulse" -> t \div PulseEvery

Key(j, t) == [job |-> j, period |-> Period(j, t)]
Keys == {Key(j, t) : j \in Jobs, t \in Start..End}

D == INSTANCE Delivery

\* Mutant of WeeklyDue: the Friday only, as if no worker were ever down.
WeeklyDueOnFriday(t) == Weekday(t) = 4 /\ t % DayLen >= DayLen - 1

\* weekly_report_due: from Friday 21:00 UTC, here the last unit of Friday, to
\* the end of Saturday.
WeeklyDue(t) ==
  \/ Weekday(t) = 4 /\ t % DayLen >= DayLen - 1
  \/ Weekday(t) = 5

Due(j, t) == t - lastRun[j] >= Interval[j]

Asleep == [pc |-> "asleep", at |-> 0, turn |-> 1, zero |-> FALSE, held |-> {}]
Flags(k, p) == {f \in {"kill", "pause"} : (f = "kill" /\ k) \/ (f = "pause" /\ p)}
Held == killed \/ paused
Job == Order[tick.turn]

TypeOK ==
  /\ clock \in Start .. End /\ lastPost \in 0 .. clock
  /\ lastRun \in [Jobs -> 0 .. clock]
  /\ tick \in [pc : {"asleep", "turn", "kill", "pause", "data", "send", "claimed"},
               at : 0 .. clock, turn : DOMAIN Order, zero : BOOLEAN,
               held : SUBSET {"kill", "pause"}]
  /\ {up, killed, paused} \subseteq BOOLEAN
  /\ D!TypeOK
  /\ alarms \subseteq Day(Start) .. Day(clock)
  /\ events \in 0 .. MaxEvents /\ {calm, open} \subseteq Start .. clock

Init ==
  /\ clock = Start /\ up = TRUE
  /\ lastRun = [j \in Jobs |-> 0]
  /\ tick = Asleep
  /\ killed = FALSE /\ paused = FALSE
  /\ lastPost = 0
  /\ D!Init /\ alarms = {}
  /\ events = 0 /\ calm = Start /\ open = Start

-----------------------------------------------------------------------------
\* Scheduler.tick(now): the loop wakes up and takes the time.
Wake ==
  /\ up /\ tick.pc = "asleep" /\ tick.at < clock
  /\ tick' = [Asleep EXCEPT !.pc = "turn", !.at = clock]
  /\ UNCHANGED <<clock, up, lastRun, flags, ledger, watch>>

AfterTurn ==
  IF tick.turn < Len(Order)
  THEN [tick EXCEPT !.pc = "turn", !.turn = @ + 1, !.zero = FALSE, !.held = {}]
  ELSE [Asleep EXCEPT !.at = tick.at]

\* The job returned or raised: its stamp is that of the tick either way.
Stamp ==
  /\ lastRun' = [lastRun EXCEPT ![Job] = tick.at]
  /\ tick' = AfterTurn

NotDue ==
  /\ up /\ tick.pc = "turn" /\ ~Due(Job, tick.at)
  /\ tick' = AfterTurn
  /\ UNCHANGED <<clock, up, lastRun, flags, ledger, watch>>

\* The jobs that ask the kill switch and the pause whether they may speak; the
\* ops line only reports them.
Obeys(j) == j # "ops"

\* job.run(now): outside its window the weekly report is a no-op.  held notes
\* which of /kill and /pause have been in force all through the job.
Begin ==
  /\ up /\ tick.pc = "turn" /\ Due(Job, tick.at)
  /\ IF Job = "weekly" /\ ~WeeklyDue(tick.at)
     THEN Stamp
     ELSE /\ tick' = [tick EXCEPT !.pc = IF Obeys(Job) THEN "kill" ELSE "data",
                                  !.held = Flags(killed, paused)]
          /\ UNCHANGED lastRun
  /\ UNCHANGED <<clock, up, flags, ledger, watch>>

\* is_killed, get_pause: a read that fails counts as yes.
Ask(pc, flag, next) ==
  /\ up /\ tick.pc = pc
  /\ IF flag THEN Stamp
     ELSE tick' = [tick EXCEPT !.pc = next] /\ UNCHANGED lastRun
  /\ UNCHANGED <<clock, up, flags, ledger, watch>>

\* Mutant of AskKill: /pause is all that is asked.
AskNothing == Ask("kill", FALSE, "pause")

AskKill == Ask("kill", killed, "pause")
AskPause == Ask("pause", paused, IF Job = "digest" THEN "send" ELSE "data")

\* Mutant of Silent: the silence is measured over two days.
SilentForTwoDays(t) == lastPost + 2 * DayLen + 1 < t

\* No post in the last 24 hours: ingested_at >= since counts none.
Silent(t) == lastPost + DayLen < t

\* Is there anything to say?  A pulse needs a post of its window, a weekly
\* report a mention of the last seven days; a digest and the ops line go out
\* whatever there is.
Worth(j, t) ==
  CASE j = "pulse" -> lastPost + PulseEvery >= t
    [] j = "weekly" -> lastPost + 7 * DayLen >= t
    [] OTHER -> TRUE

ReadData ==
  /\ up /\ tick.pc = "data"
  /\ IF Worth(Job, tick.at)
     THEN /\ tick' = [tick EXCEPT !.pc = "send",
                                  !.zero = Job = "ops" /\ Silent(tick.at)]
          /\ UNCHANGED lastRun
     ELSE Stamp
  /\ UNCHANGED <<clock, up, flags, ledger, watch>>

TheKey == Key(Job, tick.at)

\* broadcast_text: the claim; a key already claimed ends the job.
Claim ==
  /\ up /\ tick.pc = "send"
  /\ IF outbox[TheKey] = "unsent"
     THEN /\ D!Claim(TheKey)
          /\ tick' = [tick EXCEPT !.pc = "claimed"]
          /\ UNCHANGED lastRun
     ELSE Stamp /\ UNCHANGED <<outbox, messages>>
  /\ UNCHANGED <<clock, up, flags, alarms, watch>>

Deliver ==
  /\ up /\ tick.pc = "claimed"
  /\ D!Deliver(TheKey)
  /\ alarms' = IF tick.zero THEN alarms \cup {Day(tick.at)} ELSE alarms
  /\ Stamp
  /\ UNCHANGED <<clock, up, flags, watch>>

-----------------------------------------------------------------------------
\* What the world does, within the bound.
Happens == events < MaxEvents /\ events' = events + 1

\* Mutant of AfterRaise: the exception leaves the tick, not only the job.
AfterRaiseTickOver ==
  /\ lastRun' = [lastRun EXCEPT ![Job] = tick.at]
  /\ tick' = [Asleep EXCEPT !.at = tick.at]

\* Scheduler.tick: an exception of a job is logged, the next job has its turn.
AfterRaise == Stamp

\* An await of the job raises: a query, the claim (lost, perhaps, although the
\* row is there) or the request; or a read of a flag fails closed.
JobRaises ==
  /\ up /\ Happens
  /\ \/ tick.pc \in {"kill", "pause", "data", "send"} /\ UNCHANGED <<outbox, messages>>
     \/ /\ tick.pc \in {"send", "claimed"}
        /\ outbox[TheKey] \in {"unsent", "claimed"}
        /\ D!Lose({TheKey})
  /\ AfterRaise
  /\ calm' = clock
  /\ UNCHANGED <<clock, up, killed, paused, lastPost, alarms, open>>

\* The process dies: the stamps and the tick are gone, what was claimed and not
\* sent is lost.
Crash ==
  /\ up /\ Happens
  /\ up' = FALSE
  /\ lastRun' = [j \in Jobs |-> 0]
  /\ tick' = Asleep
  /\ IF tick.pc = "claimed" THEN D!Lose({TheKey}) ELSE UNCHANGED <<outbox, messages>>
  /\ calm' = clock
  /\ UNCHANGED <<clock, killed, paused, lastPost, alarms, open>>

Restart ==
  /\ ~up /\ up' = TRUE
  /\ calm' = clock
  /\ UNCHANGED <<clock, lastRun, tick, flags, ledger, open>>

\* A post is ingested: the ingest and process loops run beside the scheduler.
Ingested ==
  /\ Happens
  /\ lastPost # clock /\ lastPost' = clock
  /\ UNCHANGED <<clock, up, lastRun, tick, killed, paused, ledger, watch>>

\* /kill and /unkill, /pause and /resume.
Command(k, p) ==
  /\ Happens
  /\ killed' = k /\ paused' = p
  /\ tick' = [tick EXCEPT !.held = @ \cap Flags(k, p)]
  /\ open' = clock
  /\ UNCHANGED <<clock, up, lastRun, lastPost, ledger, calm>>

SetKill(k) == killed # k /\ Command(k, paused)
SetPause(p) == paused # p /\ Command(killed, p)

\* Time passes: the loop wakes up many times in a unit, and a tick under way
\* takes at most Slow units.
Pass ==
  /\ clock < End
  /\ \/ ~up
     \/ tick.pc = "asleep" /\ tick.at = clock
     \/ tick.pc # "asleep" /\ clock < tick.at + Slow
  /\ clock' = clock + 1
  /\ UNCHANGED <<up, lastRun, tick, flags, ledger, watch>>

Tick == Wake \/ NotDue \/ Begin \/ AskKill \/ AskPause \/ ReadData \/ Claim \/ Deliver

Next ==
  \/ Tick \/ JobRaises \/ Crash \/ Restart \/ Ingested \/ Pass
  \/ \E b \in BOOLEAN : SetKill(b) \/ SetPause(b)

Spec == Init /\ [][Next]_vars

\* Every await of a job returns or raises, and the loop sleeps for seconds.
FairSpec == Spec /\ WF_vars(Tick)

-----------------------------------------------------------------------------
\* From any time in the window at which the scheduler is undisturbed, a check
\* comes after the tick under way and the interval.
Soon == Slow + WeeklyEvery + 1

\* An edition that /kill, or /pause, has held back since before its job began is
\* never claimed, whatever happens between the reads - the ops line apart, which
\* goes out regardless (jobs.py:6).  One of the two, all along: an operator who
\* turns /pause into /kill and /resume between the reads is not heard.
HoldIsObeyed ==
  [][\A k \in Keys :
       outbox[k] = "unsent" /\ outbox'[k] = "claimed" /\ k.job # "ops" => tick.held = {}]_vars

\* The scheduler keeps pace: unless the worker was disturbed since, a tick begins
\* soon after the one before it and is over soon, and every job ran within its
\* interval, and the time between two ticks, of the latest tick.
TickIsOnTime ==
  IF tick.pc = "asleep"
  THEN up => clock <= calm \/ (tick.at > 0 /\ clock <= tick.at + Lag)
  ELSE up /\ Start <= tick.at /\ clock <= tick.at + Slow

RunsKeepPace ==
  \A i \in DOMAIN Order :
    LET j == Order[i] IN
    /\ lastRun[j] <= tick.at
    /\ tick.at > 0 /\ (tick.pc = "asleep" \/ i < tick.turn)
         => tick.at < lastRun[j] + Interval[j]
    /\ tick.pc # "asleep" =>
         tick.at <= calm \/ tick.at < lastRun[j] + Interval[j] + Lag

\* What held has noted is in force, and has been asked for by the time it counts.
HoldIsNoted ==
  /\ tick.held \subseteq Flags(killed, paused)
  /\ tick.pc \in {"kill", "pause"} => Job # "ops"
  /\ tick.pc = "pause" => "kill" \notin tick.held
  /\ tick.pc \in {"data", "send"} /\ Job # "ops" => tick.held = {}

ClaimIsOwn == tick.pc = "claimed" => outbox[TheKey] = "claimed"

\* Since when the worker has the window of week w to itself, with something to
\* report: it is not too late for a check, and the posts are of these seven days.
WindowOver(w) == DayStart(7 * w + 6)
Disturbances(w) == {calm, open, lastPost, DayStart(7 * w + 5) - 1}
Undisturbed(w) ==
  /\ ~Held /\ WindowOver(w) <= lastPost + 7 * DayLen
  /\ \A t \in Disturbances(w) : t + Soon <= WindowOver(w)

WeeklyKey(w) == [job |-> "weekly", period |-> w]

\* A check of the window after all disturbances has tried the week's edition.
WeeklyIsTried ==
  \A w \in Week(Start) .. Week(clock) :
    /\ Undisturbed(w) /\ clock <= WindowOver(w)
    /\ \A t \in Disturbances(w) : t < lastRun["weekly"]
    => outbox[WeeklyKey(w)] # "unsent"

\* The weekly report catches up (jobs.py:387): if some part of the window the
\* worker is up, nothing fails, nothing is held back and there is something to
\* report, the edition of the week has been tried when the window is over.
WeeklyCatchesUp ==
  \A w \in Week(Start) .. Week(clock) :
    clock = WindowOver(w) /\ up /\ tick.pc = "asleep" /\ Undisturbed(w)
      => outbox[WeeklyKey(w)] # "unsent"

\* Clock, tick and ledger are well-typed, the scheduler keeps pace, and the
\* weekly report catches up.
WeeklyInv ==
  /\ TypeOK
  /\ TickIsOnTime /\ RunsKeepPace /\ HoldIsNoted /\ ClaimIsOwn
  /\ WeeklyIsTried /\ WeeklyCatchesUp

\* Day d has been silent since before the day that goes before it, and the worker
\* has had it to itself.
SilentDay(d) ==
  calm < DayStart(d) /\ Start < DayStart(d) /\ lastPost < DayStart(d - 1)

OpsKey(d) == [job |-> "ops", period |-> d]

\* The ops line of a silent day, once it is claimed, says so; and a run of the
\* job on that day or after it has claimed it.
OpsLineIsTrue ==
  \A d \in Day(Start) .. Day(End) : SilentDay(d) =>
    /\ lastRun["ops"] >= DayStart(d) => d \in alarms
    /\ outbox[OpsKey(d)] # "unsent" =>
         d \in alarms \/ (tick.pc = "claimed" /\ TheKey = OpsKey(d) /\ tick.zero)
    /\ tick.pc = "send" /\ TheKey = OpsKey(d) => tick.zero

\* A day without posts is told of the day after at the latest: when it has been
\* silent since before the day that ends, and the worker had that day to itself,
\* its ops line is in the channel and says so - held back or not.
DayIsTold ==
  LET d == Day(clock) - 1
  IN clock = DayStart(d + 1) /\ up /\ tick.pc = "asleep" /\ SilentDay(d) => d \in alarms

SilenceIsTold == OpsLineIsTrue /\ DayIsTold

\* One bad run never wedges the loop: a job that is due gets its turn, unless
\* the process dies, whatever the jobs before it did.
NoJobStarves ==
  \A j \in Jobs : (up /\ Due(j, clock)) ~> (~up \/ ~Due(j, clock))
=============================================================================
