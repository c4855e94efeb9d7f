----------------------------- MODULE JobProofs ------------------------------
(***************************************************************************)
(* Proofs about the scheduler's jobs: the broadcasts (Cadence), for any    *)
(* intervals, length of a tick and number of events, and up to any End of  *)
(* the clock; and the feedback loop (Credibility), for any finite calls    *)
(* and accounts, any lists of voices whose weights divide Unit, any days   *)
(* and any number of faults.                                               *)
(*                                                                         *)
(* The scheduler's pace carries the broadcasts.  Unless the worker was     *)
(* disturbed, a tick begins at most Lag after the one before, and in it    *)
(* every job that is due has its turn; so at any time the last run of a    *)
(* job is at most its interval and a Lag away (TickIsOnTime,               *)
(* RunsKeepPace).  What the job left behind when it ran then does not go   *)
(* away: the week's edition that was tried (WeeklyIsTried), the day's line *)
(* that says what it should (OpsLineIsTrue).  The claims about the end of  *)
(* a window or a day follow.                                               *)
(*                                                                         *)
(* That the shares of a call add up is a fact about sums over sets of any  *)
(* size, proved from the partial sums they are made of: a set on which two *)
(* ways to add differ has a smallest subset on which they do.  The rest is *)
(* about the runs.  A score is whole when a run is over, because then      *)
(* every account has a row of the time of the tick (ScoresInHand) and no   *)
(* later one (RowsAreOfTicks), and stays so until a run closes calls       *)
(* (WholeBetweenRuns); a result is of a fresh tape because the run that    *)
(* closes the call has fetched both of its parts (FetchedByTick).          *)
(***************************************************************************)
EXTENDS Cadence, Credibility, SequenceTheorems, FiniteSetTheorems,
        WellFoundedInduction, TLAPS

-----------------------------------------------------------------------------
(* The calendar                                                            *)

\* Multiples of a number are at least that number apart.
LEMMA MultiplesApart ==
  ASSUME NEW n \in Nat \ {0}, NEW d \in Int, NEW e \in Int, d < e
  PROVE  d * n + n <= e * n
<1> DEFINE k == e - d - 1
<1>1. k \in Nat /\ e = d + 1 + k
  OBVIOUS
<1>2. k * n \in Nat
  BY <1>1
<1> HIDE DEF k
<1>3. e * n = d * n + n + k * n
  BY <1>1
<1>4. d * n \in Int /\ e * n \in Int
  OBVIOUS
<1> QED
  BY <1>2, <1>3, <1>4

\* What is early enough for the later of two times is so for the earlier; and one
\* that is early enough for a check comes before it.
LEMMA EarlyEnough ==
  ASSUME NEW s \in Int, NEW t \in Int, NEW n \in Int, NEW limit \in Int, NEW check \in Int,
         s <= t, t + n <= limit
  PROVE  s + n <= limit /\ (limit < check + n => s < check)
  OBVIOUS

\* What a division leaves.
LEMMA Division ==
  ASSUME NEW n \in Nat \ {0}, NEW t \in Nat
  PROVE  /\ t \div n \in Nat
         /\ (t \div n) * n <= t /\ t < (t \div n) * n + n
  OBVIOUS

\* The multiple below a number is the one it is divided by.
LEMMA DivisionIsUnique ==
  ASSUME NEW n \in Nat \ {0}, NEW t \in Nat, NEW d \in Int, d * n <= t, t < d * n + n
  PROVE  t \div n = d
<1> DEFINE q == t \div n
<1>1. q \in Nat /\ q * n <= t /\ t < q * n + n
  BY Division
<1> HIDE DEF q
<1>2. q * n \in Int /\ d * n \in Int
  BY <1>1
<1>3. ~(q < d) /\ ~(d < q)
  BY <1>1, <1>2, MultiplesApart
<1> QED
  BY <1>1, <1>3 DEF q

\* The constants, one by one.
LEMMA Constants ==
  /\ DayLen \in Nat \ {0} /\ OpsEvery \in Nat \ {0}
  /\ PulseEvery \in Nat \ {0} /\ WeeklyEvery \in Nat \ {0}
  /\ Start \in Nat /\ End \in Nat /\ Slow \in Nat /\ MaxEvents \in Nat
  /\ Start <= End /\ 8 * DayLen < Start
  /\ Lag \in Nat \ {0} /\ Slow <= Lag /\ Lag <= Slow + 1 /\ OpsEvery + Lag <= DayLen
<1>1. /\ DayLen \in Nat \ {0} /\ OpsEvery \in Nat \ {0}
      /\ PulseEvery \in Nat \ {0} /\ WeeklyEvery \in Nat \ {0}
      /\ Start \in Nat /\ End \in Nat /\ Slow \in Nat /\ MaxEvents \in Nat
      /\ Start <= End /\ 8 * DayLen < Start
  BY CadenceAssumption
<1>2. Lag \in Nat \ {0} /\ Slow <= Lag /\ Lag <= Slow + 1
  BY <1>1 DEF Lag
<1> QED
  BY <1>1, <1>2, OpsAssumption

\* Days follow one another.
LEMMA Days ==
  ASSUME NEW d \in Int
  PROVE  /\ DayStart(d) \in Int
         /\ DayStart(d + 1) = DayStart(d) + DayLen
         /\ DayStart(d - 1) = DayStart(d) - DayLen
  BY Constants DEF DayStart

\* The day of a time.
LEMMA DayOfTime ==
  ASSUME NEW t \in Nat
  PROVE  /\ Day(t) \in Nat
         /\ DayStart(Day(t)) <= t /\ t < DayStart(Day(t)) + DayLen
         /\ \A d \in Int : DayStart(d) <= t /\ t < DayStart(d) + DayLen => Day(t) = d
         /\ \A d \in Int : DayStart(d) <= t => d <= Day(t)
<1>1. DayLen \in Nat \ {0}
  BY Constants
<1>2. /\ Day(t) \in Nat /\ DayStart(Day(t)) <= t /\ t < DayStart(Day(t)) + DayLen
  BY <1>1, Division DEF Day, DayStart
<1>3. ASSUME NEW d \in Int, DayStart(d) <= t, t < DayStart(d) + DayLen
      PROVE  Day(t) = d
  BY <1>1, <1>3, DivisionIsUnique DEF Day, DayStart
<1>4. ASSUME NEW d \in Int, DayStart(d) <= t
      PROVE  d <= Day(t)
  <2> SUFFICES ASSUME Day(t) < d
               PROVE  FALSE
    BY <1>2
  <2>1. DayStart(Day(t)) + DayLen <= DayStart(d)
    BY <1>1, <1>2, MultiplesApart DEF DayStart
  <2> QED
    BY <1>1, <1>2, <1>4, <2>1, Days
<1> QED
  BY <1>2, <1>3, <1>4

\* A later time is of no earlier day.
LEMMA DaysGrow ==
  ASSUME NEW s \in Nat, NEW t \in Nat, s <= t
  PROVE  Day(s) <= Day(t)
<1>1. Day(s) \in Nat /\ DayStart(Day(s)) <= s
  BY DayOfTime
<1>2. DayStart(Day(s)) <= t
  BY <1>1, Days
<1> QED
  BY <1>1, <1>2, DayOfTime

\* Saturday is all in the window of its week, as is its end in the week.
LEMMA Saturday ==
  ASSUME NEW w \in Int, NEW t \in Nat, DayStart(7 * w + 5) <= t, t <= WindowOver(w)
  PROVE  Week(t) = w /\ (t < WindowOver(w) => WeeklyDue(t))
<1>1. DayLen \in Nat \ {0} /\ w * (7 * DayLen) \in Int
  BY Constants
<1>2. /\ DayStart(7 * w + 5) = w * (7 * DayLen) + 5 * DayLen
      /\ WindowOver(w) = w * (7 * DayLen) + 6 * DayLen
  BY <1>1 DEF DayStart, WindowOver
<1>3. w * (7 * DayLen) <= t /\ t < w * (7 * DayLen) + 7 * DayLen
  BY <1>1, <1>2
<1>4. Week(t) = w
  BY <1>1, <1>3, DivisionIsUnique DEF Week
<1>5. ASSUME t < WindowOver(w)
      PROVE  WeeklyDue(t)
  <2>1. DayStart(7 * w + 5) + DayLen = WindowOver(w)
    BY <1>1, <1>2
  <2>2. Day(t) = 7 * w + 5
    BY <1>5, <2>1, DayOfTime
  <2>3. Weekday(t) = 5
    BY <2>2 DEF Weekday
  <2> QED
    BY <2>3 DEF WeeklyDue
<1> QED
  BY <1>4, <1>5

-----------------------------------------------------------------------------
(* Jobs and keys                                                           *)

\* The jobs in the order of their turns.
LEMMA TheJobs ==
  /\ Len(Order) = 4 /\ DOMAIN Order = 1 .. 4
  /\ Order[1] = "digest" /\ Order[2] = "weekly" /\ Order[3] = "ops" /\ Order[4] = "pulse"
  /\ \A i \in 1 .. 4 : Order[i] \in Jobs
  /\ \A i, k \in 1 .. 4 : i # k => Order[i] # Order[k]
  /\ \A j \in Jobs : \E i \in 1 .. 4 : j = Order[i]
  BY DEF Order, Jobs

\* The intervals of the jobs.
LEMMA TheIntervals ==
  /\ Interval["weekly"] = WeeklyEvery /\ Interval["ops"] = OpsEvery
  /\ \A i \in 1 .. 4 : Interval[Order[i]] \in Nat \ {0}
<1>1. /\ Interval["weekly"] = WeeklyEvery /\ Interval["ops"] = OpsEvery
      /\ Interval["digest"] = DayLen /\ Interval["pulse"] = PulseEvery
  BY DEF Interval
<1> QED
  BY <1>1, TheJobs, Constants

\* The keys of the editions.
LEMMA TheKeys ==
  ASSUME NEW j \in Jobs, NEW t \in Start .. End
  PROVE  /\ Key(j, t) \in Keys /\ Key(j, t).job = j
         /\ Key("weekly", t) = WeeklyKey(Week(t))
         /\ Key("ops", t) = OpsKey(Day(t))
         /\ \A d : Key(j, t) = OpsKey(d) => j = "ops" /\ d = Day(t)
<1>1. Key(j, t) \in Keys /\ Key(j, t).job = j
  BY DEF Keys, Key
<1>2. /\ Key("weekly", t) = WeeklyKey(Week(t))
      /\ Key("ops", t) = OpsKey(Day(t))
  BY DEF Key, Period, WeeklyKey, OpsKey
<1>3. ASSUME NEW d, Key(j, t) = OpsKey(d)
      PROVE  j = "ops" /\ d = Day(t)
  <2>1. j = "ops"
    BY <1>1, <1>3 DEF OpsKey
  <2>2. OpsKey(d) = OpsKey(Day(t))
    BY <1>2, <1>3, <2>1
  <2> QED
    BY <2>1, <2>2 DEF OpsKey
<1> QED
  BY <1>1, <1>2, <1>3

-----------------------------------------------------------------------------
(* The turns                                                               *)

\* What ticks are.
Ticks(time) ==
  [pc : {"asleep", "turn", "kill", "pause", "data", "send", "claimed"},
   at : 0 .. time, turn : 1 .. 4, zero : BOOLEAN, held : SUBSET {"kill", "pause"}]

\* After a job's turn it is that of the next, or the tick is over.
LEMMA TurnIsOver ==
  ASSUME tick \in Ticks(clock)
  PROVE  /\ AfterTurn \in Ticks(clock)
         /\ AfterTurn.at = tick.at /\ AfterTurn.held = {} /\ AfterTurn.zero = FALSE
         /\ \/ tick.turn < 4 /\ AfterTurn.pc = "turn" /\ AfterTurn.turn = tick.turn + 1
            \/ tick.turn = 4 /\ AfterTurn.pc = "asleep" /\ AfterTurn.turn = 1
<1>1. tick.at \in 0 .. clock /\ tick.turn \in 1 .. 4
  BY DEF Ticks
<1>2. CASE tick.turn < 4
  <2>1. AfterTurn = [tick EXCEPT !.pc = "turn", !.turn = tick.turn + 1,
                                 !.zero = FALSE, !.held = {}]
    BY <1>2, TheJobs DEF AfterTurn
  <2>2. tick.turn + 1 \in 1 .. 4
    BY <1>1, <1>2
  <2> QED
    BY <1>2, <2>1, <2>2 DEF Ticks
<1>3. CASE ~(tick.turn < 4)
  <2>1. AfterTurn = [Asleep EXCEPT !.at = tick.at]
    BY <1>3, TheJobs DEF AfterTurn
  <2>2. AfterTurn = [pc |-> "asleep", at |-> tick.at, turn |-> 1, zero |-> FALSE,
                     held |-> {}]
    BY <2>1 DEF Asleep
  <2>3. tick.turn = 4
    BY <1>1, <1>3
  <2> QED
    BY <1>1, <2>2, <2>3 DEF Ticks
<1> QED
  BY <1>2, <1>3

\* The stamp of the job whose turn it is, and of no other.
LEMMA StampOfJob ==
  ASSUME tick \in Ticks(clock), lastRun \in [Jobs -> 0 .. clock], Stamp
  PROVE  /\ Job \in Jobs /\ lastRun' \in [Jobs -> 0 .. clock]
         /\ \A j \in Jobs : lastRun'[j] = IF j = Job THEN tick.at ELSE lastRun[j]
         /\ tick' = AfterTurn
<1>1. Job \in Jobs /\ tick.at \in 0 .. clock
  BY TheJobs DEF Job, Ticks
<1> QED
  BY <1>1 DEF Stamp

\* TypeOK, one by one; the edition of a job at work has a key.
LEMMA Types ==
  ASSUME WeeklyInv
  PROVE  /\ clock \in Start .. End /\ clock \in Nat /\ lastPost \in 0 .. clock
         /\ lastRun \in [Jobs -> 0 .. clock] /\ tick \in Ticks(clock)
         /\ outbox \in [Keys -> {"unsent", "claimed", "delivered", "lost"}]
         /\ messages \in [Keys -> Nat]
         /\ alarms \subseteq Day(Start) .. Day(clock)
         /\ events \in 0 .. MaxEvents /\ calm \in Start .. clock /\ open \in Start .. clock
         /\ up \in BOOLEAN /\ killed \in BOOLEAN /\ paused \in BOOLEAN
         /\ tick.at \in 0 .. clock /\ tick.turn \in 1 .. 4
         /\ Job \in Jobs /\ Job = Order[tick.turn]
         /\ tick.pc # "asleep" => tick.at \in Start .. End /\ TheKey \in Keys
<1>1. /\ clock \in Start .. End /\ lastPost \in 0 .. clock
      /\ lastRun \in [Jobs -> 0 .. clock]
      /\ outbox \in [Keys -> {"unsent", "claimed", "delivered", "lost"}]
      /\ messages \in [Keys -> Nat]
      /\ alarms \subseteq Day(Start) .. Day(clock)
      /\ events \in 0 .. MaxEvents /\ calm \in Start .. clock /\ open \in Start .. clock
      /\ up \in BOOLEAN /\ killed \in BOOLEAN /\ paused \in BOOLEAN
  BY DEF WeeklyInv, TypeOK, D!TypeOK
<1>2. tick \in Ticks(clock)
  BY TheJobs DEF WeeklyInv, TypeOK, Ticks
<1>3. /\ tick.at \in 0 .. clock /\ tick.turn \in 1 .. 4
      /\ Job \in Jobs /\ Job = Order[tick.turn]
  BY <1>2, TheJobs DEF Ticks, Job
<1>4. clock \in Nat /\ clock <= End
  BY <1>1, Constants
<1>5. ASSUME tick.pc # "asleep"
      PROVE  tick.at \in Start .. End /\ TheKey \in Keys
  <2>1. Start <= tick.at
    BY <1>5 DEF WeeklyInv, TickIsOnTime
  <2>2. tick.at \in Start .. End
    BY <1>3, <1>4, <2>1, Constants
  <2> QED
    BY <1>3, <2>2, TheKeys DEF TheKey
<1> QED
  BY <1>1, <1>2, <1>3, <1>4, <1>5

\* What a step does to the clock, and to what counts since when: time does not
\* run backwards.
LEMMA TimeRuns ==
  ASSUME WeeklyInv, [Next]_vars
  PROVE  /\ clock' \in Start .. End /\ clock <= clock'
         /\ lastPost' \in 0 .. clock' /\ lastPost <= lastPost'
         /\ calm' \in Start .. clock' /\ calm <= calm'
         /\ open' \in Start .. clock' /\ open <= open'
<1>1. /\ clock \in Start .. End /\ lastPost \in 0 .. clock
      /\ calm \in Start .. clock /\ open \in Start .. clock
      /\ Start \in Nat /\ End \in Nat
  BY Types, Constants
<1>2. clock' = clock \/ (clock < End /\ clock' = clock + 1)
  BY DEF Next, vars, Tick, Wake, NotDue, Begin, Ask, AskKill, AskPause, ReadData,
         Claim, Deliver, JobRaises, Crash, Restart, Ingested, Command, SetKill,
         SetPause, Pass
<1>3. lastPost' = lastPost \/ (lastPost' = clock /\ clock' = clock)
  BY DEF Next, vars, flags, Tick, Wake, NotDue, Begin, Ask, AskKill, AskPause,
         ReadData, Claim, Deliver, JobRaises, Crash, Restart, Ingested, Command,
         SetKill, SetPause, Pass
<1>4. calm' = calm \/ (calm' = clock /\ clock' = clock)
  BY DEF Next, vars, watch, Tick, Wake, NotDue, Begin, Ask, AskKill, AskPause,
         ReadData, Claim, Deliver, JobRaises, Crash, Restart, Ingested, Command,
         SetKill, SetPause, Pass
<1>5. open' = open \/ (open' = clock /\ clock' = clock)
  BY DEF Next, vars, watch, Tick, Wake, NotDue, Begin, Ask, AskKill, AskPause,
         ReadData, Claim, Deliver, JobRaises, Crash, Restart, Ingested, Command,
         SetKill, SetPause, Pass
<1>6. clock' \in Start .. End /\ clock <= clock'
  BY <1>1, <1>2
<1>7. lastPost' \in 0 .. clock' /\ lastPost <= lastPost'
  BY <1>1, <1>3, <1>6
<1>8. calm' \in Start .. clock' /\ calm <= calm'
  BY <1>1, <1>4, <1>6
<1>9. open' \in Start .. clock' /\ open <= open'
  BY <1>1, <1>5, <1>6
<1> QED
  BY <1>6, <1>7, <1>8, <1>9

\* A step of the scheduler moves the turn on, stamping the job or finding it not
\* due, or moves the job on within its turn; what else there is are the wake-up,
\* the end and the beginning of the process, and what goes on beside it, which
\* may shorten what the tick has noted.
Moves ==
  /\ tick.pc # "asleep" /\ tick'.pc # "asleep" /\ UNCHANGED lastRun
  /\ tick'.at = tick.at /\ tick'.turn = tick.turn /\ tick' \in Ticks(clock)

Beside ==
  /\ UNCHANGED lastRun /\ tick' = [tick EXCEPT !.held = tick'.held]
  /\ tick'.held \subseteq tick.held

LEMMA StepOfTick ==
  ASSUME WeeklyInv, [Next]_vars
  PROVE  \/ Wake \/ NotDue \/ Crash \/ Restart
         \/ Stamp /\ up /\ tick.pc # "asleep" /\ UNCHANGED <<clock, up>>
         \/ Moves /\ up /\ UNCHANGED <<clock, up>>
         \/ Beside /\ UNCHANGED clock /\ UNCHANGED up
         \/ Beside /\ Pass
<1>1. tick \in Ticks(clock)
  BY Types
<1>2. CASE UNCHANGED vars
  <2>1. tick' = [tick EXCEPT !.held = tick.held]
    BY <1>1, <1>2 DEF Ticks, vars
  <2> QED
    BY <1>2, <2>1 DEF vars, Beside
<1>3. CASE Begin
  <2>1. CASE Stamp
    BY <1>3, <2>1 DEF Begin
  <2>2. CASE ~Stamp
    <3>1. /\ up /\ UNCHANGED <<clock, up>> /\ tick.pc = "turn" /\ UNCHANGED lastRun
          /\ tick' = [tick EXCEPT !.pc = IF Obeys(Job) THEN "kill" ELSE "data",
                                  !.held = Flags(killed, paused)]
      BY <1>3, <2>2 DEF Begin
    <3>2. Flags(killed, paused) \in SUBSET {"kill", "pause"}
      BY DEF Flags
    <3> QED
      BY <1>1, <3>1, <3>2 DEF Moves, Ticks
  <2> QED
    BY <2>1, <2>2
<1>4. CASE AskKill \/ AskPause \/ ReadData \/ Claim
  <2>1. CASE Stamp
    BY <1>4, <2>1 DEF AskKill, AskPause, Ask, ReadData, Claim
  <2>2. CASE ~Stamp
    <3>1. /\ up /\ UNCHANGED <<clock, up>> /\ tick.pc # "asleep" /\ UNCHANGED lastRun
      BY <1>4, <2>2 DEF AskKill, AskPause, Ask, ReadData, Claim
    <3>2. \/ tick' = [tick EXCEPT !.pc = "pause"] \/ tick' = [tick EXCEPT !.pc = "send"]
          \/ tick' = [tick EXCEPT !.pc = "data"] \/ tick' = [tick EXCEPT !.pc = "claimed"]
          \/ tick' = [tick EXCEPT !.pc = "send", !.zero = Job = "ops" /\ Silent(tick.at)]
      BY <1>4, <2>2 DEF AskKill, AskPause, Ask, ReadData, Claim
    <3>3. tick' \in Ticks(clock) /\ tick'.pc # "asleep" /\ tick'.at = tick.at
          /\ tick'.turn = tick.turn
      BY <1>1, <3>2 DEF Ticks
    <3> QED
      BY <3>1, <3>3 DEF Moves
  <2> QED
    BY <2>1, <2>2
<1>5. CASE Deliver \/ JobRaises
  BY <1>5 DEF Deliver, JobRaises, AfterRaise
<1>6. CASE Ingested \/ Pass
  <2>1. tick' = [tick EXCEPT !.held = tick.held]
    BY <1>1, <1>6 DEF Ticks, Ingested, Pass
  <2> QED
    BY <1>6, <2>1 DEF Ingested, Pass, Beside
<1>7. ASSUME NEW b \in BOOLEAN, SetKill(b) \/ SetPause(b)
      PROVE  Beside /\ UNCHANGED clock /\ UNCHANGED up
  <2>1. PICK k, p : Command(k, p)
    BY <1>7 DEF SetKill, SetPause
  <2>2. tick' = [tick EXCEPT !.held = tick.held \cap Flags(k, p)]
    BY <2>1 DEF Command
  <2>3. tick'.held = tick.held \cap Flags(k, p)
    BY <1>1, <2>2 DEF Ticks
  <2> QED
    BY <2>1, <2>2, <2>3 DEF Beside, Command
<1> QED
  BY <1>2, <1>3, <1>4, <1>5, <1>6, <1>7 DEF Next, Tick

\* Posts, the operator's commands and time go on beside the tick.
LEMMA WhatIsBeside ==
  ASSUME WeeklyInv,
         Ingested \/ Pass \/ (\E b \in BOOLEAN : SetKill(b) \/ SetPause(b)) \/ UNCHANGED vars
  PROVE  Beside
<1>1. tick \in Ticks(clock)
  BY Types
<1>2. tick' = tick => tick' = [tick EXCEPT !.held = tick'.held]
  BY <1>1 DEF Ticks
<1>3. lastRun' = lastRun
  BY DEF Ingested, Pass, SetKill, SetPause, Command, vars
<1>4. CASE tick' = tick
  BY <1>2, <1>3, <1>4 DEF Beside
<1>5. ASSUME NEW k, NEW p, Command(k, p)
      PROVE  Beside
  <2>1. tick' = [tick EXCEPT !.held = tick.held \cap Flags(k, p)]
    BY <1>5 DEF Command
  <2>2. tick'.held = tick.held \cap Flags(k, p)
    BY <1>1, <2>1 DEF Ticks
  <2> QED
    BY <1>3, <2>1, <2>2 DEF Beside
<1> QED
  BY <1>4, <1>5 DEF Ingested, Pass, SetKill, SetPause, vars

\* What happens to the ledger: the edition whose turn it is is claimed, shown or
\* lost, and no other.
LEMMA StepOfLedger ==
  ASSUME WeeklyInv, [Next]_vars
  PROVE  \/ UNCHANGED <<outbox, messages>>
         \/ /\ tick.pc \in {"send", "claimed"} /\ up /\ TheKey \in Keys
            /\ clock' = clock
            /\ \/ Claim /\ outbox[TheKey] = "unsent" /\ D!Claim(TheKey)
               \/ Deliver /\ D!Deliver(TheKey)
               \/ (JobRaises \/ Crash) /\ D!Lose({TheKey}) /\ calm' = clock
<1>1. tick.pc \in {"send", "claimed"} => TheKey \in Keys
  BY Types
<1> QED
  BY <1>1 DEF Next, vars, ledger, Tick, Wake, NotDue, Begin, Ask, AskKill, AskPause,
     ReadData, Claim, Deliver, JobRaises, Crash, Restart, Ingested, Command, SetKill,
     SetPause, Pass

\* The same, key by key.
LEMMA KeysOfLedger ==
  ASSUME WeeklyInv, [Next]_vars
  PROVE  /\ outbox' \in [Keys -> {"unsent", "claimed", "delivered", "lost"}]
         /\ messages' \in [Keys -> Nat]
         /\ \A k \in Keys : outbox[k] # "unsent" => outbox'[k] # "unsent"
         /\ \A k \in Keys : outbox'[k] # outbox[k] =>
              k = TheKey /\ tick.pc \in {"send", "claimed"} /\ clock' = clock
<1>1. /\ outbox \in [Keys -> {"unsent", "claimed", "delivered", "lost"}]
      /\ messages \in [Keys -> Nat]
  BY Types
<1>2. CASE UNCHANGED <<outbox, messages>>
  BY <1>1, <1>2
<1>3. ASSUME TheKey \in Keys, tick.pc \in {"send", "claimed"}, clock' = clock,
             D!Claim(TheKey) \/ D!Deliver(TheKey) \/ D!Lose({TheKey})
      PROVE  /\ outbox' \in [Keys -> {"unsent", "claimed", "delivered", "lost"}]
             /\ messages' \in [Keys -> Nat]
             /\ \A k \in Keys : outbox[k] # "unsent" => outbox'[k] # "unsent"
             /\ \A k \in Keys : outbox'[k] # outbox[k] =>
                  k = TheKey /\ tick.pc \in {"send", "claimed"} /\ clock' = clock
  <2>1. CASE D!Claim(TheKey)
    BY <1>1, <1>3, <2>1 DEF D!Claim
  <2>2. CASE D!Deliver(TheKey)
    BY <1>1, <1>3, <2>2 DEF D!Deliver
  <2>3. CASE D!Lose({TheKey})
    BY <1>1, <1>3, <2>3 DEF D!Lose
  <2> QED
    BY <1>3, <2>1, <2>2, <2>3
<1> QED
  BY <1>2, <1>3, StepOfLedger

\* The tick and the stamps are well-typed.
LEMMA NextTick ==
  ASSUME WeeklyInv, [Next]_vars
  PROVE  tick' \in Ticks(clock') /\ lastRun' \in [Jobs -> 0 .. clock']
<1>1. /\ tick \in Ticks(clock) /\ lastRun \in [Jobs -> 0 .. clock]
      /\ clock \in Nat /\ clock' \in Nat /\ clock <= clock'
      /\ 0 .. clock \subseteq 0 .. clock'
  <2>1. clock \in Nat /\ clock' \in Nat /\ clock <= clock'
    BY Types, TimeRuns, Constants
  <2>2. 0 .. clock \subseteq 0 .. clock'
    BY <2>1
  <2> QED
    BY <2>1, <2>2, Types DEF Ticks
<1>2. ASSUME tick' \in Ticks(clock), lastRun' \in [Jobs -> 0 .. clock]
      PROVE  tick' \in Ticks(clock') /\ lastRun' \in [Jobs -> 0 .. clock']
  BY <1>1, <1>2 DEF Ticks
<1>3. CASE Wake
  <2>1. tick' = [pc |-> "turn", at |-> clock, turn |-> 1, zero |-> FALSE, held |-> {}]
    BY <1>3 DEF Wake, Asleep
  <2>2. tick' \in Ticks(clock)
    BY <1>1, <2>1 DEF Ticks
  <2> QED
    BY <1>1, <1>2, <1>3, <2>2 DEF Wake
<1>4. CASE NotDue
  BY <1>1, <1>2, <1>4, TurnIsOver DEF NotDue
<1>5. CASE Stamp
  BY <1>1, <1>2, <1>5, TurnIsOver, StampOfJob
<1>6. CASE Crash
  <2>1. /\ tick' = [pc |-> "asleep", at |-> 0, turn |-> 1, zero |-> FALSE, held |-> {}]
        /\ lastRun' = [j \in Jobs |-> 0] /\ 0 \in 0 .. clock
    BY <1>1, <1>6 DEF Crash, Asleep
  <2>2. tick' \in Ticks(clock)
    BY <2>1 DEF Ticks
  <2> QED
    BY <1>2, <2>1, <2>2
<1>7. CASE Restart
  BY <1>1, <1>2, <1>7 DEF Restart
<1>8. CASE Moves
  BY <1>1, <1>2, <1>8 DEF Moves
<1>9. CASE Beside
  BY <1>1, <1>2, <1>9 DEF Beside, Ticks
<1> QED
  BY <1>3, <1>4, <1>5, <1>6, <1>7, <1>8, <1>9, StepOfTick

\* Clock, tick and ledger are well-typed.
LEMMA NextTypeOK ==
  ASSUME WeeklyInv, [Next]_vars
  PROVE  TypeOK'
<1>1. tick' \in [pc : {"asleep", "turn", "kill", "pause", "data", "send", "claimed"},
                 at : 0 .. clock', turn : DOMAIN Order, zero : BOOLEAN,
                 held : SUBSET {"kill", "pause"}]
  BY NextTick, TheJobs DEF Ticks
<1>2. up' \in BOOLEAN /\ killed' \in BOOLEAN /\ paused' \in BOOLEAN
  <2>1. up \in BOOLEAN /\ killed \in BOOLEAN /\ paused \in BOOLEAN
    BY Types
  <2>2. up' = up \/ up' = TRUE \/ up' = FALSE
    BY DEF Next, vars, Tick, Wake, NotDue, Begin, Ask, AskKill, AskPause, ReadData,
       Claim, Deliver, JobRaises, Crash, Restart, Ingested, Command, SetKill, SetPause,
       Pass
  <2>3. \/ killed' = killed /\ paused' = paused
        \/ \E b \in BOOLEAN : SetKill(b) \/ SetPause(b)
    BY DEF Next, vars, flags, Tick, Wake, NotDue, Begin, Ask, AskKill, AskPause, ReadData,
       Claim, Deliver, JobRaises, Crash, Restart, Ingested, Pass
  <2>4. (\E b \in BOOLEAN : SetKill(b) \/ SetPause(b)) =>
          killed' \in BOOLEAN /\ paused' \in BOOLEAN
    BY <2>1 DEF SetKill, SetPause, Command
  <2> QED
    BY <2>1, <2>2, <2>3, <2>4
<1>3. events' \in 0 .. MaxEvents
  <2>1. events \in 0 .. MaxEvents
    BY Types
  <2>2. events' = events \/ (events < MaxEvents /\ events' = events + 1)
    BY DEF Next, vars, flags, Happens, Tick, Wake, NotDue, Begin, Ask, AskKill, AskPause,
       ReadData, Claim, Deliver, JobRaises, Crash, Restart, Ingested, Command, SetKill,
       SetPause, Pass
  <2> QED
    BY <2>1, <2>2, Constants
<1>4. alarms' \subseteq Day(Start) .. Day(clock')
  <2>1. /\ alarms \subseteq Day(Start) .. Day(clock) /\ clock \in Nat /\ clock' \in Nat
        /\ clock <= clock'
    BY Types, TimeRuns, Constants
  <2>2. alarms' = alarms \/ (tick.pc = "claimed" /\ alarms' = alarms \cup {Day(tick.at)})
    BY DEF Next, vars, ledger, Tick, Wake, NotDue, Begin, Ask, AskKill, AskPause,
       ReadData, Claim, Deliver, JobRaises, Crash, Restart, Ingested, Command, SetKill,
       SetPause, Pass
  <2>3. Day(clock) <= Day(clock') /\ Day(clock) \in Nat /\ Day(clock') \in Nat
        /\ Day(Start) \in Nat
    BY <2>1, DaysGrow, DayOfTime, Constants
  <2>4. tick.pc = "claimed" => Day(tick.at) \in Day(Start) .. Day(clock)
    <3> SUFFICES ASSUME tick.pc = "claimed"
                 PROVE  Day(tick.at) \in Day(Start) .. Day(clock)
      OBVIOUS
    <3>1. tick.at \in Nat /\ Start <= tick.at /\ tick.at <= clock /\ Start \in Nat
      BY Types, Constants
    <3>2. Day(Start) <= Day(tick.at) /\ Day(tick.at) <= Day(clock) /\ Day(tick.at) \in Nat
      BY <2>1, <3>1, DaysGrow, DayOfTime
    <3> QED
      BY <2>3, <3>2
  <2>5. Day(Start) .. Day(clock) \subseteq Day(Start) .. Day(clock')
    BY <2>3
  <2>6. alarms' \subseteq Day(Start) .. Day(clock)
    <3> DEFINE days == Day(Start) .. Day(clock)
    <3>1. alarms \subseteq days /\ (tick.pc = "claimed" => Day(tick.at) \in days)
      BY <2>1, <2>4
    <3> HIDE DEF days
    <3>2. alarms' \subseteq days
      BY <2>2, <3>1
    <3> QED
      BY <3>2 DEF days
  <2> QED
    BY <2>5, <2>6
<1>5. D!TypeOK'
  BY KeysOfLedger DEF D!TypeOK
<1> QED
  BY <1>1, <1>2, <1>3, <1>4, <1>5, NextTick, TimeRuns DEF TypeOK

\* A tick is woken in time and not too long.
LEMMA NextTickIsOnTime ==
  ASSUME WeeklyInv, [Next]_vars
  PROVE  TickIsOnTime'
<1>1. /\ clock \in Nat /\ clock' \in Nat /\ calm \in Nat /\ calm' \in Nat /\ calm <= calm'
      /\ Start <= clock /\ tick.at \in Nat /\ tick.at <= clock
  BY Types, TimeRuns, Constants
<1>2. /\ Start \in Nat /\ 0 < Start /\ Slow \in Nat /\ Lag \in Nat \ {0} /\ Slow <= Lag
  BY Constants
<1>3. /\ tick.pc = "asleep" /\ up =>
           clock <= calm \/ (tick.at > 0 /\ clock <= tick.at + Lag)
      /\ tick.pc # "asleep" => up /\ Start <= tick.at /\ clock <= tick.at + Slow
  BY DEF WeeklyInv, TickIsOnTime
<1>4. CASE Wake
  <2>1. up' = up /\ clock' = clock /\ up
    BY <1>4 DEF Wake
  <2>2. tick'.pc = "turn" /\ tick'.at = clock
    BY <1>4 DEF Wake, Asleep
  <2> QED
    BY <1>1, <1>2, <2>1, <2>2 DEF TickIsOnTime
<1>5. ASSUME NotDue \/ (Stamp /\ up /\ tick.pc # "asleep" /\ UNCHANGED <<clock, up>>)
      PROVE  TickIsOnTime'
  <2>1. up' /\ clock' = clock /\ tick.pc # "asleep" /\ tick' = AfterTurn
    BY <1>5 DEF NotDue, Stamp
  <2>2. tick'.at = tick.at
    BY <2>1, TurnIsOver, Types
  <2> QED
    BY <1>1, <1>2, <1>3, <2>1, <2>2 DEF TickIsOnTime
<1>6. CASE Moves /\ up /\ UNCHANGED <<clock, up>>
  BY <1>3, <1>6 DEF Moves, TickIsOnTime
<1>7. CASE Crash
  <2>1. ~up' /\ tick'.pc = "asleep"
    BY <1>7 DEF Crash, Asleep
  <2> QED
    BY <2>1 DEF TickIsOnTime
<1>8. CASE Restart
  <2>1. ~up /\ calm' = clock /\ clock' = clock /\ tick' = tick
    BY <1>8 DEF Restart
  <2> QED
    BY <1>1, <1>3, <2>1 DEF TickIsOnTime
<1>9. ASSUME Beside
      PROVE  tick'.pc = tick.pc /\ tick'.at = tick.at
  BY <1>9, Types DEF Beside, Ticks
<1>10. CASE Beside /\ UNCHANGED clock /\ UNCHANGED up
  BY <1>1, <1>2, <1>3, <1>9, <1>10 DEF TickIsOnTime
<1>11. CASE Beside /\ Pass
  <2>1. /\ clock' = clock + 1 /\ up' = up /\ calm' = calm
        /\ \/ ~up \/ (tick.pc = "asleep" /\ tick.at = clock)
           \/ (tick.pc # "asleep" /\ clock < tick.at + Slow)
    BY <1>11 DEF Pass, watch
  <2> QED
    BY <1>1, <1>2, <1>3, <1>9, <1>11, <2>1 DEF TickIsOnTime
<1> QED
  BY <1>4, <1>5, <1>6, <1>7, <1>8, <1>10, <1>11, StepOfTick

\* Every job has its turn in every tick, and runs when its interval is over.
LEMMA NextRunsKeepPace ==
  ASSUME WeeklyInv, [Next]_vars
  PROVE  RunsKeepPace'
<1> SUFFICES ASSUME NEW i \in 1 .. 4
             PROVE  /\ lastRun'[Order[i]] <= tick'.at
                    /\ tick'.at > 0 /\ (tick'.pc = "asleep" \/ i < tick'.turn)
                         => tick'.at < lastRun'[Order[i]] + Interval[Order[i]]
                    /\ tick'.pc # "asleep" =>
                         \/ tick'.at <= calm'
                         \/ tick'.at < lastRun'[Order[i]] + Interval[Order[i]] + Lag
  BY TheJobs DEF RunsKeepPace
<1> DEFINE j == Order[i]
<1>1. /\ clock \in Nat /\ calm \in Nat /\ calm' \in Nat /\ calm <= calm'
      /\ tick.at \in Nat /\ tick.at <= clock /\ tick.turn \in 1 .. 4
      /\ j \in Jobs /\ lastRun[j] \in Nat /\ lastRun[j] <= clock
      /\ Interval[j] \in Nat \ {0} /\ Lag \in Nat \ {0}
      /\ Job = j <=> i = tick.turn
  BY Types, TimeRuns, Constants, TheJobs, TheIntervals
<1>2. /\ lastRun[j] <= tick.at
      /\ tick.at > 0 /\ (tick.pc = "asleep" \/ i < tick.turn)
           => tick.at < lastRun[j] + Interval[j]
      /\ tick.pc # "asleep" =>
           tick.at <= calm \/ tick.at < lastRun[j] + Interval[j] + Lag
  BY TheJobs DEF WeeklyInv, RunsKeepPace
<1> HIDE DEF j
<1>3. CASE Wake
  <2>1. /\ up /\ tick.pc = "asleep" /\ tick.at < clock /\ lastRun' = lastRun
        /\ calm' = calm
    BY <1>3 DEF Wake, watch
  <2>2. tick'.pc = "turn" /\ tick'.at = clock /\ tick'.turn = 1
    BY <1>3 DEF Wake, Asleep
  <2>3. clock <= calm \/ (tick.at > 0 /\ clock <= tick.at + Lag)
    BY <2>1 DEF WeeklyInv, TickIsOnTime
  <2>4. clock <= calm \/ clock < lastRun[j] + Interval[j] + Lag
    BY <1>1, <1>2, <2>1, <2>3
  <2> QED
    BY <1>1, <1>2, <2>1, <2>2, <2>4 DEF j
<1>4. CASE NotDue
  <2>1. /\ lastRun' = lastRun /\ tick.pc = "turn" /\ tick' = AfterTurn /\ calm' = calm
        /\ ~(tick.at - lastRun[Job] >= Interval[Job])
    BY <1>4 DEF NotDue, Due, watch
  <2>2. /\ tick'.at = tick.at
        /\ \/ tick.turn < 4 /\ tick'.pc = "turn" /\ tick'.turn = tick.turn + 1
           \/ tick.turn = 4 /\ tick'.pc = "asleep"
    BY <2>1, TurnIsOver, Types
  <2>3. i = tick.turn => tick.at < lastRun[j] + Interval[j]
    BY <1>1, <2>1
  <2> QED
    BY <1>1, <1>2, <2>1, <2>2, <2>3 DEF j
<1>5. CASE Stamp /\ tick.pc # "asleep"
  <2>1. /\ tick'.at = tick.at
        /\ \/ tick.turn < 4 /\ tick'.pc = "turn" /\ tick'.turn = tick.turn + 1
           \/ tick.turn = 4 /\ tick'.pc = "asleep"
        /\ lastRun'[j] = IF i = tick.turn THEN tick.at ELSE lastRun[j]
    BY <1>1, <1>5, TurnIsOver, StampOfJob, Types
  <2> QED
    BY <1>1, <1>2, <1>5, <2>1 DEF j
<1>6. CASE Moves
  BY <1>1, <1>2, <1>6 DEF Moves, j
<1>7. CASE Crash
  <2>1. lastRun'[j] = 0 /\ tick'.at = 0 /\ tick'.pc = "asleep"
    BY <1>1, <1>7 DEF Crash, Asleep
  <2> QED
    BY <2>1 DEF j
<1>8. CASE Restart
  BY <1>1, <1>2, <1>8 DEF Restart, j
<1>9. CASE Beside
  <2>1. /\ tick'.pc = tick.pc /\ tick'.at = tick.at /\ tick'.turn = tick.turn
        /\ lastRun' = lastRun
    BY <1>9, Types DEF Beside, Ticks
  <2> QED
    BY <1>1, <1>2, <2>1 DEF j
<1> QED
  BY <1>3, <1>4, <1>5, <1>6, <1>7, <1>8, <1>9, StepOfTick

\* What the tick notes of /kill and /pause stays in force, and an answer of one of
\* the reads strikes it out.
LEMMA NextHoldIsNoted ==
  ASSUME WeeklyInv, [Next]_vars
  PROVE  HoldIsNoted'
<1>1. /\ tick \in Ticks(clock) /\ HoldIsNoted
      /\ \A k, p : Flags(k, p) = {f \in {"kill", "pause"} : (f = "kill" /\ k) \/ (f = "pause" /\ p)}
  BY Types DEF WeeklyInv, Flags
<1>2. ASSUME tick'.held = {}, tick'.pc \in {"asleep", "turn"}
      PROVE  HoldIsNoted'
  BY <1>2 DEF HoldIsNoted
<1>3. CASE Wake \/ Crash
  <2>1. tick'.held = {} /\ tick'.pc \in {"asleep", "turn"}
    <3>1. CASE Wake
      BY <3>1 DEF Wake, Asleep
    <3>2. CASE Crash
      BY <3>2 DEF Crash, Asleep
    <3> QED
      BY <1>3, <3>1, <3>2
  <2> QED
    BY <1>2, <2>1
<1>4. CASE NotDue \/ Stamp
  BY <1>2, <1>4, TurnIsOver, StampOfJob, Types DEF NotDue
<1>5. ASSUME tick'.pc = tick.pc, tick'.turn = tick.turn, tick'.held \subseteq tick.held,
             tick'.held \subseteq Flags(killed', paused')
      PROVE  HoldIsNoted'
  BY <1>1, <1>5 DEF HoldIsNoted, Job
<1>6. CASE Begin /\ ~Stamp
  <2>1. /\ killed' = killed /\ paused' = paused
        /\ tick' = [tick EXCEPT !.pc = IF Obeys(Job) THEN "kill" ELSE "data",
                                !.held = Flags(killed, paused)]
    BY <1>6 DEF Begin, flags
  <2>2. /\ tick'.pc = (IF Job # "ops" THEN "kill" ELSE "data")
        /\ tick'.held = Flags(killed, paused) /\ tick'.turn = tick.turn
    BY <1>1, <2>1 DEF Ticks, Obeys
  <2> QED
    BY <2>1, <2>2 DEF HoldIsNoted, Job
<1>7. CASE AskKill /\ ~Stamp
  <2>1. /\ killed' = killed /\ paused' = paused /\ ~killed /\ tick.pc = "kill"
        /\ tick' = [tick EXCEPT !.pc = "pause"]
    BY <1>7 DEF AskKill, Ask, flags
  <2>2. tick'.pc = "pause" /\ tick'.held = tick.held /\ tick'.turn = tick.turn
    BY <1>1, <2>1 DEF Ticks
  <2>3. "kill" \notin tick.held
    BY <1>1, <2>1 DEF HoldIsNoted
  <2> QED
    BY <1>1, <2>1, <2>2, <2>3 DEF HoldIsNoted, Job
<1>8. CASE AskPause /\ ~Stamp
  <2>1. /\ killed' = killed /\ paused' = paused /\ ~paused /\ tick.pc = "pause"
        /\ tick' = [tick EXCEPT !.pc = IF Job = "digest" THEN "send" ELSE "data"]
    BY <1>8 DEF AskPause, Ask, flags
  <2>2. tick'.pc \in {"data", "send"} /\ tick'.held = tick.held /\ tick'.turn = tick.turn
    BY <1>1, <2>1 DEF Ticks
  <2>3. tick.held = {}
    BY <1>1, <2>1 DEF HoldIsNoted
  <2> QED
    BY <1>1, <2>1, <2>2, <2>3 DEF HoldIsNoted, Job
<1>9. CASE (ReadData \/ Claim) /\ ~Stamp
  <2>1. /\ killed' = killed /\ paused' = paused
        /\ \/ /\ tick.pc = "data"
              /\ tick' = [tick EXCEPT !.pc = "send",
                                      !.zero = Job = "ops" /\ Silent(tick.at)]
           \/ tick' = [tick EXCEPT !.pc = "claimed"]
    BY <1>9 DEF ReadData, Claim, flags
  <2>2. /\ tick'.held = tick.held /\ tick'.turn = tick.turn
        /\ tick'.pc = "claimed" \/ (tick'.pc = "send" /\ tick.pc = "data")
    BY <1>1, <2>1 DEF Ticks
  <2> QED
    BY <1>1, <2>1, <2>2 DEF HoldIsNoted, Job
<1>10. CASE Restart \/ Ingested \/ Pass \/ UNCHANGED vars
  <2>1. tick' = tick /\ killed' = killed /\ paused' = paused
    BY <1>10 DEF Restart, Ingested, Pass, flags, vars
  <2> QED
    BY <1>1, <1>5, <2>1 DEF HoldIsNoted
<1>11. ASSUME NEW b \in BOOLEAN, SetKill(b) \/ SetPause(b)
       PROVE  HoldIsNoted'
  <2>1. PICK k, p : Command(k, p)
    BY <1>11 DEF SetKill, SetPause
  <2>2. tick' = [tick EXCEPT !.held = tick.held \cap Flags(k, p)]
        /\ killed' = k /\ paused' = p
    BY <2>1 DEF Command
  <2>3. /\ tick'.held = tick.held \cap Flags(k, p) /\ tick'.pc = tick.pc
        /\ tick'.turn = tick.turn
    BY <1>1, <2>2 DEF Ticks
  <2> QED
    BY <1>5, <2>2, <2>3
<1>12. (Deliver \/ JobRaises) => Stamp
  BY DEF Deliver, JobRaises, AfterRaise
<1> QED
  BY <1>3, <1>4, <1>6, <1>7, <1>8, <1>9, <1>10, <1>11, <1>12 DEF Next, Tick

\* A job waiting for its message to be delivered has its key.
LEMMA NextClaimIsOwn ==
  ASSUME WeeklyInv, [Next]_vars
  PROVE  ClaimIsOwn'
<1> SUFFICES ASSUME tick'.pc = "claimed"
             PROVE  outbox'[TheKey'] = "claimed"
  BY DEF ClaimIsOwn
<1>1. /\ tick \in Ticks(clock) /\ ClaimIsOwn
      /\ outbox \in [Keys -> {"unsent", "claimed", "delivered", "lost"}]
  BY Types DEF WeeklyInv
<1>2. ASSUME tick'.at = tick.at, tick'.turn = tick.turn
      PROVE  TheKey' = TheKey
  BY <1>2 DEF TheKey, Key, Period, Job
<1>3. CASE Claim /\ ~Stamp
  <2>1. /\ tick' = [tick EXCEPT !.pc = "claimed"] /\ D!Claim(TheKey) /\ TheKey \in Keys
    BY <1>3, Types DEF Claim
  <2>2. TheKey' = TheKey
    BY <1>1, <1>2, <2>1 DEF Ticks
  <2> QED
    BY <1>1, <2>1, <2>2 DEF D!Claim
<1>4. CASE Beside /\ UNCHANGED outbox
  <2>1. tick'.pc = tick.pc /\ TheKey' = TheKey
    BY <1>1, <1>2, <1>4 DEF Beside, Ticks
  <2> QED
    BY <1>1, <1>4, <2>1 DEF ClaimIsOwn
<1>5. CASE (Ingested \/ Pass \/ (\E b \in BOOLEAN : SetKill(b) \/ SetPause(b)) \/ UNCHANGED vars)
  <2>2. UNCHANGED outbox
    BY <1>5 DEF Ingested, Pass, SetKill, SetPause, Command, vars, ledger
  <2>3. Beside
    BY <1>5, WhatIsBeside
  <2> QED
    BY <1>4, <2>2, <2>3
<1>6. ~Stamp /\ ~NotDue /\ ~Wake /\ ~Crash
  <2>1. AfterTurn.pc # "claimed"
    BY <1>1, TurnIsOver
  <2>2. ~Stamp /\ ~NotDue
    BY <2>1 DEF Stamp, NotDue
  <2>3. Wake => tick'.pc = "turn"
    BY DEF Wake, Asleep
  <2>4. Crash => tick'.pc = "asleep"
    BY DEF Crash, Asleep
  <2> QED
    BY <2>2, <2>3, <2>4
<1>7. ~Begin /\ ~AskKill /\ ~AskPause /\ ~ReadData /\ ~Deliver /\ ~JobRaises
  BY <1>1, <1>6 DEF Begin, AskKill, AskPause, Ask, ReadData, Deliver, JobRaises, AfterRaise,
     Ticks
<1>8. CASE Restart
  BY <1>1, <1>2, <1>8 DEF Restart, ledger, ClaimIsOwn
<1> QED
  BY <1>3, <1>5, <1>6, <1>7, <1>8 DEF Next, Tick

-----------------------------------------------------------------------------
(* The weekly report                                                       *)

\* The stamps change only by a job's return, or its exception, at its turn, or
\* they are gone with the process; posts and commands change no stamp.
LEMMA StampsChange ==
  ASSUME WeeklyInv, [Next]_vars, NEW j \in Jobs
  PROVE  /\ lastRun'[j] <= clock
         /\ (Held' <=> Held) \/ open' = clock
         /\ lastPost' = lastPost \/ lastPost' = clock
         /\ \/ lastRun'[j] = lastRun[j]
            \/ lastRun'[j] = 0
            \/ /\ Stamp /\ Job = j /\ lastRun'[j] = tick.at /\ clock' = clock /\ up
               /\ tick.pc # "asleep"
<1>1. /\ lastRun \in [Jobs -> 0 .. clock] /\ tick \in Ticks(clock) /\ clock \in Nat
      /\ tick.at \in 0 .. clock
  BY Types
<1>2. \/ lastRun'[j] = lastRun[j] \/ lastRun'[j] = 0
      \/ /\ Stamp /\ Job = j /\ lastRun'[j] = tick.at /\ clock' = clock /\ up
         /\ tick.pc # "asleep"
  <2>1. CASE Stamp /\ up /\ tick.pc # "asleep" /\ UNCHANGED <<clock, up>>
    BY <1>1, <2>1, StampOfJob
  <2>2. (Wake \/ NotDue \/ Restart \/ Moves \/ Beside) => lastRun' = lastRun
    BY DEF Wake, NotDue, Restart, Moves, Beside
  <2>3. Crash => lastRun'[j] = 0
    BY DEF Crash
  <2> QED
    BY <2>1, <2>2, <2>3, StepOfTick
<1>3. lastRun'[j] <= clock
  BY <1>1, <1>2
<1>4. (Held' <=> Held) \/ open' = clock
  BY DEF Next, vars, flags, Held, Tick, Wake, NotDue, Begin, Ask, AskKill, AskPause,
     ReadData, Claim, Deliver, JobRaises, Crash, Restart, Ingested, Command, SetKill,
     SetPause, Pass
<1>5. lastPost' = lastPost \/ lastPost' = clock
  BY DEF Next, vars, flags, Tick, Wake, NotDue, Begin, Ask, AskKill, AskPause,
     ReadData, Claim, Deliver, JobRaises, Crash, Restart, Ingested, Command, SetKill,
     SetPause, Pass
<1> QED
  BY <1>2, <1>3, <1>4, <1>5

\* A check in the window, undisturbed, tries the edition of the week.
LEMMA CheckTries ==
  ASSUME WeeklyInv, [Next]_vars, NEW w \in Int,
         Stamp, Job = "weekly", tick.pc # "asleep", lastRun'["weekly"] # lastRun["weekly"],
         Week(tick.at) = w, WeeklyDue(tick.at), ~Held, ~Held',
         tick.at <= lastPost + 7 * DayLen, calm' < tick.at
  PROVE  outbox'[WeeklyKey(w)] # "unsent"
<1>1. /\ tick \in Ticks(clock) /\ lastRun \in [Jobs -> 0 .. clock]
      /\ tick.at \in Start .. End /\ tick.at \in 0 .. clock /\ clock \in Nat
      /\ lastPost \in Nat /\ "weekly" \in Jobs
      /\ outbox \in [Keys -> {"unsent", "claimed", "delivered", "lost"}]
      /\ TheKey \in Keys
  BY Types DEF Jobs
<1>2. TheKey = WeeklyKey(w)
  BY <1>1, TheKeys DEF TheKey
<1>3. tick' = AfterTurn
  BY DEF Stamp
<1>4. tick'.pc \in {"turn", "asleep"} /\ lastRun' # lastRun
  BY <1>1, <1>3, TurnIsOver
<1>5. ~Begin
  <2>1. tick' = [tick EXCEPT !.pc = IF Obeys(Job) THEN "kill" ELSE "data",
                             !.held = Flags(killed, paused)]
          => tick'.pc \in {"kill", "data"}
    BY <1>1 DEF Ticks
  <2> QED
    BY <1>4, <2>1 DEF Begin
<1>6. ~AskKill /\ ~AskPause
  BY <1>4 DEF AskKill, AskPause, Ask, Held
<1>7. ~ReadData
  <2>1. Worth("weekly", tick.at)
    BY <1>1, Constants DEF Worth
  <2> QED
    BY <1>4, <2>1 DEF ReadData
<1>8. CASE Claim
  <2>1. outbox[TheKey] # "unsent" /\ outbox' = outbox
    BY <1>4, <1>8 DEF Claim
  <2> QED
    BY <1>2, <2>1
<1>9. CASE Deliver
  BY <1>1, <1>2, <1>9 DEF Deliver, D!Deliver
<1>10. ~JobRaises
  BY <1>1 DEF JobRaises
<1>11. ~Crash
  <2>1. Crash => calm' = clock
    BY DEF Crash
  <2> QED
    BY <1>1, <2>1
<1> QED
  BY <1>4, <1>5, <1>6, <1>7, <1>8, <1>9, <1>10, <1>11
  DEF Next, vars, Tick, Wake, NotDue, Restart, Ingested, Command, SetKill, SetPause, Pass

\* The window of a week, undisturbed and with a check behind the disturbances, is
\* one in which the edition has been tried.
LEMMA NextWeeklyIsTried ==
  ASSUME WeeklyInv, [Next]_vars
  PROVE  WeeklyIsTried'
<1> SUFFICES ASSUME NEW w \in Week(Start) .. Week(clock'),
                    ~Held', WindowOver(w) <= lastPost' + 7 * DayLen,
                    calm' + Soon <= WindowOver(w), open' + Soon <= WindowOver(w),
                    lastPost' + Soon <= WindowOver(w),
                    DayStart(7 * w + 5) - 1 + Soon <= WindowOver(w),
                    clock' <= WindowOver(w),
                    calm' < lastRun'["weekly"], open' < lastRun'["weekly"],
                    lastPost' < lastRun'["weekly"],
                    DayStart(7 * w + 5) - 1 < lastRun'["weekly"]
             PROVE  outbox'[WeeklyKey(w)] # "unsent"
  BY DEF WeeklyIsTried, Undisturbed, Disturbances, WindowOver, Soon, DayStart, WeeklyKey,
         Week, Held
<1> DEFINE over == WindowOver(w)
           first == DayStart(7 * w + 5)
           run == lastRun["weekly"]
           runNow == lastRun'["weekly"]
<1>1. /\ "weekly" \in Jobs /\ run \in 0 .. clock /\ runNow \in 0 .. clock'
      /\ clock \in Nat /\ clock' \in Nat /\ clock <= clock' /\ clock <= End
      /\ Start <= clock /\ Start \in Nat /\ DayLen \in Nat
      /\ tick.at \in Nat /\ tick.at <= clock /\ tick \in Ticks(clock)
  <2>1. "weekly" \in Jobs
    BY DEF Jobs
  <2>2. /\ lastRun \in [Jobs -> 0 .. clock] /\ lastRun' \in [Jobs -> 0 .. clock']
        /\ clock \in Start .. End /\ clock' \in Start .. End /\ clock <= clock'
        /\ tick.at \in 0 .. clock /\ tick \in Ticks(clock)
        /\ Start \in Nat /\ End \in Nat /\ DayLen \in Nat
    BY Types, TimeRuns, NextTick, Constants
  <2> QED
    BY <2>1, <2>2
<1>2. /\ calm \in Nat /\ calm <= calm' /\ calm' \in Nat
      /\ open \in Nat /\ open <= open' /\ open' \in Nat
      /\ lastPost \in Nat /\ lastPost <= lastPost' /\ lastPost' \in Nat
      /\ Soon \in Nat /\ WeeklyEvery + Lag <= Soon /\ WeeklyEvery \in Nat /\ Lag \in Nat
  BY <1>1, Types, TimeRuns, Constants DEF Soon
<1>3. w \in Int /\ Week(Start) <= w
  <2>1. Week(Start) \in Int /\ Week(clock') \in Int
    BY <1>1, Constants DEF Week
  <2> QED
    BY <2>1
<1>4. over \in Int /\ first \in Int /\ first <= over
  <2>1. WindowOver(w) = first + DayLen
    BY <1>1, <1>3 DEF WindowOver, DayStart
  <2> QED
    BY <1>1, <1>3, <2>1, Days
<1> HIDE DEF over, first, run, runNow
<1>5. /\ over <= lastPost' + 7 * DayLen /\ calm' + Soon <= over /\ open' + Soon <= over
      /\ lastPost' + Soon <= over /\ first - 1 + Soon <= over /\ clock' <= over
      /\ calm' < runNow /\ open' < runNow /\ lastPost' < runNow /\ first - 1 < runNow
  BY DEF over, first, runNow
<1>6. /\ runNow <= clock
      /\ (Held' <=> Held) \/ open' = clock
      /\ lastPost' = lastPost \/ lastPost' = clock
      /\ \/ runNow = run \/ runNow = 0
         \/ /\ Stamp /\ Job = "weekly" /\ runNow = tick.at /\ clock' = clock /\ up
            /\ tick.pc # "asleep"
  BY <1>1, StampsChange DEF run, runNow
<1>7. ~Held /\ lastPost' = lastPost
  BY <1>1, <1>2, <1>5, <1>6
<1>8. Week(clock) = w /\ clock <= over /\ first <= clock
  <2>1. clock <= over /\ first <= clock
    BY <1>1, <1>4, <1>5, <1>6
  <2> QED
    BY <1>1, <1>3, <2>1, Saturday DEF over, first
<1>9. WeeklyKey(w) \in Keys
  <2>1. clock \in Start .. End /\ "weekly" \in Jobs
    BY <1>1, Constants
  <2> QED
    BY <1>8, <2>1, TheKeys
\* If the check came before this step, the edition is tried already.
<1>10. ASSUME calm < run, open < run, lastPost < run, first - 1 < run
       PROVE  outbox'[WeeklyKey(w)] # "unsent"
  <2>1. /\ over <= lastPost + 7 * DayLen /\ calm + Soon <= over /\ open + Soon <= over
        /\ lastPost + Soon <= over /\ first - 1 + Soon <= over
    <3>1. calm + Soon <= over /\ open + Soon <= over
      <4>1. calm \in Int /\ calm' \in Int /\ open \in Int /\ open' \in Int /\ Soon \in Int
        BY <1>2
      <4> QED
        BY <1>2, <1>4, <1>5, <4>1, EarlyEnough
    <3>2. over <= lastPost + 7 * DayLen /\ lastPost + Soon <= over
      BY <1>5, <1>7
    <3> QED
      BY <1>5, <3>1, <3>2
  <2>2. Undisturbed(w)
    BY <1>7, <2>1 DEF Undisturbed, Disturbances, over, first
  <2>3. \A t \in Disturbances(w) : t < lastRun["weekly"]
    BY <1>10 DEF Disturbances, run, first
  <2>4. w \in Week(Start) .. Week(clock)
    BY <1>8
  <2>5. outbox[WeeklyKey(w)] # "unsent"
    BY <1>8, <2>2, <2>3, <2>4 DEF WeeklyInv, WeeklyIsTried, over
  <2> QED
    BY <1>9, <2>5, KeysOfLedger
<1>11. CASE runNow = run
  BY <1>1, <1>2, <1>4, <1>5, <1>10, <1>11
\* Else it is this step.
<1>12. CASE runNow # run
  <2>1. /\ Stamp /\ Job = "weekly" /\ runNow = tick.at /\ clock' = clock /\ up
        /\ tick.pc # "asleep"
    BY <1>2, <1>5, <1>6, <1>12
  <2>2. CASE tick.at = over
    <3>1. tick.at <= calm \/ tick.at < run + WeeklyEvery + Lag
      BY <2>1, TheJobs, TheIntervals DEF WeeklyInv, RunsKeepPace, run
    <3>2. over < run + Soon /\ run \in Int
      BY <1>1, <1>2, <1>5, <2>1, <2>2, <3>1
    <3>3. calm < run /\ open < run
      <4>1. calm \in Int /\ calm' \in Int /\ open \in Int /\ open' \in Int /\ Soon \in Int
        BY <1>2
      <4> QED
        BY <1>2, <1>4, <1>5, <3>2, <4>1, EarlyEnough
    <3>4. lastPost < run /\ first - 1 < run
      BY <1>2, <1>4, <1>5, <1>7, <3>2
    <3> QED
      BY <1>10, <3>3, <3>4
  <2>3. CASE tick.at # over
    <3>1. first <= tick.at /\ tick.at < over
      BY <1>1, <1>4, <1>5, <2>1, <2>3
    <3>2. Week(tick.at) = w /\ WeeklyDue(tick.at)
      <4>1. DayStart(7 * w + 5) <= tick.at /\ tick.at < WindowOver(w)
        BY <3>1 DEF first, over
      <4>2. tick.at <= WindowOver(w)
        BY <1>1, <1>4, <4>1 DEF over
      <4> QED
        BY <1>1, <1>3, <4>1, <4>2, Saturday
    <3>3. tick.at <= lastPost + 7 * DayLen /\ calm' < tick.at
      BY <1>1, <1>2, <1>4, <1>5, <1>7, <2>1, <3>1
    <3> QED
      BY <1>3, <1>7, <1>12, <2>1, <3>2, <3>3, CheckTries DEF run, runNow
  <2> QED
    BY <2>2, <2>3
<1> QED
  BY <1>11, <1>12

\* So it is when the window is over: the scheduler keeps pace, and a check came
\* after the last of the disturbances.
LEMMA PaceCatchesUp ==
  ASSUME TypeOK, TickIsOnTime, RunsKeepPace, WeeklyIsTried
  PROVE  WeeklyCatchesUp
<1> SUFFICES ASSUME NEW w \in Week(Start) .. Week(clock), clock = WindowOver(w), up,
                    tick.pc = "asleep", Undisturbed(w)
             PROVE  outbox[WeeklyKey(w)] # "unsent"
  BY DEF WeeklyCatchesUp
<1> DEFINE run == lastRun["weekly"]
<1>1. /\ clock \in Nat /\ calm \in Nat /\ open \in Nat /\ lastPost \in Nat
      /\ run \in Nat /\ tick.at \in Nat
      /\ Soon \in Nat /\ WeeklyEvery \in Nat \ {0} /\ Lag \in Nat
      /\ WeeklyEvery + Lag <= Soon
  <2>1. /\ clock \in Start .. End /\ lastPost \in 0 .. clock
        /\ lastRun \in [Jobs -> 0 .. clock] /\ tick.at \in 0 .. clock
        /\ calm \in Start .. clock /\ open \in Start .. clock
    BY DEF TypeOK
  <2>2. "weekly" \in Jobs
    BY DEF Jobs
  <2> QED
    BY <2>1, <2>2, Constants DEF Soon
<1>2. /\ clock <= calm \/ (tick.at > 0 /\ clock <= tick.at + Lag)
      /\ tick.at > 0 => tick.at < run + WeeklyEvery
  BY TheJobs, TheIntervals DEF TickIsOnTime, RunsKeepPace
<1> HIDE DEF run
<1>3. calm + Soon <= clock
  BY DEF Undisturbed, Disturbances
<1>4. clock < run + Soon
  BY <1>1, <1>2, <1>3
<1>5. ASSUME NEW t \in Disturbances(w)
      PROVE  t < run
  <2>1. t + Soon <= clock
    BY <1>5 DEF Undisturbed
  <2>2. t \in Int
    <3>1. Week(Start) \in Int /\ Week(clock) \in Int
      BY <1>1, Constants DEF Week
    <3>2. DayStart(7 * w + 5) \in Int
      BY <3>1, Days
    <3> QED
      BY <1>1, <1>5, <3>2 DEF Disturbances
  <2> QED
    BY <1>1, <1>4, <2>1, <2>2
<1>6. clock <= WindowOver(w)
  BY <1>1
<1> QED
  BY <1>5, <1>6 DEF WeeklyIsTried, run

\* What is inductive; WeeklyCatchesUp follows from it.
WeeklyCore ==
  /\ TypeOK
  /\ TickIsOnTime /\ RunsKeepPace /\ HoldIsNoted /\ ClaimIsOwn /\ WeeklyIsTried

\* In the beginning nothing has run and nothing was sent.
LEMMA InitWeeklyCore == Init => WeeklyCore
<1> SUFFICES ASSUME Init
             PROVE  WeeklyCore
  OBVIOUS
<1>1. /\ clock = Start /\ lastPost = 0 /\ calm = Start /\ open = Start /\ events = 0
      /\ up = TRUE /\ killed = FALSE /\ paused = FALSE /\ alarms = {}
      /\ lastRun = [j \in Jobs |-> 0] /\ D!Init
  BY DEF Init
<1>2. tick = [pc |-> "asleep", at |-> 0, turn |-> 1, zero |-> FALSE, held |-> {}]
  BY DEF Init, Asleep
<1>3. /\ Start \in Nat /\ End \in Nat /\ Start <= End /\ MaxEvents \in Nat
      /\ "weekly" \in Jobs /\ \A i \in 1 .. 4 : Order[i] \in Jobs
  BY Constants, TheJobs DEF Jobs
<1>4. TypeOK
  <2>1. clock \in Start .. End /\ lastPost \in 0 .. clock /\ events \in 0 .. MaxEvents
        /\ {calm, open} \subseteq Start .. clock /\ 0 \in 0 .. clock
    BY <1>1, <1>3
  <2>2. tick \in [pc : {"asleep", "turn", "kill", "pause", "data", "send", "claimed"},
                  at : 0 .. clock, turn : DOMAIN Order, zero : BOOLEAN,
                  held : SUBSET {"kill", "pause"}]
    BY <1>2, <2>1, TheJobs
  <2>3. lastRun \in [Jobs -> 0 .. clock] /\ D!TypeOK
    BY <1>1, <2>1 DEF D!Init, D!TypeOK
  <2> QED
    BY <1>1, <2>1, <2>2, <2>3 DEF TypeOK
<1>5. TickIsOnTime /\ HoldIsNoted /\ ClaimIsOwn
  BY <1>1, <1>2, <1>3 DEF TickIsOnTime, HoldIsNoted, ClaimIsOwn
<1>6. RunsKeepPace
  BY <1>1, <1>2, <1>3, TheJobs DEF RunsKeepPace
<1>7. WeeklyIsTried
  <2>1. \A w : calm \in Disturbances(w) /\ ~(calm < lastRun["weekly"])
    BY <1>1, <1>3 DEF Disturbances
  <2> QED
    BY <2>1 DEF WeeklyIsTried
<1> QED
  BY <1>4, <1>5, <1>6, <1>7 DEF WeeklyCore

\* The scheduler keeps pace whatever the jobs, the operator and the crashes do, and
\* so the weekly report catches up (worker.py:222, jobs.py:387).
THEOREM WeeklyIsSound == Spec => []WeeklyInv
<1>1. WeeklyCore => WeeklyInv
  BY PaceCatchesUp DEF WeeklyCore, WeeklyInv
<1>2. WeeklyCore /\ [Next]_vars => WeeklyCore'
  BY <1>1, NextTypeOK, NextTickIsOnTime, NextRunsKeepPace, NextHoldIsNoted,
     NextClaimIsOwn, NextWeeklyIsTried DEF WeeklyCore
<1> QED
  BY <1>1, <1>2, InitWeeklyCore, PTL DEF Spec

\* An edition that has been held back since before its job began is never claimed:
\* what the tick has noted of the hold is what its two reads have not denied.
THEOREM HoldIsHeard == Spec => HoldIsObeyed
<1>1. WeeklyInv /\ [Next]_vars =>
        [\A k \in Keys : outbox[k] = "unsent" /\ outbox'[k] = "claimed" /\ k.job # "ops"
           => tick.held = {}]_vars
  <2> SUFFICES ASSUME WeeklyInv, [Next]_vars,
                      NEW k \in Keys, outbox[k] = "unsent", outbox'[k] = "claimed",
                      k.job # "ops"
               PROVE  tick.held = {}
    OBVIOUS
  <2>1. k = TheKey /\ tick.pc \in {"send", "claimed"}
    BY KeysOfLedger
  <2>2. Job # "ops"
    BY <2>1 DEF TheKey, Key
  <2>3. tick.pc = "send"
    BY <2>1 DEF WeeklyInv, ClaimIsOwn
  <2> QED
    BY <2>2, <2>3 DEF WeeklyInv, HoldIsNoted
<1> QED
  BY <1>1, WeeklyIsSound, PTL DEF Spec, HoldIsObeyed

-----------------------------------------------------------------------------
(* The ops line                                                            *)

\* A silent day is one of the clock's, with an edition of the ops line, and what
\* goes on in the worker at an earlier time is not of that day.
LEMMA SilentDays ==
  ASSUME WeeklyInv, NEW d \in Int, SilentDay(d), d <= Day(End)
  PROVE  /\ DayStart(d) \in Start .. End /\ DayStart(d) \in Nat /\ Day(DayStart(d)) = d
         /\ d \in Day(Start) .. Day(End) /\ OpsKey(d) \in Keys
         /\ \A t \in Nat : lastPost + DayLen < DayStart(d) /\ (DayStart(d) <= t => Silent(t))
<1>1. /\ Start \in Nat /\ End \in Nat /\ DayLen \in Nat \ {0} /\ lastPost \in Nat
      /\ DayStart(d) \in Int /\ DayStart(d - 1) = DayStart(d) - DayLen
      /\ Start < DayStart(d) /\ lastPost < DayStart(d - 1)
  BY Types, Constants, Days DEF SilentDay
<1>2. DayStart(d) \in Nat /\ Day(End) \in Nat /\ Day(Start) \in Nat
  BY <1>1, DayOfTime
<1>3. DayStart(d) <= End
  <2>1. DayStart(d) <= DayStart(Day(End))
    <3>1. CASE d = Day(End)
      BY <1>1, <3>1
    <3>2. CASE d < Day(End)
      <4>1. d * DayLen + DayLen <= Day(End) * DayLen
        BY <1>1, <1>2, <3>2, MultiplesApart
      <4> QED
        BY <1>1, <1>2, <4>1, Days DEF DayStart
    <3> QED
      BY <1>2, <3>1, <3>2
  <2> QED
    BY <1>1, <1>2, <2>1, DayOfTime, Days
<1>4. Day(DayStart(d)) = d /\ Day(Start) <= d
  <2>1. Day(DayStart(d)) = d
    BY <1>1, <1>2, DayOfTime
  <2> QED
    BY <1>1, <1>2, <2>1, DaysGrow
<1>5. OpsKey(d) \in Keys
  BY <1>1, <1>2, <1>3, <1>4, TheKeys DEF Jobs
<1> QED
  BY <1>1, <1>2, <1>3, <1>4, <1>5 DEF Silent

\* A run of the ops line, once its edition is claimed for what it says, has told.
LEMMA OpsRunTells ==
  ASSUME WeeklyInv, [Next]_vars, NEW d \in Int,
         Stamp, Job = "ops", tick.pc # "asleep", lastRun'["ops"] # lastRun["ops"],
         Day(tick.at) = d, calm' < tick.at,
         outbox[OpsKey(d)] # "unsent" => d \in alarms \/ (tick.pc = "claimed" /\ tick.zero)
  PROVE  d \in alarms'
<1>1. /\ tick \in Ticks(clock) /\ lastRun \in [Jobs -> 0 .. clock]
      /\ tick.at \in Start .. End /\ tick.at \in 0 .. clock /\ clock \in Nat
      /\ TheKey = OpsKey(d)
  BY Types, TheKeys DEF TheKey
<1>2. tick'.pc \in {"turn", "asleep"} /\ lastRun' # lastRun
  BY <1>1, TurnIsOver DEF Stamp
<1>3. ~Begin
  <2>1. tick' = [tick EXCEPT !.pc = IF Obeys(Job) THEN "kill" ELSE "data",
                             !.held = Flags(killed, paused)]
          => tick'.pc \in {"kill", "data"}
    BY <1>1 DEF Ticks
  <2> QED
    BY <1>2, <2>1 DEF Begin
<1>4. ~AskKill /\ ~AskPause
  BY DEF AskKill, AskPause, Ask, WeeklyInv, HoldIsNoted
<1>5. ~ReadData
  BY <1>2 DEF ReadData, Worth
<1>6. CASE Claim
  BY <1>1, <1>2, <1>6 DEF Claim, ledger
<1>7. CASE Deliver
  BY <1>1, <1>7 DEF Deliver, D!Deliver
<1>8. ~JobRaises /\ ~Crash
  BY <1>1 DEF JobRaises, Crash
<1> QED
  BY <1>2, <1>3, <1>4, <1>5, <1>6, <1>7, <1>8
  DEF Next, vars, Tick, Wake, NotDue, Restart, Ingested, Command, SetKill, SetPause, Pass

\* What the ops line of a silent day says stays true: a stamp of the day or later
\* comes with, or after, the line of the day.
LEMMA NextOpsLineIsTrue ==
  ASSUME WeeklyInv, OpsLineIsTrue, [Next]_vars
  PROVE  OpsLineIsTrue'
<1> SUFFICES ASSUME NEW d \in Day(Start) .. Day(End),
                    calm' < DayStart(d), Start < DayStart(d), lastPost' < DayStart(d - 1)
             PROVE  /\ lastRun'["ops"] >= DayStart(d) => d \in alarms'
                    /\ outbox'[OpsKey(d)] # "unsent" =>
                         d \in alarms' \/ (tick'.pc = "claimed" /\ TheKey' = OpsKey(d) /\ tick'.zero)
                    /\ tick'.pc = "send" /\ TheKey' = OpsKey(d) => tick'.zero
  BY DEF OpsLineIsTrue, SilentDay, DayStart, OpsKey, Day
<1>1. /\ tick \in Ticks(clock) /\ clock \in Nat /\ calm \in Nat /\ calm' \in Nat
      /\ calm <= calm' /\ lastPost <= lastPost' /\ lastPost \in Nat /\ lastPost' \in Nat
      /\ tick.at \in Nat /\ tick.at <= clock /\ Start \in Nat /\ End \in Nat
      /\ "ops" \in Jobs /\ lastRun["ops"] \in Nat /\ Job \in Jobs
      /\ tick.pc # "asleep" => tick.at \in Start .. End
  <2>1. "ops" \in Jobs
    BY DEF Jobs
  <2> QED
    BY <2>1, Types, TimeRuns, Constants
<1>2. d \in Int /\ d <= Day(End)
  <2>1. Day(Start) \in Nat /\ Day(End) \in Nat
    BY <1>1, DayOfTime
  <2> QED
    BY <2>1
<1>3. SilentDay(d)
  <2>1. DayStart(d) \in Int /\ DayStart(d - 1) \in Int
    BY <1>2, Days
  <2> QED
    BY <1>1, <2>1 DEF SilentDay
<1>4. /\ DayStart(d) \in Nat /\ OpsKey(d) \in Keys
      /\ \A t \in Nat : DayStart(d) <= t => Silent(t)
  BY <1>2, <1>3, SilentDays
<1>5. /\ lastRun["ops"] >= DayStart(d) => d \in alarms
      /\ outbox[OpsKey(d)] # "unsent" =>
           d \in alarms \/ (tick.pc = "claimed" /\ TheKey = OpsKey(d) /\ tick.zero)
      /\ tick.pc = "send" /\ TheKey = OpsKey(d) => tick.zero
  BY <1>3 DEF OpsLineIsTrue
<1>6. alarms \subseteq alarms'
  BY DEF Next, vars, ledger, Tick, Wake, NotDue, Begin, Ask, AskKill, AskPause,
     ReadData, Claim, Deliver, JobRaises, Crash, Restart, Ingested, Command, SetKill,
     SetPause, Pass
<1>7. ASSUME tick'.at = tick.at, tick'.turn = tick.turn
      PROVE  TheKey' = TheKey
  BY <1>7 DEF TheKey, Key, Period, Job
<1>8. ASSUME tick.pc # "asleep", TheKey = OpsKey(d)
      PROVE  Job = "ops" /\ Day(tick.at) = d /\ DayStart(d) <= tick.at /\ calm' # clock
  <2>1. Job = "ops" /\ Day(tick.at) = d
    BY <1>1, <1>8, TheKeys DEF TheKey
  <2>2. DayStart(d) <= tick.at
    BY <1>1, <2>1, DayOfTime
  <2> QED
    BY <1>1, <1>4, <2>1, <2>2
<1>9. ASSUME Beside
      PROVE  tick'.pc = tick.pc /\ TheKey' = TheKey /\ tick'.zero = tick.zero
  BY <1>1, <1>7, <1>9 DEF Beside, Ticks
<1>10. Stamp \/ NotDue => tick'.pc \in {"turn", "asleep"}
  BY <1>1, TurnIsOver DEF Stamp, NotDue
<1>11. Wake \/ Crash => tick'.pc \in {"turn", "asleep"}
  <2>1. Wake => tick'.pc = "turn"
    BY DEF Wake, Asleep
  <2>2. Crash => tick'.pc = "asleep"
    BY DEF Crash, Asleep
  <2> QED
    BY <2>1, <2>2
\* The stamp.
<1>12. ASSUME lastRun'["ops"] >= DayStart(d)
       PROVE  d \in alarms'
  <2>1. CASE lastRun'["ops"] = lastRun["ops"]
    BY <1>5, <1>6, <1>12, <2>1
  <2>2. CASE lastRun'["ops"] # lastRun["ops"]
    <3>1. /\ Stamp /\ Job = "ops" /\ lastRun'["ops"] = tick.at /\ tick.pc # "asleep"
      BY <1>1, <1>4, <1>12, <2>2, StampsChange
    <3>2. DayStart(d) <= tick.at /\ calm' < tick.at
      BY <1>1, <1>4, <1>12, <3>1
    <3>3. CASE tick.at < DayStart(d) + DayLen
      <4>1. Day(tick.at) = d
        BY <1>1, <1>2, <3>2, <3>3, DayOfTime
      <4> QED
        BY <1>2, <1>5, <2>2, <3>1, <3>2, <4>1, OpsRunTells
    <3>4. CASE ~(tick.at < DayStart(d) + DayLen)
      <4>1. tick.at < lastRun["ops"] + OpsEvery + Lag
        <5>1. tick.at <= calm \/ tick.at < lastRun["ops"] + OpsEvery + Lag
          BY <3>1, TheJobs, TheIntervals DEF WeeklyInv, RunsKeepPace
        <5> QED
          BY <1>1, <3>2, <5>1
      <4>2. lastRun["ops"] >= DayStart(d)
        BY <1>1, <1>4, <3>4, <4>1, Constants
      <4> QED
        BY <1>5, <1>6, <4>2
    <3> QED
      BY <3>3, <3>4
  <2> QED
    BY <2>1, <2>2
\* The ledger.
<1>13. ASSUME outbox'[OpsKey(d)] # "unsent"
       PROVE  d \in alarms' \/ (tick'.pc = "claimed" /\ TheKey' = OpsKey(d) /\ tick'.zero)
  <2>1. CASE outbox[OpsKey(d)] = "unsent"
    <3>1. /\ TheKey = OpsKey(d) /\ tick.pc \in {"send", "claimed"} /\ clock' = clock
      BY <1>4, <1>13, <2>1, KeysOfLedger
    <3>2. Claim /\ outbox[TheKey] = "unsent"
      BY <1>8, <1>13, <2>1, <3>1, StepOfLedger DEF D!Deliver
    <3>3. tick.pc = "send" /\ tick' = [tick EXCEPT !.pc = "claimed"]
      BY <3>2 DEF Claim
    <3>4. tick'.pc = "claimed" /\ TheKey' = TheKey /\ tick'.zero = tick.zero
      BY <1>1, <1>7, <3>3 DEF Ticks
    <3> QED
      BY <1>5, <3>1, <3>3, <3>4
  <2>2. CASE d \in alarms
    BY <1>6, <2>2
  <2>3. CASE tick.pc = "claimed" /\ TheKey = OpsKey(d) /\ tick.zero
    <3>1. CASE Deliver
      BY <1>8, <2>3, <3>1 DEF Deliver
    <3>2. ASSUME Beside
          PROVE  tick'.pc = "claimed" /\ TheKey' = OpsKey(d) /\ tick'.zero
      BY <1>9, <2>3, <3>2
    <3>3. CASE Ingested \/ Pass \/ (\E b \in BOOLEAN : SetKill(b) \/ SetPause(b)) \/ UNCHANGED vars
      BY <3>2, <3>3, WhatIsBeside
    <3>4. ~JobRaises /\ ~Crash
      BY <1>8, <2>3 DEF JobRaises, Crash
    <3>5. ~Restart
      BY <2>3 DEF Restart, WeeklyInv, TickIsOnTime
    <3>6. ~(Wake \/ NotDue \/ Begin \/ AskKill \/ AskPause \/ ReadData \/ Claim)
      BY <2>3 DEF Wake, NotDue, Begin, AskKill, AskPause, Ask, ReadData, Claim
    <3> QED
      BY <3>1, <3>3, <3>4, <3>5, <3>6 DEF Next, Tick
  <2> QED
    BY <1>5, <2>1, <2>2, <2>3
\* The data.
<1>14. ASSUME tick'.pc = "send", TheKey' = OpsKey(d)
       PROVE  tick'.zero
  <2>1. CASE Beside \/ Restart
    <3>1. CASE Beside
      BY <1>5, <1>9, <1>14, <3>1
    <3>2. CASE Restart
      BY <1>5, <1>7, <1>14, <3>2 DEF Restart
    <3> QED
      BY <2>1, <3>1, <3>2
  <2>2. CASE Moves
    <3>1. TheKey = OpsKey(d) /\ tick.pc # "asleep"
      BY <1>7, <1>14, <2>2 DEF Moves
    <3>2. Job = "ops" /\ Silent(tick.at)
      BY <1>1, <1>4, <1>8, <3>1
    <3>3. CASE ReadData
      <4>1. tick' = [tick EXCEPT !.pc = "send", !.zero = Job = "ops" /\ Silent(tick.at)]
        BY <1>10, <1>14, <3>3 DEF ReadData
      <4>2. tick'.zero = (Job = "ops" /\ Silent(tick.at))
        BY <1>1, <4>1 DEF Ticks
      <4> QED
        BY <3>2, <4>2
    <3>4. CASE Ingested \/ Pass \/ (\E b \in BOOLEAN : SetKill(b) \/ SetPause(b)) \/ UNCHANGED vars
      BY <2>1, <3>4, WhatIsBeside
    <3>5. ~AskKill /\ ~AskPause
      BY <3>2 DEF AskKill, AskPause, Ask, WeeklyInv, HoldIsNoted
    <3>6. ~Begin /\ ~Claim
      <4>1. tick' = [tick EXCEPT !.pc = IF Obeys(Job) THEN "kill" ELSE "data",
                                 !.held = Flags(killed, paused)]
              => tick'.pc \in {"kill", "data"}
        BY <1>1 DEF Ticks
      <4>2. tick' = [tick EXCEPT !.pc = "claimed"] => tick'.pc = "claimed"
        BY <1>1 DEF Ticks
      <4> QED
        BY <1>10, <1>14, <4>1, <4>2 DEF Begin, Claim
    <3>7. ~Deliver /\ ~JobRaises /\ ~Wake /\ ~NotDue /\ ~Crash
      BY <1>10, <1>11, <1>14 DEF Deliver, JobRaises, AfterRaise
    <3> QED
      BY <2>1, <3>3, <3>4, <3>5, <3>6, <3>7 DEF Next, Tick
  <2> QED
    BY <1>10, <1>11, <1>14, <2>1, <2>2, StepOfTick
<1> QED
  BY <1>12, <1>13, <1>14

\* When a silent day is over, a run of the job was on it.
LEMMA PaceTells ==
  ASSUME TypeOK, TickIsOnTime, RunsKeepPace, OpsLineIsTrue
  PROVE  DayIsTold
<1> DEFINE d == Day(clock) - 1
           run == lastRun["ops"]
<1> SUFFICES ASSUME clock = DayStart(d + 1), up, tick.pc = "asleep", SilentDay(d)
             PROVE  d \in alarms
  BY DEF DayIsTold
<1>1. /\ clock \in Nat /\ clock <= End /\ calm \in Nat /\ run \in Nat /\ tick.at \in Nat
      /\ Start \in Nat /\ End \in Nat /\ OpsEvery \in Nat \ {0} /\ Lag \in Nat
      /\ OpsEvery + Lag <= DayLen /\ DayLen \in Nat
  <2>1. /\ clock \in Start .. End /\ lastRun \in [Jobs -> 0 .. clock]
        /\ tick.at \in 0 .. clock /\ calm \in Start .. clock
    BY DEF TypeOK
  <2>2. "ops" \in Jobs
    BY DEF Jobs
  <2> QED
    BY <2>1, <2>2, Constants
<1>2. /\ clock <= calm \/ (tick.at > 0 /\ clock <= tick.at + Lag)
      /\ tick.at > 0 => tick.at < run + OpsEvery
  BY TheJobs, TheIntervals DEF TickIsOnTime, RunsKeepPace
<1>3. /\ d \in Int /\ DayStart(d) \in Int /\ clock = DayStart(d) + DayLen
      /\ calm < DayStart(d) /\ Start < DayStart(d)
  <2>1. Day(clock) \in Nat
    BY <1>1, DayOfTime
  <2>2. d \in Int
    BY <2>1
  <2> QED
    BY <2>2, Days DEF SilentDay
<1> HIDE DEF run
<1>4. DayStart(d) <= run
  BY <1>1, <1>2, <1>3
<1>5. d \in Day(Start) .. Day(End)
  <2>1. /\ Day(clock) <= Day(End) /\ Day(clock) \in Nat /\ Day(End) \in Nat
        /\ Day(Start) \in Nat
    BY <1>1, DayOfTime, DaysGrow
  <2>2. DayStart(d) \in Nat /\ Day(DayStart(d)) = d
    BY <1>1, <1>3, DayOfTime, Constants
  <2>3. Day(Start) <= d
    BY <1>1, <1>3, <2>2, DaysGrow
  <2> QED
    BY <1>3, <2>1, <2>3
<1> QED
  BY <1>4, <1>5 DEF OpsLineIsTrue, run

\* A day without posts is told of, /kill or no /kill (worker.py:391, jobs.py:6).
THEOREM SilenceIsHeard == Spec => []SilenceIsTold
<1>1. Init => OpsLineIsTrue
  <2> SUFFICES ASSUME Init, NEW d \in Day(Start) .. Day(End), SilentDay(d)
               PROVE  /\ ~(lastRun["ops"] >= DayStart(d))
                      /\ outbox[OpsKey(d)] = "unsent" /\ tick.pc = "asleep"
    BY DEF OpsLineIsTrue
  <2>1. WeeklyInv
    BY InitWeeklyCore, PaceCatchesUp DEF WeeklyCore, WeeklyInv
  <2>2. d \in Int /\ d <= Day(End)
    <3>1. Day(Start) \in Nat /\ Day(End) \in Nat
      BY DayOfTime, Constants
    <3> QED
      BY <3>1
  <2>3. DayStart(d) \in Nat /\ Start < DayStart(d) /\ Start \in Nat /\ OpsKey(d) \in Keys
    BY <2>1, <2>2, SilentDays, Constants DEF SilentDay
  <2>4. lastRun["ops"] = 0 /\ tick.pc = "asleep"
    BY DEF Init, Jobs, Asleep
  <2>5. outbox[OpsKey(d)] = "unsent"
    BY <2>3 DEF Init, D!Init
  <2> QED
    BY <2>3, <2>4, <2>5
<1>2. WeeklyInv /\ OpsLineIsTrue /\ [Next]_vars => OpsLineIsTrue'
  BY NextOpsLineIsTrue
<1>3. WeeklyInv /\ OpsLineIsTrue => SilenceIsTold
  BY PaceTells DEF WeeklyInv, SilenceIsTold
<1> QED
  BY <1>1, <1>2, <1>3, WeeklyIsSound, PTL DEF Spec

-----------------------------------------------------------------------------
(* Sums over finite sets                                                   *)

\* A smallest one among some subsets of a finite set.
LEMMA SmallestSubset ==
  ASSUME NEW S, IsFiniteSet(S), NEW B, B \subseteq SUBSET S, B # {}
  PROVE  \E u \in B : \A v \in SUBSET u : v # u => v \notin B
<1>1. IsWellFoundedOn(StrictSubsetOrdering(S), SUBSET S)
  BY FS_FiniteSubsetsOfFinite, FS_StrictSubsetOrderingWellFounded
<1> DEFINE R == StrictSubsetOrdering(S)
<1>2. PICK u \in B : \A v \in B : ~(<<v, u>> \in R)
  <2> HIDE DEF R
  <2>1. IsWellFoundedOn(R, SUBSET S)
    BY <1>1 DEF R
  <2> QED
    BY <2>1, WFMin
<1>3. ASSUME NEW v \in SUBSET u, v # u, v \in B
      PROVE  <<v, u>> \in R
  <2>1. v \in SUBSET S /\ u \in SUBSET S /\ v \subseteq u
    BY <1>3
  <2> QED
    BY <1>3, <2>1 DEF StrictSubsetOrdering
<1> HIDE DEF R
<1>4. \A v \in SUBSET u : v # u => v \notin B
  BY <1>2, <1>3
<1>5. u \in B
  OBVIOUS
<1> QED
  BY <1>4, <1>5

\* The partial sums that a sum over S is made of.
Pick(s) == CHOOSE x \in s : TRUE
Adds(f, S, g) ==
  g = [s \in SUBSET S |-> IF s = {} THEN 0 ELSE f[Pick(s)] + g[s \ {Pick(s)}]]

\* A sum is the last of its partial sums.
LEMMA SumIsOfPartials ==
  ASSUME NEW f, NEW S
  PROVE  SumFunctionOnSet(f, S) = (CHOOSE g : Adds(f, S, g))[S]
  BY Zenon DEF SumFunctionOnSet, FoldFunctionOnSet, MapThenFoldSet, Adds, Pick

\* One element is picked.
LEMMA Picked == ASSUME NEW s, s # {} PROVE Pick(s) \in s /\ s \ {Pick(s)} # s
  BY DEF Pick

\* There is only one way to add.
LEMMA OnePartial ==
  ASSUME NEW S, IsFiniteSet(S), NEW T, NEW f, NEW g, NEW h,
         Adds(f, S, g), Adds(f, T, h), NEW u, u \subseteq S, u \subseteq T
  PROVE  g[u] = h[u]
<1> DEFINE B == {v \in SUBSET u : g[v] # h[v]}
<1> SUFFICES ASSUME B # {}
             PROVE  FALSE
  OBVIOUS
<1>1. PICK v \in B : \A w \in SUBSET v : w # v => w \notin B
  <2>1. B \subseteq SUBSET S
    OBVIOUS
  <2> HIDE DEF B
  <2> QED
    BY <2>1, SmallestSubset
<1>2. /\ g[v] = IF v = {} THEN 0 ELSE f[Pick(v)] + g[v \ {Pick(v)}]
      /\ h[v] = IF v = {} THEN 0 ELSE f[Pick(v)] + h[v \ {Pick(v)}]
  BY DEF Adds
<1>3. CASE v = {}
  BY <1>2, <1>3
<1>4. CASE v # {}
  <2>1. PICK w : w = v \ {Pick(v)}
    OBVIOUS
  <2>2. w \in SUBSET v /\ w # v
    BY <1>4, <2>1, Picked
  <2>3. g[w] = h[w]
    BY <1>1, <2>2
  <2> QED
    BY <1>1, <1>2, <1>4, <2>1, <2>3
<1> QED
  BY <1>3, <1>4

\* There is one.
LEMMA SomePartial ==
  ASSUME NEW S, IsFiniteSet(S), NEW f
  PROVE  \E g : Adds(f, S, g)
<1> DEFINE B == {T \in SUBSET S : ~ \E g : Adds(f, T, g)}
<1> SUFFICES ASSUME B # {}
             PROVE  FALSE
  OBVIOUS
<1>1. PICK T \in B : \A u \in SUBSET T : u # T => u \notin B
  <2>1. B \subseteq SUBSET S
    OBVIOUS
  <2> HIDE DEF B
  <2> QED
    BY <2>1, SmallestSubset
<1>2. T \subseteq S /\ ~ \E g : Adds(f, T, g)
  OBVIOUS
<1> DEFINE G(u) == CHOOSE g : Adds(f, u, g)
<1>3. ASSUME NEW u \in SUBSET T, u # T
      PROVE  Adds(f, u, G(u))
  BY <1>1, <1>2, <1>3
<1>4. IsFiniteSet(T) /\ \A u \in SUBSET T : IsFiniteSet(u)
  BY <1>2, FS_Subset
<1> HIDE DEF B, G
<1> DEFINE h == [s \in SUBSET T |-> IF s = {} THEN 0
                   ELSE f[Pick(s)] + G(s \ {Pick(s)})[s \ {Pick(s)}]]
<1>5. ASSUME NEW u \in SUBSET T, u # T
      PROVE  h[u] = G(u)[u]
  <2>1. Adds(f, u, G(u))
    BY <1>3, <1>5
  <2>2. G(u)[u] = IF u = {} THEN 0 ELSE f[Pick(u)] + G(u)[u \ {Pick(u)}]
    BY <2>1 DEF Adds
  <2>3. ASSUME u # {}
        PROVE  G(u)[u \ {Pick(u)}] = G(u \ {Pick(u)})[u \ {Pick(u)}]
    <3>1. PICK v : v = u \ {Pick(u)}
      OBVIOUS
    <3>2. v \subseteq u /\ v \in SUBSET T /\ v # T
      BY <1>5, <2>3, <3>1, Picked
    <3>3. Adds(f, v, G(v))
      BY <1>3, <3>2
    <3> QED
      BY <1>4, <2>1, <3>1, <3>2, <3>3, OnePartial
  <2> QED
    BY <2>2, <2>3
<1>6. ASSUME NEW s \in SUBSET T, s # {}
      PROVE  h[s] = f[Pick(s)] + h[s \ {Pick(s)}]
  <2>1. PICK v : v = s \ {Pick(s)}
    OBVIOUS
  <2>2. v \in SUBSET T /\ v # T
    BY <1>6, <2>1, Picked
  <2>3. h[s] = f[Pick(s)] + G(v)[v]
    BY <1>6, <2>1
  <2> QED
    BY <1>5, <2>1, <2>2, <2>3
<1>7. Adds(f, T, h)
  <2>1. h = [s \in SUBSET T |-> h[s]] /\ (T \in SUBSET T => h[{}] = 0)
    OBVIOUS
  <2> HIDE DEF h
  <2> QED
    BY <1>6, <2>1 DEF Adds
<1> QED
  BY <1>2, <1>7

\* A sum is taken element by element.
LEMMA SumUp ==
  ASSUME NEW S, IsFiniteSet(S), NEW f
  PROVE  /\ S = {} => SumFunctionOnSet(f, S) = 0
         /\ S # {} => SumFunctionOnSet(f, S)
                        = f[Pick(S)] + SumFunctionOnSet(f, S \ {Pick(S)})
<1> DEFINE G(u) == CHOOSE g : Adds(f, u, g)
<1>1. \A u \in SUBSET S : IsFiniteSet(u)
  BY FS_Subset
<1>2. ASSUME NEW u \in SUBSET S
      PROVE  Adds(f, u, G(u)) /\ SumFunctionOnSet(f, u) = G(u)[u]
  <2>1. \E g : Adds(f, u, g)
    BY <1>1, SomePartial
  <2> QED
    BY <2>1, SumIsOfPartials
<1> HIDE DEF G
<1>3. Adds(f, S, G(S)) /\ SumFunctionOnSet(f, S) = G(S)[S]
  BY <1>2
<1>4. G(S)[S] = IF S = {} THEN 0 ELSE f[Pick(S)] + G(S)[S \ {Pick(S)}]
  BY <1>3 DEF Adds
<1>5. ASSUME S # {}
      PROVE  G(S)[S \ {Pick(S)}] = SumFunctionOnSet(f, S \ {Pick(S)})
  <2>1. PICK v : v = S \ {Pick(S)}
    OBVIOUS
  <2>2. v \in SUBSET S
    BY <2>1
  <2>3. Adds(f, v, G(v)) /\ SumFunctionOnSet(f, v) = G(v)[v]
    BY <1>2, <2>2
  <2> QED
    BY <1>3, <2>1, <2>2, <2>3, OnePartial
<1> QED
  BY <1>3, <1>4, <1>5

\* The sum of whole numbers is one, and it is positive if all of them are.
LEMMA SumOfInts ==
  ASSUME NEW S, IsFiniteSet(S), NEW f, \A x \in S : f[x] \in Int
  PROVE  /\ SumFunctionOnSet(f, S) \in Int
         /\ (S # {} /\ \A x \in S : f[x] > 0) => SumFunctionOnSet(f, S) > 0
<1> DEFINE Good(u) ==
             /\ SumFunctionOnSet(f, u) \in Int
             /\ (\A x \in u : f[x] > 0) =>
                  SumFunctionOnSet(f, u) >= 0 /\ (u # {} => SumFunctionOnSet(f, u) > 0)
           B == {u \in SUBSET S : ~ Good(u)}
<1>1. SUFFICES ASSUME B # {}
               PROVE  FALSE
  <2>1. Good(S)
    BY <1>1
  <2> QED
    BY <2>1
<1>2. PICK u \in B : \A v \in SUBSET u : v # u => v \notin B
  <2>1. B \subseteq SUBSET S
    OBVIOUS
  <2> HIDE DEF B
  <2> QED
    BY <1>1, <2>1, SmallestSubset
<1>3. u \subseteq S /\ ~ Good(u) /\ IsFiniteSet(u)
  BY FS_Subset
<1>4. ASSUME u # {}
      PROVE  Good(u)
  <2>1. PICK v : v = u \ {Pick(u)}
    OBVIOUS
  <2>2. v \subseteq u /\ v # u /\ Pick(u) \in u
    BY <1>4, <2>1, Picked
  <2>3. Good(v)
    BY <1>2, <1>3, <2>2
  <2>4. SumFunctionOnSet(f, u) = f[Pick(u)] + SumFunctionOnSet(f, v)
    BY <1>3, <1>4, <2>1, SumUp
  <2>5. f[Pick(u)] \in Int
    BY <1>3, <2>2
  <2>6. (\A x \in u : f[x] > 0) => f[Pick(u)] > 0 /\ \A x \in v : f[x] > 0
    BY <2>2
  <2> QED
    BY <1>4, <2>3, <2>4, <2>5, <2>6
<1>5. u = {} => Good(u)
  BY <1>3, SumUp
<1> QED
  BY <1>3, <1>4, <1>5

\* The sum of multiples is the multiple of the sum.
LEMMA SumOfMultiples ==
  ASSUME NEW S, IsFiniteSet(S), NEW f, NEW g, NEW k \in Int,
         \A x \in S : f[x] \in Int /\ g[x] = k * f[x]
  PROVE  SumFunctionOnSet(g, S) = k * SumFunctionOnSet(f, S)
<1> DEFINE Good(u) == SumFunctionOnSet(g, u) = k * SumFunctionOnSet(f, u)
           B == {u \in SUBSET S : ~ Good(u)}
<1>1. SUFFICES ASSUME B # {}
               PROVE  FALSE
  <2>1. Good(S)
    BY <1>1
  <2> QED
    BY <2>1
<1>2. PICK u \in B : \A v \in SUBSET u : v # u => v \notin B
  <2>1. B \subseteq SUBSET S
    OBVIOUS
  <2> HIDE DEF B
  <2> QED
    BY <1>1, <2>1, SmallestSubset
<1>3. u \subseteq S /\ ~ Good(u) /\ IsFiniteSet(u)
  BY FS_Subset
<1>4. ASSUME u # {}
      PROVE  Good(u)
  <2>1. PICK v : v = u \ {Pick(u)}
    OBVIOUS
  <2>2. v \subseteq u /\ v # u /\ Pick(u) \in u /\ IsFiniteSet(v)
    BY <1>3, <1>4, <2>1, Picked, FS_Subset
  <2>3. Good(v)
    BY <1>2, <1>3, <2>2
  <2>4. /\ SumFunctionOnSet(f, u) = f[Pick(u)] + SumFunctionOnSet(f, v)
        /\ SumFunctionOnSet(g, u) = g[Pick(u)] + SumFunctionOnSet(g, v)
    BY <1>3, <1>4, <2>1, SumUp
  <2>5. f[Pick(u)] \in Int /\ g[Pick(u)] = k * f[Pick(u)]
    BY <1>3, <2>2
  <2>6. SumFunctionOnSet(f, v) \in Int
    <3>1. \A x \in v : f[x] \in Int
      BY <1>3, <2>2
    <3> QED
      BY <2>2, <3>1, SumOfInts
  <2>7. \A x, y \in Int : k * (x + y) = k * x + k * y
    BY SMT
  <2> QED
    BY <2>3, <2>4, <2>5, <2>6, <2>7
<1>5. ASSUME u = {}
      PROVE  Good(u)
  <2>1. SumFunctionOnSet(f, u) = 0 /\ SumFunctionOnSet(g, u) = 0
    BY <1>3, <1>5, SumUp
  <2> QED
    BY <2>1
<1> QED
  BY <1>3, <1>4, <1>5

-----------------------------------------------------------------------------
(* Sequences and numbers                                                   *)

\* An element more at the end of a sequence.
LEMMA AppendOne ==
  ASSUME NEW S, NEW s \in Seq(S), NEW x \in S
  PROVE  /\ Append(s, x) \in Seq(S)
         /\ Len(s) \in Nat
         /\ DOMAIN s = 1 .. Len(s)
         /\ DOMAIN Append(s, x) = 1 .. Len(s) + 1
         /\ \A i \in DOMAIN s : Append(s, x)[i] = s[i]
         /\ Append(s, x)[Len(s) + 1] = x
         /\ ToSet(Append(s, x)) = ToSet(s) \cup {x}
<1>1. <<x>> \in Seq(S) /\ Append(s, x) = s \o <<x>> /\ Range(<<x>>) = {x}
  BY AppendIsConcat DEF Range
<1>2. ToSet(Append(s, x)) = ToSet(s) \cup {x}
  BY <1>1, RangeConcatenation DEF ToSet, Range
<1> QED
  BY <1>2, AppendProperties, LenProperties

\* The least of some numbers.
LEMMA LeastOf ==
  ASSUME NEW S, S \subseteq Nat, S # {}
  PROVE  Min(S) \in S /\ \A y \in S : Min(S) <= y
<1>1. PICK x \in S : \A y \in S : ~(<<y, x>> \in OpToRel(<, Nat))
  BY WFMin, NatLessThanWellFounded
<1>2. OpToRel(<, Nat) = {ss \in Nat \X Nat : ss[1] < ss[2]}
  BY DEF OpToRel
<1>3. \A y \in S : x <= y
  <2> SUFFICES ASSUME NEW y \in S
               PROVE  ~(y < x)
    OBVIOUS
  <2>1. x \in Nat /\ y \in Nat /\ ~(<<y, x>> \in OpToRel(<, Nat))
    BY <1>1
  <2> QED
    BY <1>2, <2>1
<1> QED
  BY <1>3 DEF Min

\* The greatest of some numbers up to n.
LEMMA GreatestOf ==
  ASSUME NEW n \in Nat, NEW S, S \subseteq 1 .. n, S # {}
  PROVE  Max(S) \in S
<1> DEFINE T == {j \in 0 .. n : n - j \in S}
<1>1. T \subseteq Nat /\ T # {}
  <2>1. PICK i \in S : i \in 1 .. n
    OBVIOUS
  <2>2. PICK j \in 0 .. n : n - j = i
    <3>1. n - i \in 0 .. n /\ n - (n - i) = i
      BY <2>1
    <3> QED
      BY <3>1
  <2>3. j \in T
    BY <2>1, <2>2
  <2> QED
    BY <2>3
<1>2. PICK j \in T : \A k \in T : j <= k
  <2> HIDE DEF T
  <2> QED
    BY <1>1, LeastOf
<1>3. \A i \in S : i <= n - j
  <2> SUFFICES ASSUME NEW i \in S
               PROVE  i <= n - j
    OBVIOUS
  <2>1. i \in 1 .. n /\ n - i \in 0 .. n /\ n - (n - i) = i
    OBVIOUS
  <2>2. n - i \in T
    BY <2>1
  <2>3. j <= n - i /\ j \in 0 .. n
    BY <1>2, <2>2
  <2> QED
    BY <2>1, <2>3
<1>4. n - j \in S
  BY <1>2
<1> QED
  BY <1>3, <1>4 DEF Max

-----------------------------------------------------------------------------
(* What was said of a call                                                 *)

\* Who spoke has a last word, and it has a weight.
LEMMA LastWordIs ==
  ASSUME NEW voices \in Voices, NEW a \in {v.account : v \in ToSet(voices)}
  PROVE  LastWord(voices, a).weight \in Nat \ {0} /\ a \in Accounts
<1> DEFINE Voice == [account : Accounts, stance : {-1, 0, 1}, weight : Nat \ {0}]
           I == {i \in 1 .. Len(voices) : voices[i].account = a}
<1>1. voices \in Seq(Voice)
  BY SharesAssumption
<1>2. /\ Len(voices) \in Nat /\ DOMAIN voices = 1 .. Len(voices)
      /\ \A i \in 1 .. Len(voices) : voices[i] \in Voice
  <2> HIDE DEF Voice
  <2> QED
    BY <1>1, LenProperties, ElementOfSeq
<1>3. PICK k \in 1 .. Len(voices) : voices[k].account = a
  BY <1>2 DEF ToSet
<1>4. I # {} /\ I \subseteq 1 .. Len(voices)
  BY <1>3
<1>5. Max(I) \in I
  <2> HIDE DEF I
  <2> QED
    BY <1>2, <1>4, GreatestOf
<1>6. LastWord(voices, a) = voices[Max(I)]
  BY <1>4 DEF LastWord, SelectLastInSeq
<1>7. LastWord(voices, a) \in Voice
  <2>1. PICK i \in 1 .. Len(voices) : i = Max(I)
    BY <1>5
  <2> QED
    BY <1>2, <1>6, <2>1
<1>8. a \in Accounts
  BY <1>2, <1>3
<1> QED
  BY <1>7, <1>8

\* What some of them say adds up to something that divides Unit.
LEMMA TotalIs ==
  ASSUME NEW voices \in Voices, NEW S \in SUBSET {v.account : v \in ToSet(voices)}, S # {}
  PROVE  /\ Total(voices, S) \in Nat \ {0}
         /\ \E k \in Nat : Unit = k * Total(voices, S)
         /\ IsFiniteSet(S)
<1> DEFINE f == [a \in S |-> LastWord(voices, a).weight]
<1>1. \A a \in S : f[a] \in Int /\ f[a] > 0 /\ a \in Accounts
  BY LastWordIs
<1>2. IsFiniteSet(S)
  BY <1>1, SharesAssumption, FS_Subset
<1>3. Total(voices, S) = SumFunctionOnSet(f, S)
  BY DEF Total
<1>4. SumFunctionOnSet(f, S) \in Int /\ SumFunctionOnSet(f, S) > 0
  <2> HIDE DEF f
  <2> QED
    BY <1>1, <1>2, SumOfInts
<1>5. \E k \in 0 .. Unit : Unit = k * Total(voices, S)
  BY SharesAssumption
<1> QED
  BY <1>2, <1>3, <1>4, <1>5

\* A share of a side that says n in all, where n divides x.
LEMMA Divided ==
  ASSUME NEW x \in Int, NEW n \in Nat \ {0}
  PROVE  (x * n) \div n = x
  OBVIOUS

\* Nothing changes about who said what, and of the calls of the lists.
LEMMA SidesOf ==
  ASSUME LoopTypeOK, NEW c \in Calls
  PROVE  /\ contribs[c] \in Voices
         /\ Speakers(c) = {v.account : v \in ToSet(contribs[c])}
         /\ Aligned(c) \in SUBSET Speakers(c) /\ Opposed(c) \in SUBSET Speakers(c)
         /\ Speakers(c) = Aligned(c) \cup Opposed(c)
         /\ Aligned(c) \cap Opposed(c) = {}
         /\ Speakers(c) \subseteq Accounts
<1>1. contribs[c] \in Voices
  BY DEF LoopTypeOK
<1>2. Speakers(c) \subseteq Accounts
  BY <1>1, LastWordIs DEF Speakers
<1> QED
  BY <1>1, <1>2 DEF Speakers, Aligned, Opposed

\* The shares of a side, and what they add up to.
LEMMA SharesOfSide ==
  ASSUME LoopTypeOK, NEW c \in Calls, NEW S, S \in {Aligned(c), Opposed(c)}, S # {}
  PROVE  /\ \A a \in S : Share(c, a) \in Int
         /\ SumFunctionOnSet([a \in S |-> Share(c, a)], S)
              = (IF S = Aligned(c) THEN 1 ELSE -1) * call[c].result * Unit
<1> DEFINE voices == contribs[c]
           sign == IF S = Aligned(c) THEN 1 ELSE -1
           r == call[c].result
           w == [a \in S |-> LastWord(voices, a).weight]
           shares == [a \in S |-> Share(c, a)]
<1>1. /\ voices \in Voices /\ S \in SUBSET {v.account : v \in ToSet(voices)}
  BY SidesOf
<1>2. PICK n \in Nat \ {0}, k \in Nat :
        n = Total(voices, S) /\ Unit = k * n /\ IsFiniteSet(S)
  BY <1>1, TotalIs
<1>3. r \in Int /\ sign \in Int
  BY SharesAssumption DEF LoopTypeOK
<1>4. PICK m \in Int : m = sign * r * k
  BY <1>3
<1>5. ASSUME NEW a \in S
      PROVE  w[a] \in Int /\ shares[a] = m * w[a]
  <2>1. LastWord(voices, a).weight \in Nat \ {0}
    BY <1>1, LastWordIs
  <2>2. PICK v \in Nat \ {0} : v = w[a]
    BY <2>1
  <2>3. Share(c, a) = (sign * r * Unit * v) \div n
    <3>1. a \in Aligned(c) <=> S = Aligned(c)
      BY SidesOf
    <3>2. S = IF a \in Aligned(c) THEN Aligned(c) ELSE Opposed(c)
      BY SidesOf
    <3> QED
      BY <1>2, <2>2, <3>1, <3>2 DEF Share
  <2>4. sign * r * Unit * v = (m * v) * n
    BY <1>2, <1>3, <1>4, <2>2
  <2>5. ((m * v) * n) \div n = m * v
    <3>1. PICK x \in Int : x = m * v
      BY <2>2
    <3> QED
      BY <3>1, Divided
  <2> QED
    BY <2>2, <2>3, <2>4, <2>5
<1>6. \A a \in S : Share(c, a) \in Int
  BY <1>5
<1>7. SumFunctionOnSet(shares, S) = m * SumFunctionOnSet(w, S)
  <2> HIDE DEF w, shares
  <2> QED
    BY <1>2, <1>5, SumOfMultiples
<1>8. SumFunctionOnSet(w, S) = n
  BY <1>2 DEF Total
<1>9. m * n = sign * r * Unit
  BY <1>2, <1>3, <1>4
<1> QED
  BY <1>6, <1>7, <1>8, <1>9

\* So the shares add up.
LEMMA SharesDoAddUp == LoopTypeOK => SharesAddUp
<1> SUFFICES ASSUME LoopTypeOK, NEW c \in Closed
             PROVE  /\ Aligned(c) # {} =>
                         SumFunctionOnSet([a \in Aligned(c) |-> Share(c, a)], Aligned(c))
                           = call[c].result * Unit
                    /\ Opposed(c) # {} =>
                         SumFunctionOnSet([a \in Opposed(c) |-> Share(c, a)], Opposed(c))
                           = 0 - call[c].result * Unit
  BY DEF SharesAddUp
<1>1. c \in Calls /\ call[c].result \in Int /\ Unit \in Int
  BY SharesAssumption DEF Closed, LoopTypeOK
<1>2. PICK A, O : A = Aligned(c) /\ O = Opposed(c)
  OBVIOUS
<1>3. A # {} => SumFunctionOnSet([a \in A |-> Share(c, a)], A) = 1 * call[c].result * Unit
  BY <1>1, <1>2, SharesOfSide
<1>4. O # {} => SumFunctionOnSet([a \in O |-> Share(c, a)], O) = -1 * call[c].result * Unit
  <2>1. O # {} => O # A
    BY <1>1, <1>2, SidesOf
  <2> QED
    BY <1>1, <1>2, <2>1, SharesOfSide
<1>5. /\ 1 * call[c].result * Unit = call[c].result * Unit
      /\ -1 * call[c].result * Unit = 0 - call[c].result * Unit
  BY <1>1
<1> QED
  BY <1>2, <1>3, <1>4, <1>5

\* A score is a floor or numbers.
LEMMA ScoredIs == ASSUME LoopTypeOK, NEW a \in Accounts PROVE Scored(Closed, a) \in Scores
<1> DEFINE mine == {c \in Closed : a \in Speakers(c)}
           shares == [c \in mine |-> Share(c, a)]
           wins == {c \in mine : Share(c, a) > 0}
<1>1. mine \subseteq Calls /\ wins \subseteq Calls
  BY DEF Closed
<1>2. IsFiniteSet(mine) /\ IsFiniteSet(wins)
  <2> HIDE DEF mine, wins
  <2> QED
    BY <1>1, SharesAssumption, FS_Subset
<1>3. Cardinality(mine) \in Nat /\ Cardinality(wins) \in Nat
  <2> HIDE DEF mine, wins
  <2> QED
    BY <1>2, FS_CardinalityType
<1>4. ASSUME NEW c \in mine
      PROVE  shares[c] \in Int
  <2>1. c \in Calls /\ a \in Speakers(c)
    BY <1>1
  <2>2. PICK S : S \in {Aligned(c), Opposed(c)} /\ a \in S
    BY <2>1, SidesOf
  <2>3. Share(c, a) \in Int
    BY <2>1, <2>2, SharesOfSide
  <2> QED
    BY <2>3
<1>5. SumFunctionOnSet(shares, mine) \in Int
  <2> HIDE DEF mine, shares
  <2> QED
    BY <1>2, <1>4, SumOfInts
<1>6. Scored(Closed, a) = Floor \/ Scored(Closed, a)
        = [n |-> Cardinality(mine), wins |-> Cardinality(wins),
           sum |-> SumFunctionOnSet(shares, mine)]
  BY DEF Scored
<1> HIDE DEF mine, wins, shares
<1> QED
  BY <1>3, <1>5, <1>6 DEF Scores

\* All that a run writes is such a score, of accounts there are.
LEMMA RecomputedIs ==
  ASSUME LoopTypeOK, NEW run
  PROVE  /\ \E S \in SUBSET Accounts : Recomputed(run) \in [S -> Scores]
         /\ DOMAIN Recomputed(run) = {a \in Accounts : \E c \in Closed : a \in Speakers(c)}
         /\ \A a \in DOMAIN Recomputed(run) : Recomputed(run)[a] = Scored(Closed, a)
<1> DEFINE S == UNION {Speakers(c) : c \in Closed}
<1>1. \A c \in Closed : Speakers(c) \subseteq Accounts
  BY SidesOf DEF Closed
<1>2. S \subseteq Accounts /\ S = {a \in Accounts : \E c \in Closed : a \in Speakers(c)}
  BY <1>1
<1>3. Recomputed(run) = [a \in S |-> Scored(Closed, a)]
  BY DEF Recomputed
<1>4. \A a \in S : Scored(Closed, a) \in Scores
  BY <1>2, ScoredIs
<1> HIDE DEF S
<1> QED
  BY <1>2, <1>3, <1>4

-----------------------------------------------------------------------------
(* Types                                                                   *)

\* The tick, field by field.
LEMMA TickIs ==
  ASSUME LoopTypeOK
  PROVE  /\ job = [pc |-> job.pc, now |-> job.now, due |-> job.due,
                    closed |-> job.closed, scores |-> job.scores, todo |-> job.todo]
         /\ job.pc \in {"idle", "bars", "ledger", "close", "rows", "scored", "refresh"}
         /\ job.now \in 0 .. today /\ job.due \subseteq Calls
         /\ job.closed \subseteq Closed
         /\ \E S \in SUBSET Accounts : job.scores \in [S -> Scores]
         /\ job.todo \subseteq Calls \cup Accounts
         /\ job.todo \subseteq IF job.pc \in {"bars", "ledger"} THEN Calls ELSE Accounts
         /\ today \in 1 .. MaxDay /\ today \in Nat
  BY BoundsAssumption DEF LoopTypeOK

\* Nobody says anything more of a call, and no call is closed or opened.
Settled == UNCHANGED <<direction, contribs, call>>

\* Then every score is what it was.
LEMMA SettledStays ==
  ASSUME Settled
  PROVE  /\ Closed' = Closed /\ Still' = Still
         /\ \A c : Speakers(c)' = Speakers(c)
         /\ \A a : Scored(Closed, a)' = Scored(Closed, a)
         /\ \A run : Recomputed(run)' = Recomputed(run)
<1> USE DEF Settled
<1>1. Closed' = Closed /\ Still' = Still
  BY DEF Closed, Still
<1>2. ASSUME NEW c
      PROVE  Speakers(c)' = Speakers(c)
  BY DEF Speakers
<1>3. ASSUME NEW c
      PROVE  Aligned(c)' = Aligned(c) /\ Opposed(c)' = Opposed(c)
  BY <1>2 DEF Aligned, Opposed
<1>4. ASSUME NEW c, NEW a
      PROVE  Share(c, a)' = Share(c, a)
  BY <1>3 DEF Share
<1>5. ASSUME NEW a
      PROVE  Scored(Closed, a)' = Scored(Closed, a)
  BY <1>1, <1>2, <1>4 DEF Scored
<1>6. ASSUME NEW run
      PROVE  Recomputed(run)' = Recomputed(run)
  BY <1>1, <1>2, <1>5 DEF Recomputed
<1> QED
  BY <1>1, <1>2, <1>5, <1>6

\* The types, by kind: a tick; and calls, tapes and rows.
TickOK(t, closed, day) ==
  /\ t \in [pc : {"idle", "bars", "ledger", "close", "rows", "scored", "refresh"},
            now : 0 .. day, due : SUBSET Calls, closed : SUBSET closed,
            scores : {t.scores}, todo : SUBSET (Calls \cup Accounts)]
  /\ \E S \in SUBSET Accounts : t.scores \in [S -> Scores]
  /\ t.todo \subseteq IF t.pc \in {"bars", "ledger"} THEN Calls ELSE Accounts

Tapes(day) == [bars : 0 .. day, ledger : 0 .. day]
States(day) == [state : {"live", "closed"}, result : Results \cup {0}, at : 0 .. day,
                tape : Tapes(day)]
Rows(day) == [as_of : 1 .. day, of : Scores \cup {Evidence}]

LedgerOK ==
  /\ today \in 1 .. MaxDay
  /\ direction \in [Calls -> {1, -1}] /\ contribs \in [Calls -> Voices]
  /\ tape \in [Calls -> Tapes(today)] /\ call \in [Calls -> States(today)]
  /\ rows \in [Accounts -> Seq(Rows(today))]
  /\ faults \in 0 .. MaxFaults /\ owed \in BOOLEAN /\ ran \in BOOLEAN

\* Both together are all types.
LEMMA TypesAre == LoopTypeOK <=> LedgerOK /\ TickOK(job, Closed, today)
  BY DEF LoopTypeOK, LedgerOK, TickOK, Tapes, States, Rows

\* A tick whose fields are of their kinds is one.
LEMMA TickTyped ==
  ASSUME NEW t, NEW closed, NEW day,
         NEW p \in {"idle", "bars", "ledger", "close", "rows", "scored", "refresh"},
         NEW n \in 0 .. day, NEW d \in SUBSET Calls, NEW c \in SUBSET closed, NEW s,
         \E S \in SUBSET Accounts : s \in [S -> Scores],
         NEW todo \in SUBSET (Calls \cup Accounts),
         todo \subseteq IF p \in {"bars", "ledger"} THEN Calls ELSE Accounts,
         t = [pc |-> p, now |-> n, due |-> d, closed |-> c, scores |-> s, todo |-> todo]
  PROVE  TickOK(t, closed, day)
<1>1. /\ t.pc = p /\ t.now = n /\ t.due = d /\ t.closed = c
      /\ t.scores = s /\ t.todo = todo
  OBVIOUS
<1> QED
  BY <1>1 DEF TickOK

\* The tick at rest, without any scores.
LEMMA IdleIs ==
  /\ Idle = [pc |-> "idle", now |-> 0, due |-> {}, closed |-> {}, scores |-> <<>>,
             todo |-> {}]
  /\ Idle.pc = "idle" /\ Idle.now = 0 /\ Idle.due = {} /\ Idle.closed = {}
  /\ Idle.scores = <<>> /\ Idle.todo = {}
  /\ \E S \in SUBSET Accounts : <<>> \in [S -> Scores]
<1>1. {} \in SUBSET Accounts /\ <<>> \in [{} -> Scores]
  OBVIOUS
<1>2. \E S \in SUBSET Accounts : <<>> \in [S -> Scores]
  BY <1>1
<1> QED
  BY <1>2 DEF Idle

\* Nothing is fetched, closed or written yet.
LEMMA InitTyped == LoopInit => LoopTypeOK
<1> SUFFICES ASSUME LoopInit
             PROVE  LoopTypeOK
  OBVIOUS
<1>1. today = 1 /\ today \in 1 .. MaxDay /\ job = Idle
  BY BoundsAssumption DEF LoopInit
<1>2. Unfetched \in Tapes(today) /\ Live \in States(today)
  BY <1>1 DEF Unfetched, Live, Tapes, States
<1>3. rows \in [Accounts -> Seq(Rows(today))]
  <2>1. <<>> \in Seq(Rows(today))
    OBVIOUS
  <2> QED
    BY <2>1 DEF LoopInit
<1>4. LedgerOK
  <2>1. tape \in [Calls -> Tapes(today)] /\ call \in [Calls -> States(today)]
    <3>1. tape = [c \in Calls |-> Unfetched] /\ call = [c \in Calls |-> Live]
      BY DEF LoopInit
    <3> QED
      BY <1>2, <3>1
  <2>2. direction \in [Calls -> {1, -1}] /\ contribs \in [Calls -> Voices]
    BY DEF LoopInit
  <2>3. faults \in 0 .. MaxFaults
    BY BoundsAssumption DEF LoopInit
  <2>4. owed = FALSE /\ ran = FALSE
    BY DEF LoopInit
  <2>5. owed \in BOOLEAN /\ ran \in BOOLEAN
    BY <2>4
  <2> QED
    BY <1>1, <1>3, <2>1, <2>2, <2>3, <2>5 DEF LedgerOK
<1>5. TickOK(job, Closed, today)
  <2>1. 0 \in 0 .. today /\ {} \in SUBSET Calls /\ {} \in SUBSET Closed
        /\ {} \in SUBSET (Calls \cup Accounts)
    BY <1>1
  <2> QED
    BY <1>1, <2>1, IdleIs, TickTyped
<1> QED
  BY <1>4, <1>5, TypesAre

\* The kinds at the end of a step are all types.
LEMMA TypesThen == LedgerOK' /\ TickOK(job', Closed', today') => LoopTypeOK'
  BY DEF LoopTypeOK, LedgerOK, TickOK, Tapes, States, Rows

\* A step of the tick that leaves calls, tapes and rows alone.
LEMMA TickMoves ==
  ASSUME LedgerOK, UNCHANGED <<today, direction, contribs, tape, call, rows>>,
         faults' \in 0 .. MaxFaults, owed' \in BOOLEAN, ran' \in BOOLEAN,
         TickOK(job', Closed, today)
  PROVE  LoopTypeOK'
<1>1. LedgerOK'
  BY DEF LedgerOK
<1>2. Closed' = Closed
  BY DEF Closed
<1>3. TickOK(job', Closed', today')
  BY <1>2
<1> QED
  BY <1>1, <1>3, TypesThen

\* What was of a day is of all later ones.
LEMMA DaysPass ==
  ASSUME NEW d \in Nat
  PROVE  /\ Tapes(d) \subseteq Tapes(d + 1) /\ States(d) \subseteq States(d + 1)
         /\ Rows(d) \subseteq Rows(d + 1) /\ 0 .. d \subseteq 0 .. d + 1
<1>1. 0 .. d \subseteq 0 .. d + 1 /\ 1 .. d \subseteq 1 .. d + 1
  OBVIOUS
<1>2. Tapes(d) \subseteq Tapes(d + 1)
  BY <1>1 DEF Tapes
<1>3. States(d) \subseteq States(d + 1)
  BY <1>1, <1>2 DEF States
<1>4. Rows(d) \subseteq Rows(d + 1)
  BY <1>1 DEF Rows
<1> QED
  BY <1>1, <1>2, <1>3, <1>4

\* Another day leaves the types alone.
LEMMA NextDayTyped == LoopTypeOK /\ NextDay => LoopTypeOK'
<1> SUFFICES ASSUME LoopTypeOK, NextDay
             PROVE  LoopTypeOK'
  OBVIOUS
<1>1. LedgerOK /\ TickOK(job, Closed, today)
  BY TypesAre
<1>2. PICK d \in Nat : d = today /\ today' = d + 1 /\ d + 1 \in 1 .. MaxDay
  BY <1>1, BoundsAssumption DEF LedgerOK, NextDay
<1>3. UNCHANGED <<direction, contribs, tape, call, rows, job, faults, owed>> /\ ran' = FALSE
  BY DEF NextDay
<1>4. LedgerOK'
  <2>1. tape \in [Calls -> Tapes(d)] /\ call \in [Calls -> States(d)]
        /\ rows \in [Accounts -> Seq(Rows(d))]
    BY <1>1, <1>2 DEF LedgerOK
  <2>2. Tapes(d) \subseteq Tapes(d + 1) /\ States(d) \subseteq States(d + 1)
        /\ Seq(Rows(d)) \subseteq Seq(Rows(d + 1))
    BY DaysPass, SeqMonotonic
  <2>3. tape \in [Calls -> Tapes(d + 1)] /\ call \in [Calls -> States(d + 1)]
        /\ rows \in [Accounts -> Seq(Rows(d + 1))]
    BY <2>1, <2>2
  <2>4. /\ tape' \in [Calls -> Tapes(today')] /\ call' \in [Calls -> States(today')]
        /\ rows' \in [Accounts -> Seq(Rows(today'))]
    BY <1>2, <1>3, <2>3
  <2>5. direction' \in [Calls -> {1, -1}] /\ contribs' \in [Calls -> Voices]
        /\ faults' \in 0 .. MaxFaults /\ today' \in 1 .. MaxDay
    BY <1>1, <1>2, <1>3 DEF LedgerOK
  <2>6. owed' \in BOOLEAN /\ ran' \in BOOLEAN
    BY <1>1, <1>3 DEF LedgerOK
  <2> QED
    BY <2>4, <2>5, <2>6 DEF LedgerOK
<1>5. Closed' = Closed
  BY <1>3 DEF Closed
<1>6. TickOK(job', Closed', today')
  <2>1. TickOK(job, Closed, d)
    BY <1>1, <1>2
  <2>2. TickOK(job, Closed, d + 1)
    BY <2>1 DEF TickOK
  <2> QED
    BY <1>2, <1>3, <1>5, <2>2
<1> QED
  BY <1>4, <1>6, TypesThen

\* The tick's own steps.
LEMMA TickTypes ==
  ASSUME LoopTypeOK,
         StartTick \/ StartScoring \/ Recompute \/ ScoresSaved \/ StartRefresh \/ EndTick \/ Fails
  PROVE  LoopTypeOK'
<1>1. LedgerOK /\ TickOK(job, Closed, today)
  BY TypesAre
<1>2. UNCHANGED <<today, direction, contribs, tape, call, rows>>
  BY DEF StartTick, StartScoring, Recompute, ScoresSaved, StartRefresh, EndTick, Fails
<1>3. faults' \in 0 .. MaxFaults
  <2>1. faults' = faults \/ (faults < MaxFaults /\ faults' = faults + 1)
    BY DEF StartTick, StartScoring, Recompute, ScoresSaved, StartRefresh, EndTick, Fails
  <2>2. faults \in 0 .. MaxFaults
    BY <1>1 DEF LedgerOK
  <2> QED
    BY <2>1, <2>2, BoundsAssumption
<1>4. owed' \in BOOLEAN
  <2>1. owed' \in {owed, FALSE, owed \/ job.closed # {}}
    BY DEF StartTick, StartScoring, Recompute, ScoresSaved, StartRefresh, EndTick, Fails
  <2> QED
    BY <1>1, <2>1 DEF LedgerOK
<1>5. ran' \in BOOLEAN
  <2>1. ran' \in {ran, TRUE}
    BY DEF StartTick, StartScoring, Recompute, ScoresSaved, StartRefresh, EndTick, Fails
  <2> QED
    BY <1>1, <2>1 DEF LedgerOK
<1>6. SUFFICES TickOK(job', Closed, today)
  BY <1>1, <1>2, <1>3, <1>4, <1>5, TickMoves
<1>7. PICK p, n, due, closed, s, todo :
        /\ job = [pc |-> p, now |-> n, due |-> due, closed |-> closed, scores |-> s,
                   todo |-> todo]
        /\ p = job.pc /\ n = job.now /\ due = job.due /\ closed = job.closed
        /\ s = job.scores /\ todo = job.todo
        /\ n \in 0 .. today /\ due \in SUBSET Calls /\ closed \in SUBSET Closed
        /\ p \in {"idle", "bars", "ledger", "close", "rows", "scored", "refresh"}
        /\ \E S \in SUBSET Accounts : s \in [S -> Scores]
        /\ todo \in SUBSET (Calls \cup Accounts)
        /\ todo \subseteq IF p \in {"bars", "ledger"} THEN Calls ELSE Accounts
  BY TickIs
<1>8. PICK z : z = <<>>
  OBVIOUS
<1>9. Idle = [pc |-> "idle", now |-> 0, due |-> {}, closed |-> {}, scores |-> z,
              todo |-> {}]
      /\ \E S \in SUBSET Accounts : z \in [S -> Scores]
  BY <1>8, IdleIs
<1>10. /\ 0 \in 0 .. today /\ {} \in SUBSET Calls /\ {} \in SUBSET Closed
       /\ {} \in SUBSET (Calls \cup Accounts) /\ today \in 0 .. today
       /\ \A q : {} \subseteq IF q \in {"bars", "ledger"} THEN Calls ELSE Accounts
  BY <1>1 DEF LedgerOK
<1>11. CASE StartTick
  <2>1. Still \in SUBSET (Calls \cup Accounts) /\ Still \subseteq Calls
    BY DEF Still
  <2>2. job' = [pc |-> "bars", now |-> today, due |-> {}, closed |-> {},
                 scores |-> z, todo |-> Still]
    BY <1>9, <1>11 DEF StartTick
  <2> QED
    BY <1>9, <1>10, <2>1, <2>2, TickTyped
<1>12. CASE StartScoring
  <2>1. PICK d \in SUBSET Calls : d = {c \in Still : DueOn[c] <= job.now}
    BY DEF Still
  <2>2. job' = [pc |-> "close", now |-> n, due |-> d, closed |-> closed,
                 scores |-> s, todo |-> {}]
    BY <1>7, <1>12, <2>1 DEF StartScoring
  <2> QED
    BY <1>7, <1>10, <2>1, <2>2, TickTyped
<1>13. CASE Recompute
  <2>1. PICK scores : scores = Recomputed(closed)
    OBVIOUS
  <2>2. PICK S \in SUBSET Accounts : scores \in [S -> Scores] /\ DOMAIN scores = S
    BY <2>1, RecomputedIs
  <2>3. CASE job' = [job EXCEPT !.pc = "scored"]
    <3>1. job' = [pc |-> "scored", now |-> n, due |-> due, closed |-> closed,
                   scores |-> s, todo |-> todo]
      BY <1>7, <2>3
    <3>2. todo \subseteq Accounts
      BY <1>7, <1>13 DEF Recompute
    <3> QED
      BY <1>7, <3>1, <3>2, TickTyped
  <2>4. CASE job' = [job EXCEPT !.pc = "rows", !.scores = scores, !.todo = DOMAIN scores]
    <3>1. job' = [pc |-> "rows", now |-> n, due |-> due, closed |-> closed,
                   scores |-> scores, todo |-> S]
      BY <1>7, <2>2, <2>4
    <3>2. S \in SUBSET (Calls \cup Accounts) /\ S \subseteq Accounts
      OBVIOUS
    <3> QED
      BY <1>7, <2>2, <3>1, <3>2, TickTyped
  <2> QED
    BY <1>7, <1>13, <2>1, <2>3, <2>4 DEF Recompute
<1>14. CASE ScoresSaved
  <2>1. job' = [pc |-> "scored", now |-> n, due |-> due, closed |-> closed,
                 scores |-> s, todo |-> todo]
    BY <1>7, <1>14 DEF ScoresSaved
  <2>2. todo \subseteq Accounts
    BY <1>7, <1>14 DEF ScoresSaved
  <2> QED
    BY <1>7, <2>1, <2>2, TickTyped
<1>15. CASE StartRefresh
  <2>1. PICK S \in SUBSET Accounts :
          job' = [pc |-> "refresh", now |-> n, due |-> {}, closed |-> {},
                   scores |-> z, todo |-> S]
    BY <1>7, <1>9, <1>15 DEF StartRefresh
  <2>2. S \in SUBSET (Calls \cup Accounts) /\ S \subseteq Accounts
    OBVIOUS
  <2> QED
    BY <1>7, <1>9, <1>10, <2>1, <2>2, TickTyped
<1>16. CASE job' = Idle
  BY <1>9, <1>10, <1>16, TickTyped
<1>17. CASE job' = [Idle EXCEPT !.pc = "scored", !.now = job.now]
  <2>1. job' = [pc |-> "scored", now |-> n, due |-> {}, closed |-> {}, scores |-> z,
                 todo |-> {}]
    BY <1>7, <1>9, <1>17
  <2> QED
    BY <1>7, <1>9, <1>10, <2>1, TickTyped
<1> QED
  BY <1>11, <1>12, <1>13, <1>14, <1>15, <1>16, <1>17 DEF EndTick, Fails

\* A symbol's bars or ledger are fetched.
LEMMA FetchTypes ==
  ASSUME LoopTypeOK, NEW c \in Calls, SaveBars(c) \/ SaveAdjustments(c)
  PROVE  LoopTypeOK'
<1>1. LedgerOK /\ TickOK(job, Closed, today)
  BY TypesAre
<1>2. UNCHANGED <<today, direction, contribs, call, rows, faults, ran, owed>>
  BY DEF SaveBars, SaveAdjustments
<1>3. tape' \in [Calls -> Tapes(today)]
  <2>1. /\ tape \in [Calls -> Tapes(today)] /\ today \in 0 .. today
        /\ tape[c].bars \in 0 .. today /\ tape[c].ledger \in 0 .. today
    BY <1>1 DEF LedgerOK, Tapes
  <2>2. PICK b \in 0 .. today, l \in 0 .. today :
          tape' = [tape EXCEPT ![c] = [bars |-> b, ledger |-> l]]
    <3>1. PICK tb, tl : /\ tape[c] = [bars |-> tb, ledger |-> tl]
                        /\ tb \in 0 .. today /\ tl \in 0 .. today
      BY <2>1 DEF Tapes
    <3>2. CASE SaveBars(c)
      <4>1. tape' = [tape EXCEPT ![c] = [tape[c] EXCEPT !.bars = today]]
        BY <3>2 DEF SaveBars
      <4>2. [tape[c] EXCEPT !.bars = today] = [bars |-> today, ledger |-> tl]
        BY <3>1
      <4> QED
        BY <2>1, <3>1, <4>1, <4>2
    <3>3. CASE SaveAdjustments(c)
      <4>1. tape' = [tape EXCEPT ![c] = [tape[c] EXCEPT !.ledger = today]]
        BY <3>3 DEF SaveAdjustments
      <4>2. [tape[c] EXCEPT !.ledger = today] = [bars |-> tb, ledger |-> today]
        BY <3>1
      <4> QED
        BY <2>1, <3>1, <4>1, <4>2
    <3> QED
      BY <3>2, <3>3
  <2>3. [bars |-> b, ledger |-> l] \in Tapes(today)
    BY DEF Tapes
  <2> QED
    BY <2>1, <2>2, <2>3
<1>4. LedgerOK'
  BY <1>1, <1>2, <1>3 DEF LedgerOK
<1>5. Closed' = Closed
  BY <1>2 DEF Closed
<1>6. PICK p, n, due, closed, s, todo :
        /\ job = [pc |-> p, now |-> n, due |-> due, closed |-> closed, scores |-> s,
                   todo |-> todo]
        /\ p = job.pc /\ todo = job.todo
        /\ n \in 0 .. today /\ closed \in SUBSET Closed
        /\ p \in {"idle", "bars", "ledger", "close", "rows", "scored", "refresh"}
        /\ \E S \in SUBSET Accounts : s \in [S -> Scores]
        /\ todo \in SUBSET (Calls \cup Accounts)
        /\ todo \subseteq IF p \in {"bars", "ledger"} THEN Calls ELSE Accounts
  BY TickIs
<1>7. PICK q \in {"bars", "ledger"}, d \in SUBSET Calls, t \in SUBSET todo :
        job' = [pc |-> q, now |-> n, due |-> d, closed |-> closed, scores |-> s,
                 todo |-> t]
  <2>1. CASE SaveBars(c)
    <3>1. job' = [pc |-> "ledger", now |-> n, due |-> {c}, closed |-> closed,
                   scores |-> s, todo |-> todo]
      BY <1>6, <2>1 DEF SaveBars
    <3> QED
      BY <3>1
  <2>2. CASE SaveAdjustments(c)
    <3>1. job' = [pc |-> "bars", now |-> n, due |-> {}, closed |-> closed,
                   scores |-> s, todo |-> todo \ {c}]
      BY <1>6, <2>2 DEF SaveAdjustments
    <3> QED
      BY <3>1
  <2> QED
    BY <2>1, <2>2
<1>8. t \in SUBSET (Calls \cup Accounts) /\ t \subseteq Calls
  BY <1>6, <1>7 DEF SaveBars, SaveAdjustments
<1>9. TickOK(job', Closed, today)
  BY <1>6, <1>7, <1>8, TickTyped
<1> QED
  BY <1>2, <1>4, <1>5, <1>9, TypesThen

\* A call is closed or left for later: what was closed stays so.
LEMMA CloseIs ==
  ASSUME LoopTypeOK, NEW c \in Calls, CloseCall(c)
  PROVE  /\ UNCHANGED <<today, direction, contribs, tape, rows, ran, faults, owed>>
         /\ job.pc = "close" /\ job'.pc = "close" /\ job'.now = job.now
         /\ job'.due = job.due \ {c} /\ job'.scores = job.scores /\ job'.todo = job.todo
         /\ c \in job.due /\ job'.closed \subseteq job.closed \cup {c}
         /\ job.closed \subseteq job'.closed
         /\ \A b \in Calls \ {c} : call'[b] = call[b]
         /\ \/ call' = call /\ job'.closed = job.closed
            \/ /\ c \in job'.closed
               /\ \E r \in Results : call'[c] = [state |-> "closed", result |-> r,
                                                 at |-> job.now, tape |-> tape[c]]
         /\ job' = [pc |-> "close", now |-> job.now, due |-> job'.due,
                     closed |-> job'.closed, scores |-> job.scores, todo |-> job.todo]
         /\ DOMAIN call' = Calls
<1>1. UNCHANGED <<today, direction, contribs, tape, rows, ran, faults, owed>>
      /\ job.pc = "close" /\ c \in job.due
  BY DEF CloseCall
<1>2. PICK n, due, closed, s, todo :
        /\ job = [pc |-> "close", now |-> n, due |-> due, closed |-> closed,
                   scores |-> s, todo |-> todo]
        /\ n = job.now /\ due = job.due /\ closed = job.closed /\ s = job.scores /\ todo = job.todo
  BY <1>1, TickIs
<1>3. DOMAIN call = Calls
  BY DEF LoopTypeOK
<1>4. PICK run :
        /\ job' = [pc |-> "close", now |-> n, due |-> due \ {c}, closed |-> run,
                    scores |-> s, todo |-> todo]
        /\ \/ call' = call /\ run = closed
           \/ /\ run = closed \cup {c}
              /\ \E r \in Results :
                   call' = [call EXCEPT ![c] = [state |-> "closed", result |-> r,
                                                at |-> n, tape |-> tape[c]]]
  <2>1. CASE job' = [job EXCEPT !.due = @ \ {c}] /\ call' = call
    <3>1. job' = [pc |-> "close", now |-> n, due |-> due \ {c}, closed |-> closed,
                   scores |-> s, todo |-> todo]
      BY <1>2, <2>1
    <3> QED
      BY <2>1, <3>1
  <2>2. ASSUME NEW r \in Results,
               call' = [call EXCEPT ![c] = [state |-> "closed", result |-> r,
                                            at |-> job.now, tape |-> tape[c]]],
               job' = [job EXCEPT !.due = @ \ {c}, !.closed = @ \cup {c}]
        PROVE  /\ job' = [pc |-> "close", now |-> n, due |-> due \ {c},
                           closed |-> closed \cup {c}, scores |-> s, todo |-> todo]
               /\ call' = [call EXCEPT ![c] = [state |-> "closed", result |-> r,
                                               at |-> n, tape |-> tape[c]]]
    BY <1>2, <2>2
  <2> QED
    BY <2>1, <2>2 DEF CloseCall
<1>5. /\ job'.pc = "close" /\ job'.now = n /\ job'.due = due \ {c} /\ job'.closed = run
      /\ job'.scores = s /\ job'.todo = todo
  BY <1>4
<1>6. closed \subseteq run /\ run \subseteq closed \cup {c}
  BY <1>4
<1>7. (\A b \in Calls \ {c} : call'[b] = call[b]) /\ DOMAIN call' = Calls
  BY <1>3, <1>4
<1>8. \/ call' = call /\ run = closed
      \/ /\ c \in run
         /\ \E r \in Results : call'[c] = [state |-> "closed", result |-> r,
                                           at |-> n, tape |-> tape[c]]
  BY <1>3, <1>4
<1> QED
  BY <1>1, <1>2, <1>4, <1>5, <1>6, <1>7, <1>8

\* A call that is closed is one of today, and stays so.
LEMMA CloseTypes ==
  ASSUME LoopTypeOK, NEW c \in Calls, CloseCall(c)
  PROVE  LoopTypeOK' /\ Closed \subseteq Closed'
<1>1. LedgerOK /\ TickOK(job, Closed, today)
  BY TypesAre
<1>2. /\ UNCHANGED <<today, direction, contribs, tape, rows, ran, faults, owed>>
      /\ job'.due = job.due \ {c} /\ job'.closed \subseteq job.closed \cup {c}
      /\ job' = [pc |-> "close", now |-> job.now, due |-> job'.due,
                  closed |-> job'.closed, scores |-> job.scores, todo |-> job.todo]
      /\ DOMAIN call' = Calls
      /\ \A b \in Calls \ {c} : call'[b] = call[b]
      /\ \/ call' = call /\ job'.closed = job.closed
         \/ c \in job'.closed /\ \E r \in Results : call'[c] = [state |-> "closed",
                                                                 result |-> r,
                                           at |-> job.now, tape |-> tape[c]]
      /\ job.pc = "close"
  BY CloseIs
<1>3. /\ job.now \in 0 .. today /\ job.due \subseteq Calls /\ job.closed \subseteq Closed
      /\ \E S \in SUBSET Accounts : job.scores \in [S -> Scores]
      /\ job.todo \subseteq Accounts
  BY <1>2, TickIs
<1>4. call' \in [Calls -> States(today)]
  <2>1. call \in [Calls -> States(today)] /\ tape[c] \in Tapes(today)
    BY <1>1 DEF LedgerOK
  <2>2. ASSUME NEW r \in Results
        PROVE  [state |-> "closed", result |-> r, at |-> job.now,
                tape |-> tape[c]] \in States(today)
    BY <1>3, <2>1 DEF States
  <2>3. CASE call' = call
    BY <2>1, <2>3
  <2>4. CASE call' # call
    <3>1. call'[c] \in States(today)
      BY <1>2, <2>2, <2>4
    <3>2. \A b \in Calls : call'[b] \in States(today)
      BY <1>2, <2>1, <3>1
    <3>3. call' = [b \in Calls |-> call'[b]]
      <4>1. call' = call \/ \E x : call' = [call EXCEPT ![c] = x]
        BY DEF CloseCall
      <4> QED
        BY <2>1, <4>1
    <3> QED
      BY <3>2, <3>3
  <2> QED
    BY <2>3, <2>4
<1>5. LedgerOK'
  BY <1>1, <1>2, <1>4 DEF LedgerOK
<1>6. /\ Closed \subseteq Closed'
      /\ job'.closed = job.closed \/ c \in Closed'
  <2>1. (\E r \in Results : call'[c] = [state |-> "closed", result |-> r,
                                        at |-> job.now, tape |-> tape[c]])
          => call'[c].state = "closed"
    OBVIOUS
  <2>2. call'[c] = call[c] \/ call'[c].state = "closed"
    BY <1>2, <2>1
  <2> QED
    BY <1>2, <2>1, <2>2 DEF Closed
<1>7. job'.closed \subseteq Closed'
  BY <1>2, <1>3, <1>6
<1>8. TickOK(job', Closed', today)
  <2>1. PICK due, closed, s, todo, n, cl : due = job'.due /\ closed = job'.closed /\ s = job.scores
                                  /\ todo = job.todo /\ n = job.now /\ cl = Closed'
    OBVIOUS
  <2>2. job' = [pc |-> "close", now |-> n, due |-> due, closed |-> closed,
                 scores |-> s, todo |-> todo]
    BY <1>2, <2>1
  <2>3. /\ n \in 0 .. today /\ due \in SUBSET Calls /\ closed \in SUBSET cl
        /\ \E S \in SUBSET Accounts : s \in [S -> Scores]
        /\ todo \in SUBSET (Calls \cup Accounts) /\ todo \subseteq Accounts
    BY <1>2, <1>3, <1>7, <2>1
  <2>4. TickOK(job', cl, today)
    BY <2>2, <2>3, TickTyped
  <2> QED
    BY <2>1, <2>4
<1> QED
  BY <1>2, <1>5, <1>6, <1>8, TypesThen

\* A row is added at the end of an account's.
LEMMA InsertIs ==
  ASSUME LoopTypeOK, NEW a \in Accounts, NEW of \in Scores \cup {Evidence}, job.now > 0,
         Insert(a, of)
  PROVE  /\ rows' \in [Accounts -> Seq(Rows(today))]
         /\ \A b \in Accounts \ {a} : rows'[b] = rows[b]
         /\ ToSet(rows'[a]) = ToSet(rows[a]) \cup {[as_of |-> job.now, of |-> of]}
<1>1. rows \in [Accounts -> Seq(Rows(today))]
  BY TypesAre DEF LedgerOK
<1>2. PICK r : r = [as_of |-> job.now, of |-> of]
  OBVIOUS
<1>3. r \in Rows(today)
  BY <1>2, TickIs DEF Rows
<1>4. rows' = [rows EXCEPT ![a] = Append(@, r)]
  BY <1>2 DEF Insert
<1>5. Append(rows[a], r) \in Seq(Rows(today)) /\ ToSet(Append(rows[a], r)) = ToSet(rows[a]) \cup {r}
  BY <1>1, <1>3, AppendOne
<1> QED
  BY <1>1, <1>2, <1>4, <1>5

\* A score is saved, or the evidence of one account.
LEMMA RowTypes ==
  ASSUME LoopTypeOK, job.now > 0, NEW a \in Accounts,
         (SaveScore(a) /\ job.todo \subseteq DOMAIN job.scores) \/ Refresh(a)
  PROVE  LoopTypeOK'
<1>1. LedgerOK /\ TickOK(job, Closed, today)
  BY TypesAre
<1>2. PICK of \in Scores \cup {Evidence} : Insert(a, of)
  <2>1. PICK S \in SUBSET Accounts : job.scores \in [S -> Scores]
    BY TickIs
  <2>2. CASE SaveScore(a)
    BY <2>1, <2>2 DEF SaveScore, Refresh
  <2>3. CASE Refresh(a)
    BY <2>3 DEF Refresh
  <2> QED
    BY <2>2, <2>3
<1>3. UNCHANGED <<today, direction, contribs, tape, call, ran, faults, owed>>
  BY DEF SaveScore, Refresh, Insert
<1>4. rows' \in [Accounts -> Seq(Rows(today))]
  BY <1>2, InsertIs
<1>5. LedgerOK'
  BY <1>1, <1>3, <1>4 DEF LedgerOK
<1>6. PICK p, n, due, closed, s, todo :
        /\ job = [pc |-> p, now |-> n, due |-> due, closed |-> closed, scores |-> s,
                   todo |-> todo]
        /\ p = job.pc
        /\ n \in 0 .. today /\ due \in SUBSET Calls /\ closed \in SUBSET Closed
        /\ p \in {"idle", "bars", "ledger", "close", "rows", "scored", "refresh"}
        /\ \E S \in SUBSET Accounts : s \in [S -> Scores]
        /\ todo \in SUBSET (Calls \cup Accounts)
        /\ todo \subseteq IF p \in {"bars", "ledger"} THEN Calls ELSE Accounts
  BY TickIs
<1>7. PICK t \in SUBSET todo :
        job' = [pc |-> p, now |-> n, due |-> due, closed |-> closed, scores |-> s,
                 todo |-> t]
  <2>1. job' = [job EXCEPT !.todo = @ \ {a}]
    BY DEF SaveScore, Refresh
  <2>2. job' = [pc |-> p, now |-> n, due |-> due, closed |-> closed, scores |-> s,
                 todo |-> todo \ {a}]
    BY <1>6, <2>1
  <2> QED
    BY <2>2
<1>8. /\ t \in SUBSET (Calls \cup Accounts)
      /\ t \subseteq IF p \in {"bars", "ledger"} THEN Calls ELSE Accounts
  BY <1>6
<1>9. TickOK(job', Closed, today)
  BY <1>6, <1>7, <1>8, TickTyped
<1>10. Closed' = Closed
  BY <1>3 DEF Closed
<1> QED
  BY <1>3, <1>5, <1>9, <1>10, TypesThen

\* Every step leaves everything well-typed.
LEMMA NextTyped == ResultInv /\ [LoopNext]_loopVars => LoopTypeOK'
<1> SUFFICES ASSUME ResultInv, [LoopNext]_loopVars
             PROVE  LoopTypeOK'
  OBVIOUS
<1>1. LoopTypeOK
  BY DEF ResultInv
<1>2. ASSUME NEW a \in Accounts, SaveScore(a) \/ Refresh(a)
      PROVE  LoopTypeOK'
  <2>1. job.now > 0 /\ (job.pc = "rows" => job.todo \subseteq DOMAIN job.scores)
    BY <1>2 DEF SaveScore, Refresh, ResultInv, RowsAreOfTicks, ScoresInHand
  <2> QED
    BY <1>1, <1>2, <2>1, RowTypes DEF SaveScore
<1>3. CASE UNCHANGED loopVars
  BY <1>1, <1>3 DEF loopVars, LoopTypeOK, Closed
<1> QED
  BY <1>1, <1>2, <1>3, NextDayTyped, TickTypes, FetchTypes, CloseTypes DEF LoopNext

\* A step that is not of the calls and not of the rows, but for what the day and the
\* tick are.
LEMMA QuietStep ==
  ASSUME LoopNext, ~(\E c \in Calls : SaveBars(c) \/ SaveAdjustments(c) \/ CloseCall(c)),
         ~(\E a \in Accounts : SaveScore(a) \/ Refresh(a))
  PROVE  UNCHANGED <<direction, contribs, tape, call, rows>>
  BY DEF LoopNext, NextDay, StartTick, StartScoring, Recompute, ScoresSaved, StartRefresh,
         EndTick, Fails

\* The tick at rest and at work, as far as its place and its time go.
LEMMA TickGoes ==
  ASSUME LoopTypeOK
  PROVE  /\ StartTick => /\ job = Idle /\ job.pc = "idle" /\ job.closed = {}
                         /\ job'.pc = "bars" /\ job'.now = today /\ job'.todo = Still
                         /\ job'.due = {} /\ job'.closed = {}
         /\ StartScoring => /\ job.pc = "bars" /\ job.todo = {} /\ job'.pc = "close"
                            /\ job'.now = job.now /\ job'.closed = job.closed
                            /\ job'.due \subseteq Still
         /\ Recompute => /\ job.pc = "close" /\ job'.pc \in {"scored", "rows"}
                         /\ job'.now = job.now /\ job'.closed = job.closed
                         /\ job.closed = {} <=> job'.pc = "scored"
                         /\ job'.pc = "rows" => /\ job'.scores = Recomputed(job.closed)
                                                 /\ job'.todo = DOMAIN job'.scores
         /\ ScoresSaved => /\ job.pc = "rows" /\ job.todo = {} /\ job'.pc = "scored"
                           /\ job'.now = job.now
         /\ StartRefresh => /\ job.pc = "scored" /\ job'.pc = "refresh"
                            /\ job'.now = job.now /\ job'.closed = {}
         /\ EndTick => job.pc = "refresh" /\ job'.pc = "idle" /\ job'.closed = {}
         /\ Fails => /\ job.pc \in {"bars", "ledger", "close", "rows"} /\ job'.closed = {}
                     /\ job'.pc = "idle" \/ (job'.pc = "scored" /\ job'.now = job.now)
<1>1. PICK p, n, due, closed, s, todo :
        /\ job = [pc |-> p, now |-> n, due |-> due, closed |-> closed, scores |-> s,
                   todo |-> todo]
        /\ p = job.pc /\ n = job.now /\ due = job.due /\ closed = job.closed
        /\ s = job.scores /\ todo = job.todo
  BY TickIs
<1>2. PICK z : z = <<>>
  OBVIOUS
<1>3. Idle = [pc |-> "idle", now |-> 0, due |-> {}, closed |-> {}, scores |-> z,
              todo |-> {}]
  BY <1>2, IdleIs
<1>4. ASSUME StartTick
      PROVE  /\ job = Idle
             /\ job' = [pc |-> "bars", now |-> today, due |-> {}, closed |-> {},
                         scores |-> z, todo |-> Still]
  BY <1>3, <1>4 DEF StartTick
<1>5. ASSUME StartScoring
      PROVE  /\ p = "bars" /\ todo = {}
             /\ job' = [pc |-> "close", now |-> n,
                         due |-> {c \in Still : DueOn[c] <= n},
                         closed |-> closed, scores |-> s, todo |-> todo]
  BY <1>1, <1>5 DEF StartScoring
<1>6. ASSUME Recompute
      PROVE  /\ p = "close"
             /\ IF closed = {}
                THEN job' = [pc |-> "scored", now |-> n, due |-> due,
                              closed |-> closed,
                              scores |-> s, todo |-> todo]
                ELSE job' = [pc |-> "rows", now |-> n, due |-> due, closed |-> closed,
                              scores |-> Recomputed(closed), todo |-> DOMAIN Recomputed(closed)]
  <2>1. PICK scores : scores = Recomputed(closed)
    OBVIOUS
  <2>2. /\ job.pc = "close"
        /\ job' = IF closed = {} THEN [job EXCEPT !.pc = "scored"]
                   ELSE [job EXCEPT !.pc = "rows", !.scores = scores, !.todo = DOMAIN scores]
    BY <1>1, <1>6, <2>1 DEF Recompute
  <2>3. [job EXCEPT !.pc = "scored"] = [pc |-> "scored", now |-> n, due |-> due,
                                         closed |-> closed,
                                         scores |-> s, todo |-> todo]
    BY <1>1
  <2>4. PICK accounts : accounts = DOMAIN scores
    OBVIOUS
  <2>5. ASSUME job' = [job EXCEPT !.pc = "rows", !.scores = scores, !.todo = accounts]
        PROVE  job' = [pc |-> "rows", now |-> n, due |-> due, closed |-> closed,
                        scores |-> scores, todo |-> accounts]
    BY <1>1, <2>5
  <2> QED
    BY <1>1, <2>1, <2>2, <2>3, <2>4, <2>5
<1>7. ASSUME ScoresSaved
      PROVE  /\ p = "rows" /\ todo = {}
             /\ job' = [pc |-> "scored", now |-> n, due |-> due, closed |-> closed,
                         scores |-> s, todo |-> todo]
  BY <1>1, <1>7 DEF ScoresSaved
<1>8. ASSUME StartRefresh
      PROVE  /\ p = "scored"
             /\ \E S : job' = [pc |-> "refresh", now |-> n, due |-> {}, closed |-> {},
                                scores |-> z, todo |-> S]
  BY <1>1, <1>3, <1>8 DEF StartRefresh
<1>9. ASSUME EndTick
      PROVE  p = "refresh" /\ job' = Idle
  BY <1>1, <1>9 DEF EndTick
<1>10. ASSUME Fails
       PROVE  /\ p \in {"bars", "ledger", "close", "rows"}
              /\ \/ job' = Idle
                 \/ job' = [pc |-> "scored", now |-> n, due |-> {}, closed |-> {},
                             scores |-> z, todo |-> {}]
  BY <1>1, <1>3, <1>10 DEF Fails
<1>11. StartTick => /\ job = Idle /\ job.pc = "idle" /\ job.closed = {}
                    /\ job'.pc = "bars" /\ job'.now = today /\ job'.todo = Still
                    /\ job'.due = {} /\ job'.closed = {}
  BY <1>3, <1>4
<1>12. StartScoring => /\ job.pc = "bars" /\ job.todo = {} /\ job'.pc = "close"
                       /\ job'.now = job.now /\ job'.closed = job.closed
                       /\ job'.due \subseteq Still
  BY <1>1, <1>5
<1>13. Recompute => /\ job.pc = "close" /\ job'.pc \in {"scored", "rows"}
                    /\ job'.now = job.now /\ job'.closed = job.closed
                    /\ job.closed = {} <=> job'.pc = "scored"
                    /\ job'.pc = "rows" => /\ job'.scores = Recomputed(job.closed)
                                            /\ job'.todo = DOMAIN job'.scores
  BY <1>1, <1>6
<1>14. ScoresSaved => /\ job.pc = "rows" /\ job.todo = {} /\ job'.pc = "scored"
                      /\ job'.now = job.now
  BY <1>1, <1>7
<1>15. StartRefresh => /\ job.pc = "scored" /\ job'.pc = "refresh"
                       /\ job'.now = job.now /\ job'.closed = {}
  BY <1>1, <1>8
<1>16. EndTick => job.pc = "refresh" /\ job'.pc = "idle" /\ job'.closed = {}
  BY <1>1, <1>3, <1>9
<1>17. Fails => /\ job.pc \in {"bars", "ledger", "close", "rows"} /\ job'.closed = {}
                /\ job'.pc = "idle" \/ (job'.pc = "scored" /\ job'.now = job.now)
  BY <1>1, <1>3, <1>10
<1> QED
  BY <1>11, <1>12, <1>13, <1>14, <1>15, <1>16, <1>17

-----------------------------------------------------------------------------
(* Runs                                                                    *)

\* What a fetch does.
LEMMA FetchIs ==
  ASSUME LoopTypeOK, NEW c \in Calls
  PROVE  /\ SaveBars(c) =>
              /\ job.pc = "bars" /\ job'.pc = "ledger" /\ job'.now = job.now
              /\ job'.due = {c} /\ job'.closed = job.closed /\ job'.todo = job.todo
              /\ c \in job.todo /\ UNCHANGED <<direction, contribs, call, rows, ran, owed, today>>
              /\ tape'[c].bars = today /\ tape'[c].ledger = tape[c].ledger
              /\ \A b \in Calls \ {c} : tape'[b] = tape[b]
         /\ SaveAdjustments(c) =>
              /\ job.pc = "ledger" /\ job'.pc = "bars" /\ job'.now = job.now
              /\ job'.due = {} /\ job'.closed = job.closed /\ job'.todo = job.todo \ {c}
              /\ c \in job.due /\ UNCHANGED <<direction, contribs, call, rows, ran, owed, today>>
              /\ tape'[c].ledger = today /\ tape'[c].bars = tape[c].bars
              /\ \A b \in Calls \ {c} : tape'[b] = tape[b]
<1>1. PICK p, n, due, closed, s, todo :
        /\ job = [pc |-> p, now |-> n, due |-> due, closed |-> closed, scores |-> s,
                   todo |-> todo]
        /\ p = job.pc /\ n = job.now /\ due = job.due /\ closed = job.closed
        /\ s = job.scores /\ todo = job.todo
  BY TickIs
<1>2. PICK tb, tl : tape[c] = [bars |-> tb, ledger |-> tl] /\ tb = tape[c].bars /\ tl = tape[c].ledger
  BY TypesAre DEF LedgerOK, Tapes
<1>3. DOMAIN tape = Calls
  BY DEF LoopTypeOK
<1>4. ASSUME SaveBars(c)
      PROVE  /\ job.pc = "bars" /\ c \in job.todo
             /\ UNCHANGED <<direction, contribs, call, rows, ran, owed, today>>
             /\ job' = [pc |-> "ledger", now |-> n, due |-> {c}, closed |-> closed,
                         scores |-> s, todo |-> todo]
             /\ tape' = [tape EXCEPT ![c] = [bars |-> today, ledger |-> tl]]
  <2>1. tape' = [tape EXCEPT ![c] = [tape[c] EXCEPT !.bars = today]]
    BY <1>4 DEF SaveBars
  <2>2. [tape[c] EXCEPT !.bars = today] = [bars |-> today, ledger |-> tl]
    BY <1>2
  <2>3. job' = [pc |-> "ledger", now |-> n, due |-> {c}, closed |-> closed,
                 scores |-> s, todo |-> todo]
    BY <1>1, <1>4 DEF SaveBars
  <2>4. job.pc = "bars" /\ c \in job.todo
        /\ UNCHANGED <<direction, contribs, call, rows, ran, owed, today>>
    BY <1>4 DEF SaveBars
  <2> QED
    BY <2>1, <2>2, <2>3, <2>4
<1>5. ASSUME SaveAdjustments(c)
      PROVE  /\ job.pc = "ledger" /\ c \in job.due
             /\ UNCHANGED <<direction, contribs, call, rows, ran, owed, today>>
             /\ job' = [pc |-> "bars", now |-> n, due |-> {}, closed |-> closed,
                         scores |-> s, todo |-> todo \ {c}]
             /\ tape' = [tape EXCEPT ![c] = [bars |-> tb, ledger |-> today]]
  <2>1. tape' = [tape EXCEPT ![c] = [tape[c] EXCEPT !.ledger = today]]
    BY <1>5 DEF SaveAdjustments
  <2>2. [tape[c] EXCEPT !.ledger = today] = [bars |-> tb, ledger |-> today]
    BY <1>2
  <2>3. job' = [pc |-> "bars", now |-> n, due |-> {}, closed |-> closed,
                 scores |-> s, todo |-> todo \ {c}]
    BY <1>1, <1>5 DEF SaveAdjustments
  <2>4. job.pc = "ledger" /\ c \in job.due
        /\ UNCHANGED <<direction, contribs, call, rows, ran, owed, today>>
    BY <1>5 DEF SaveAdjustments
  <2> QED
    BY <2>1, <2>2, <2>3, <2>4
<1>6. SaveBars(c) => /\ job'.pc = "ledger" /\ job'.now = job.now /\ job'.due = {c}
                     /\ job'.closed = job.closed /\ job'.todo = job.todo
  BY <1>1, <1>4
<1>7. SaveBars(c) => /\ tape'[c].bars = today /\ tape'[c].ledger = tape[c].ledger
                     /\ \A b \in Calls \ {c} : tape'[b] = tape[b]
  BY <1>2, <1>3, <1>4
<1>8. SaveAdjustments(c) => /\ job'.pc = "bars" /\ job'.now = job.now /\ job'.due = {}
                            /\ job'.closed = job.closed /\ job'.todo = job.todo \ {c}
  BY <1>1, <1>5
<1>9. SaveAdjustments(c) => /\ tape'[c].ledger = today /\ tape'[c].bars = tape[c].bars
                            /\ \A b \in Calls \ {c} : tape'[b] = tape[b]
  BY <1>2, <1>3, <1>5
<1> QED
  BY <1>4, <1>5, <1>6, <1>7, <1>8, <1>9

\* Writing a row.
LEMMA RowIs ==
  ASSUME ResultInv, NEW a \in Accounts, SaveScore(a) \/ Refresh(a)
  PROVE  /\ UNCHANGED <<today, direction, contribs, tape, call, ran, owed>>
         /\ job'.pc = job.pc /\ job'.now = job.now /\ job'.due = job.due
         /\ job'.closed = job.closed /\ job'.scores = job.scores
         /\ job'.todo = job.todo \ {a} /\ a \in job.todo /\ job.now > 0
         /\ job.pc \in {"rows", "refresh"}
         /\ SaveScore(a) <=> job.pc = "rows"
         /\ \A b \in Accounts \ {a} : rows'[b] = rows[b]
         /\ \E of \in Scores \cup {Evidence} :
              /\ ToSet(rows'[a]) = ToSet(rows[a]) \cup {[as_of |-> job.now, of |-> of]}
              /\ IF job.pc = "rows" THEN a \in DOMAIN job.scores /\ of = job.scores[a]
                 ELSE of = Evidence
<1>1. LoopTypeOK /\ (job.pc = "rows" => job.todo \subseteq DOMAIN job.scores)
  BY DEF ResultInv, ScoresInHand
<1>2. /\ UNCHANGED <<today, direction, contribs, tape, call, ran, owed>>
      /\ job' = [job EXCEPT !.todo = @ \ {a}] /\ a \in job.todo
      /\ job.pc \in {"rows", "refresh"}
      /\ SaveScore(a) <=> job.pc = "rows"
  BY DEF SaveScore, Refresh, Insert
<1>3. job.now > 0
  BY <1>2 DEF ResultInv, RowsAreOfTicks
<1>4. /\ job'.pc = job.pc /\ job'.now = job.now /\ job'.due = job.due
      /\ job'.closed = job.closed /\ job'.scores = job.scores
      /\ job'.todo = job.todo \ {a}
  <2>1. PICK p, n, due, closed, s, todo :
        /\ job = [pc |-> p, now |-> n, due |-> due, closed |-> closed, scores |-> s,
                   todo |-> todo]
        /\ p = job.pc /\ n = job.now /\ due = job.due /\ closed = job.closed
        /\ s = job.scores /\ todo = job.todo
    BY <1>1, TickIs
  <2>2. job' = [pc |-> p, now |-> n, due |-> due, closed |-> closed, scores |-> s,
                 todo |-> todo \ {a}]
    BY <1>2, <2>1
  <2> QED
    BY <2>1, <2>2
<1>5. PICK S \in SUBSET Accounts : job.scores \in [S -> Scores]
  BY <1>1, TickIs
<1>6. PICK of \in Scores \cup {Evidence} :
        /\ Insert(a, of)
        /\ IF job.pc = "rows" THEN a \in DOMAIN job.scores /\ of = job.scores[a]
           ELSE of = Evidence
  <2>1. CASE SaveScore(a)
    BY <1>1, <1>2, <1>5, <2>1 DEF SaveScore
  <2>2. CASE Refresh(a)
    BY <2>2 DEF Refresh
  <2> QED
    BY <2>1, <2>2
<1>7. /\ \A b \in Accounts \ {a} : rows'[b] = rows[b]
      /\ ToSet(rows'[a]) = ToSet(rows[a]) \cup {[as_of |-> job.now, of |-> of]}
  BY <1>1, <1>3, <1>6, InsertIs
<1> QED
  BY <1>2, <1>3, <1>4, <1>6, <1>7

\* What a run closes calls on is of its own day or a later one.
LEMMA FetchedStep == ResultInv /\ [LoopNext]_loopVars => ClosedOnFreshTape' /\ FetchedByTick'
<1> SUFFICES ASSUME ResultInv, [LoopNext]_loopVars
             PROVE  ClosedOnFreshTape' /\ FetchedByTick'
  OBVIOUS
<1> USE DEF ClosedOnFreshTape, FetchedByTick
<1>1. LoopTypeOK /\ ClosedOnFreshTape /\ FetchedByTick
  BY DEF ResultInv
<1>2. /\ job.now \in Nat /\ today \in Nat /\ job.now <= today
      /\ job.due \subseteq Calls /\ Still \subseteq Calls
      /\ \A c \in Calls : c \in Still <=> c \notin Closed
      /\ \A c \in Calls : c \in Still <=> call[c].state = "live"
  <2>1. \A c \in Calls : call[c].state \in {"live", "closed"}
    BY <1>1 DEF LoopTypeOK
  <2> QED
    BY <1>1, <2>1, TickIs DEF Still, Closed
<1>3. ASSUME NEW c \in Calls, SaveBars(c)
      PROVE  ClosedOnFreshTape' /\ FetchedByTick'
  <2>1. Closed' = Closed /\ Still' = Still /\ call' = call
    BY <1>1, <1>3, FetchIs, SettledStays DEF Settled
  <2> QED
    BY <1>1, <1>2, <1>3, <2>1, FetchIs
<1>4. ASSUME NEW c \in Calls, SaveAdjustments(c)
      PROVE  ClosedOnFreshTape' /\ FetchedByTick'
  <2>1. Closed' = Closed /\ Still' = Still /\ call' = call
    BY <1>1, <1>4, FetchIs, SettledStays DEF Settled
  <2>2. tape'[c].bars >= job.now /\ tape'[c].ledger >= job.now
    BY <1>1, <1>2, <1>4, FetchIs
  <2> QED
    BY <1>1, <1>2, <1>4, <2>1, <2>2, FetchIs
<1>5. ASSUME NEW c \in Calls, CloseCall(c)
      PROVE  ClosedOnFreshTape' /\ FetchedByTick'
  <2>1. /\ UNCHANGED <<tape>> /\ job.pc = "close" /\ job'.pc = "close" /\ job'.now = job.now
        /\ job'.due = job.due \ {c} /\ c \in job.due
        /\ \A b \in Calls \ {c} : call'[b] = call[b]
        /\ \/ call' = call
           \/ \E r \in Results : call'[c] = [state |-> "closed", result |-> r,
                                             at |-> job.now, tape |-> tape[c]]
    BY <1>1, <1>5, CloseIs
  <2>2. call'[c] = call[c] \/ (call'[c].at = job.now /\ call'[c].tape = tape[c])
    <3>1. (\E r \in Results : call'[c] = [state |-> "closed", result |-> r,
                                          at |-> job.now, tape |-> tape[c]])
            => call'[c].at = job.now /\ call'[c].tape = tape[c]
      OBVIOUS
    <3> QED
      BY <2>1, <3>1
  <2>3. tape[c].bars >= job.now /\ tape[c].ledger >= job.now
    BY <1>1, <2>1
  <2>4. \A b \in Closed' : b \in Calls /\ (b = c \/ b \in Closed)
    BY <2>1 DEF Closed
  <2>5. c \in Closed' => call'[c].tape.bars >= call'[c].at /\ call'[c].tape.ledger >= call'[c].at
    <3>1. call'[c] = call[c] /\ c \in Closed' => c \in Closed
      BY DEF Closed
    <3> QED
      BY <1>1, <2>2, <2>3, <3>1
  <2>6. ClosedOnFreshTape'
    BY <1>1, <2>1, <2>4, <2>5 DEF Closed
  <2> QED
    BY <1>1, <1>2, <2>1, <2>6
<1>6. ASSUME NEW a \in Accounts, SaveScore(a) \/ Refresh(a)
      PROVE  ClosedOnFreshTape' /\ FetchedByTick'
  <2>1. UNCHANGED <<tape, call>> /\ job'.pc \in {"rows", "refresh"} /\ Closed' = Closed
    BY <1>6, RowIs DEF Closed
  <2> QED
    BY <1>1, <2>1
<1>7. ASSUME UNCHANGED <<tape, call>>
      PROVE  /\ Closed' = Closed /\ Still' = Still /\ ClosedOnFreshTape'
             /\ job'.pc \notin {"bars", "ledger", "close"} => FetchedByTick'
             /\ UNCHANGED job => FetchedByTick'
  BY <1>1, <1>7 DEF Closed, Still
<1>8. CASE StartTick /\ UNCHANGED <<tape, call>>
  BY <1>1, <1>7, <1>8, TickGoes
<1>9. CASE StartScoring /\ UNCHANGED <<tape, call>>
  BY <1>1, <1>2, <1>7, <1>9, TickGoes
<1>10. CASE (Recompute \/ ScoresSaved \/ StartRefresh \/ EndTick \/ Fails) /\ UNCHANGED <<tape, call>>
  BY <1>1, <1>7, <1>10, TickGoes
<1>11. CASE NextDay \/ UNCHANGED loopVars
  BY <1>7, <1>11 DEF NextDay, loopVars
<1> QED
  BY <1>3, <1>4, <1>5, <1>6, <1>8, <1>9, <1>10, <1>11, QuietStep DEF LoopNext

\* A tick finds only earlier rows.
LEMMA RowsStep == ResultInv /\ [LoopNext]_loopVars => RowsAreOfTicks'
<1> SUFFICES ASSUME ResultInv, [LoopNext]_loopVars
             PROVE  RowsAreOfTicks'
  OBVIOUS
<1> USE DEF RowsAreOfTicks
<1>1. LoopTypeOK /\ RowsAreOfTicks
  BY DEF ResultInv
<1>2. job.now \in Nat /\ today \in Nat /\ job.now <= today /\ today > 0
  BY <1>1, TickIs
<1>3. \A a \in Accounts : \A r \in ToSet(rows[a]) : r.as_of \in Nat /\ r.as_of <= today
  <2>1. \A a \in Accounts : ToSet(rows[a]) \subseteq Rows(today)
    <3>1. \A a \in Accounts : rows[a] \in Seq(Rows(today))
      BY <1>1, TypesAre DEF LedgerOK
    <3> QED
      BY <3>1, LenProperties, ElementOfSeq DEF ToSet
  <2> QED
    BY <1>2, <2>1 DEF Rows
<1>4. ASSUME NEW c \in Calls, SaveBars(c) \/ SaveAdjustments(c) \/ CloseCall(c)
      PROVE  RowsAreOfTicks'
  <2>1. /\ UNCHANGED <<rows, ran, today>> /\ job'.now = job.now
        /\ job.pc \in {"bars", "ledger", "close"} /\ job'.pc \in {"bars", "ledger", "close"}
    BY <1>1, <1>4, FetchIs, CloseIs
  <2> QED
    BY <1>1, <2>1
<1>5. ASSUME NEW a \in Accounts, SaveScore(a) \/ Refresh(a)
      PROVE  RowsAreOfTicks'
  <2>1. /\ UNCHANGED <<ran, today>> /\ job'.now = job.now /\ job'.pc = job.pc /\ job.now > 0
        /\ job.pc \in {"rows", "refresh"}
        /\ \A b \in Accounts \ {a} : rows'[b] = rows[b]
        /\ \A r \in ToSet(rows'[a]) : r \in ToSet(rows[a]) \/ r.as_of = job.now
    BY <1>5, RowIs
  <2> QED
    BY <1>1, <1>2, <2>1
<1>6. CASE StartTick /\ UNCHANGED rows
  <2>1. job'.pc = "bars" /\ job'.now = today /\ ~ran /\ ran' = TRUE /\ today' = today
    BY <1>1, <1>6, TickGoes DEF StartTick
  <2>2. \A a \in Accounts : \A r \in ToSet(rows[a]) : r.as_of < today
    BY <1>1, <2>1
  <2>3. ~(~ran')
    BY <2>1
  <2>4. \A a \in Accounts : \A r \in ToSet(rows'[a]) : r.as_of < today /\ r.as_of <= today
    BY <1>2, <1>3, <1>6, <2>2
  <2> QED
    BY <1>2, <2>1, <2>3, <2>4
<1>7. CASE (StartScoring \/ Recompute \/ ScoresSaved \/ StartRefresh) /\ UNCHANGED rows
  <2>1. UNCHANGED <<ran, today>>
    BY <1>7 DEF StartScoring, Recompute, ScoresSaved, StartRefresh
  <2>2. /\ job'.now = job.now /\ job.pc # "idle"
        /\ job'.pc \in {"bars", "ledger", "close"} => job.pc \in {"bars", "ledger", "close"}
    BY <1>1, <1>7, TickGoes
  <2> QED
    BY <1>1, <1>2, <1>7, <2>1, <2>2
<1>8. CASE (EndTick \/ Fails) /\ UNCHANGED rows
  <2>1. /\ UNCHANGED <<ran, today>>
        /\ job' = Idle \/ job' = [Idle EXCEPT !.pc = "scored", !.now = job.now]
    BY <1>8 DEF EndTick, Fails
  <2>2. job.pc # "idle" /\ job'.pc \in {"idle", "scored"}
        /\ (job'.pc = "scored" => job'.now = job.now)
    BY <1>1, <1>8, TickGoes
  <2>3. job'.now \in {0, job.now}
    BY <2>1, IdleIs
  <2> QED
    BY <1>1, <1>2, <1>8, <2>1, <2>2, <2>3
<1>9. CASE NextDay
  <2>1. today' = today + 1 /\ UNCHANGED <<job, rows>>
    BY <1>9 DEF NextDay
  <2> QED
    BY <1>1, <1>2, <1>3, <2>1
<1>10. CASE UNCHANGED loopVars
  BY <1>1, <1>10 DEF loopVars
<1> QED
  BY <1>4, <1>5, <1>6, <1>7, <1>8, <1>9, <1>10, QuietStep DEF LoopNext

-----------------------------------------------------------------------------
(* Scores                                                                  *)

\* The latest rows, whatever the day.
WholeNow ==
  \A a \in Accounts : \A r \in ToSet(rows[a]) :
    (\A q \in ToSet(rows[a]) : q.as_of <= r.as_of) /\ r.of # Evidence
      => r.of = Scored(Closed, a)

\* A row is of a day that has been.
LEMMA RowsAreOfDays ==
  ASSUME NEW d \in Nat, NEW s \in Seq(Rows(d))
  PROVE  \A r \in ToSet(s) : r.as_of \in Nat /\ r.as_of <= d
<1>1. ToSet(s) \subseteq Rows(d)
  BY LenProperties, ElementOfSeq DEF ToSet
<1> QED
  BY <1>1 DEF Rows

\* So nothing is hidden from a post of today.
LEMMA WholeMeans == LoopTypeOK => (Whole <=> WholeNow)
<1> SUFFICES ASSUME LoopTypeOK
             PROVE  Whole <=> WholeNow
  OBVIOUS
<1>1. \A a \in Accounts : \A r \in ToSet(rows[a]) : r.as_of \in Nat /\ r.as_of <= today
  BY TypesAre, TickIs, RowsAreOfDays DEF LedgerOK
<1>2. \A a \in Accounts : \A r : r \in Credibility(a, today)
        <=> r \in ToSet(rows[a]) /\ \A q \in ToSet(rows[a]) : q.as_of <= r.as_of
  BY <1>1 DEF Credibility
<1> QED
  BY <1>2 DEF Whole, WholeNow

\* The same at the end of a step.
LEMMA WholeThen == LoopTypeOK' => (WholeNow' => Whole')
<1>1. LoopTypeOK => (Whole <=> WholeNow)
  BY WholeMeans
<1> QED
  BY <1>1, PTL

\* A score that is whole stays so, as long as no call is closed and no row is written.
LEMMA WholeStays ==
  ASSUME LoopTypeOK, LoopTypeOK', UNCHANGED <<direction, contribs, call, rows>>, Whole
  PROVE  Whole'
<1>1. \A a : Scored(Closed, a)' = Scored(Closed, a)
  BY SettledStays DEF Settled
<1>2. WholeNow
  BY WholeMeans
<1>3. WholeNow'
  BY <1>1, <1>2 DEF WholeNow
<1> QED
  BY <1>3, WholeThen

\* The run is over when all have their score.
LEMMA SavedIsWhole ==
  ASSUME ResultInv, ScoresSaved, LoopTypeOK'
  PROVE  Whole'
<1>1. /\ LoopTypeOK /\ job.pc = "rows" /\ job.todo = {}
      /\ UNCHANGED <<direction, contribs, call, rows>>
  BY DEF ScoresSaved, ResultInv
<1>2. /\ job.scores = Recomputed(job.closed)
      /\ \A a \in DOMAIN job.scores : \E r \in ToSet(rows[a]) : r.as_of = job.now
      /\ \A a \in Accounts : \A r \in ToSet(rows[a]) :
           r.as_of = job.now /\ r.of # Evidence => r.of = job.scores[a]
      /\ \A a \in Accounts : \A r \in ToSet(rows[a]) :
           r.of # Evidence => \E c \in Closed : a \in Speakers(c)
      /\ \A a \in Accounts : \A r \in ToSet(rows[a]) : r.as_of <= job.now
  BY <1>1 DEF ResultInv, ScoresInHand, RowsAreOfTicks
<1>3. PICK run : run = job.closed
  OBVIOUS
<1>4. /\ DOMAIN job.scores = {a \in Accounts : \E c \in Closed : a \in Speakers(c)}
      /\ \A a \in DOMAIN job.scores : job.scores[a] = Scored(Closed, a)
  <2>1. job.scores = Recomputed(run)
    BY <1>2, <1>3
  <2>2. /\ DOMAIN Recomputed(run) = {a \in Accounts : \E c \in Closed : a \in Speakers(c)}
        /\ \A a \in DOMAIN Recomputed(run) : Recomputed(run)[a] = Scored(Closed, a)
    BY <1>1, RecomputedIs
  <2> QED
    BY <2>1, <2>2
<1>5. \A a \in Accounts : \A r \in ToSet(rows[a]) : r.as_of \in Nat
  BY <1>1, TypesAre, TickIs, RowsAreOfDays DEF LedgerOK
<1>6. WholeNow
  <2> SUFFICES ASSUME NEW a \in Accounts, NEW r \in ToSet(rows[a]),
                      \A q \in ToSet(rows[a]) : q.as_of <= r.as_of, r.of # Evidence
               PROVE  r.of = Scored(Closed, a)
    BY DEF WholeNow
  <2>1. a \in DOMAIN job.scores
    BY <1>2, <1>4
  <2>2. PICK q \in ToSet(rows[a]) : q.as_of = job.now
    BY <1>2, <2>1
  <2>3. r.as_of = job.now
    <3>1. q.as_of <= r.as_of /\ r.as_of <= job.now /\ r.as_of \in Nat /\ job.now \in Nat
      BY <1>1, <1>2, <1>5, <2>2, TickIs
    <3> QED
      BY <2>2, <3>1
  <2> QED
    BY <1>2, <1>4, <2>1, <2>3
<1>7. Whole
  BY <1>1, <1>6, WholeMeans
<1> QED
  BY <1>1, <1>7, WholeStays

\* A row of evidence leaves the scores there are as they are.
LEMMA RefreshIsWhole ==
  ASSUME ResultInv, NEW a \in Accounts, Refresh(a), Whole, LoopTypeOK'
  PROVE  Whole'
<1>1. /\ LoopTypeOK /\ UNCHANGED <<direction, contribs, call>> /\ job.pc = "refresh"
      /\ \A b \in Accounts \ {a} : rows'[b] = rows[b]
      /\ \E of \in Scores \cup {Evidence} :
           /\ ToSet(rows'[a]) = ToSet(rows[a]) \cup {[as_of |-> job.now, of |-> of]}
           /\ of = Evidence
  BY RowIs DEF ResultInv, Refresh
<1>2. \A b : Scored(Closed, b)' = Scored(Closed, b)
  BY <1>1, SettledStays DEF Settled
<1>3. WholeNow
  BY <1>1, WholeMeans
<1>4. \A b \in Accounts : /\ ToSet(rows[b]) \subseteq ToSet(rows'[b])
                          /\ \A r \in ToSet(rows'[b]) : r \in ToSet(rows[b]) \/ r.of = Evidence
  BY <1>1
<1>5. WholeNow'
  <2> SUFFICES ASSUME NEW b \in Accounts, NEW r \in ToSet(rows'[b]),
                      \A q \in ToSet(rows'[b]) : q.as_of <= r.as_of, r.of # Evidence
               PROVE  r.of = Scored(Closed, b)
    BY <1>2 DEF WholeNow
  <2> QED
    BY <1>3, <1>4 DEF WholeNow
<1> QED
  BY <1>5, WholeThen

\* A score of before this run is of an earlier run, or there is none.
LEMMA ScoresStep == ResultInv /\ [LoopNext]_loopVars => ScoresInHand'
<1> SUFFICES ASSUME ResultInv, [LoopNext]_loopVars
             PROVE  ScoresInHand'
  OBVIOUS
<1>1. LoopTypeOK /\ ScoresInHand /\ RowsAreOfTicks
  BY DEF ResultInv
<1> DEFINE Spoken == \A a \in Accounts : \A r \in ToSet(rows[a]) :
                       r.of # Evidence => \E c \in Closed : a \in Speakers(c)
<1>2. Spoken
  BY <1>1 DEF ScoresInHand
<1>3. ASSUME UNCHANGED <<contribs, rows>>, Closed \subseteq Closed'
      PROVE  Spoken'
  <2>1. \A c : Speakers(c)' = Speakers(c)
    BY <1>3 DEF Speakers
  <2> QED
    BY <1>2, <1>3, <2>1
<1>4. ASSUME UNCHANGED <<contribs, rows>>, Closed \subseteq Closed', job'.pc # "rows"
      PROVE  ScoresInHand'
  BY <1>3, <1>4 DEF ScoresInHand
<1>5. ASSUME NEW c \in Calls, SaveBars(c) \/ SaveAdjustments(c) \/ CloseCall(c)
      PROVE  ScoresInHand'
  <2>1. UNCHANGED <<contribs, rows>> /\ job'.pc # "rows"
    BY <1>1, <1>5, FetchIs, CloseIs
  <2>2. Closed \subseteq Closed'
    <3>1. CASE CloseCall(c)
      BY <1>1, <3>1, CloseTypes
    <3>2. CASE SaveBars(c) \/ SaveAdjustments(c)
      BY <1>1, <3>2, FetchIs DEF Closed
    <3> QED
      BY <1>5, <3>1, <3>2
  <2> QED
    BY <1>4, <2>1, <2>2
<1>6. ASSUME NEW a \in Accounts, SaveScore(a) \/ Refresh(a)
      PROVE  ScoresInHand'
  <2>1. /\ UNCHANGED <<direction, contribs, call>>
        /\ job'.pc = job.pc /\ job'.now = job.now
        /\ job'.closed = job.closed /\ job'.scores = job.scores
        /\ job'.todo = job.todo \ {a} /\ a \in job.todo
        /\ job.pc \in {"rows", "refresh"}
        /\ \A b \in Accounts \ {a} : rows'[b] = rows[b]
        /\ \E of \in Scores \cup {Evidence} :
              /\ ToSet(rows'[a]) = ToSet(rows[a]) \cup {[as_of |-> job.now, of |-> of]}
              /\ IF job.pc = "rows" THEN a \in DOMAIN job.scores /\ of = job.scores[a]
                 ELSE of = Evidence
    BY <1>6, RowIs
  <2>2. /\ Closed' = Closed /\ \A c : Speakers(c)' = Speakers(c)
        /\ \A run : Recomputed(run)' = Recomputed(run)
    BY <2>1, SettledStays DEF Settled
  <2>3. PICK of, row : /\ row.as_of = job.now /\ row.of = of
                       /\ ToSet(rows'[a]) = ToSet(rows[a]) \cup {row}
                       /\ IF job.pc = "rows" THEN a \in DOMAIN job.scores /\ of = job.scores[a]
                          ELSE of = Evidence
    <3>1. PICK of : /\ ToSet(rows'[a]) = ToSet(rows[a]) \cup {[as_of |-> job.now, of |-> of]}
                    /\ IF job.pc = "rows" THEN a \in DOMAIN job.scores /\ of = job.scores[a]
                       ELSE of = Evidence
      BY <2>1
    <3>2. PICK row : row = [as_of |-> job.now, of |-> of]
      OBVIOUS
    <3> QED
      BY <3>1, <3>2
  <2>4. \A b \in Accounts : ToSet(rows[b]) \subseteq ToSet(rows'[b])
    BY <2>1, <2>3
  <2>5. \A b \in Accounts : \A r \in ToSet(rows'[b]) : r \in ToSet(rows[b]) \/ (b = a /\ r = row)
    BY <2>1, <2>3
  <2>6. job.pc = "rows" => \E c \in Closed : a \in Speakers(c)
    <3>1. PICK run : run = job.closed
      OBVIOUS
    <3>2. DOMAIN Recomputed(run) = {b \in Accounts : \E c \in Closed : b \in Speakers(c)}
      BY <1>1, RecomputedIs
    <3>3. job.pc = "rows" => job.scores = Recomputed(run)
      BY <1>1, <3>1 DEF ScoresInHand
    <3> QED
      BY <2>3, <3>2, <3>3
  <2>7. Spoken'
    <3> SUFFICES ASSUME NEW b \in Accounts, NEW r \in ToSet(rows'[b]), r.of # Evidence
                 PROVE  \E c \in Closed : b \in Speakers(c)
      BY <2>2
    <3>1. CASE r \in ToSet(rows[b])
      BY <1>2, <3>1
    <3>2. CASE b = a /\ r = row
      BY <2>3, <2>6, <3>2
    <3> QED
      BY <2>5, <3>1, <3>2
  <2>8. ASSUME job.pc = "rows"
        PROVE  /\ job'.closed # {} /\ job'.scores = Recomputed(job.closed)'
               /\ job'.todo \subseteq DOMAIN job'.scores
               /\ \A b \in DOMAIN job'.scores \ job'.todo :
                    \E r \in ToSet(rows'[b]) : r.as_of = job'.now
               /\ \A b \in Accounts : \A r \in ToSet(rows'[b]) :
                    r.as_of = job'.now /\ r.of # Evidence => r.of = job'.scores[b]
    <3>1. /\ job.closed # {} /\ job.scores = Recomputed(job.closed)
          /\ job.todo \subseteq DOMAIN job.scores
          /\ \A b \in DOMAIN job.scores \ job.todo :
               \E r \in ToSet(rows[b]) : r.as_of = job.now
          /\ \A b \in Accounts : \A r \in ToSet(rows[b]) :
               r.as_of = job.now /\ r.of # Evidence => r.of = job.scores[b]
      BY <1>1, <2>8 DEF ScoresInHand
    <3>2. job'.scores = Recomputed(job.closed)'
      <4>1. PICK run : run = job.closed
        OBVIOUS
      <4>2. Recomputed(run)' = Recomputed(run)
        BY <2>2
      <4> QED
        BY <2>1, <3>1, <4>1, <4>2
    <3>3. DOMAIN job.scores \subseteq Accounts
      <4>1. PICK S \in SUBSET Accounts : job.scores \in [S -> Scores]
        BY <1>1, TickIs
      <4> QED
        BY <4>1
    <3>4. \A b \in DOMAIN job.scores \ job'.todo : \E r \in ToSet(rows'[b]) : r.as_of = job.now
      <4> TAKE b \in DOMAIN job.scores \ job'.todo
      <4>1. CASE b = a
        BY <2>3, <4>1
      <4>2. CASE b # a
        BY <2>1, <2>4, <3>1, <3>3, <4>2
      <4> QED
        BY <4>1, <4>2
    <3>5. \A b \in Accounts : \A r \in ToSet(rows'[b]) :
            r.as_of = job.now /\ r.of # Evidence => r.of = job.scores[b]
      BY <2>3, <2>5, <2>8, <3>1
    <3> QED
      BY <2>1, <3>1, <3>2, <3>4, <3>5
  <2> QED
    BY <2>1, <2>7, <2>8 DEF ScoresInHand
<1>7. ASSUME UNCHANGED <<direction, contribs, call, rows>>, job'.pc # "rows"
      PROVE  ScoresInHand'
  BY <1>4, <1>7 DEF Closed
<1>8. CASE Recompute /\ UNCHANGED <<direction, contribs, call, rows>>
  <2>1. /\ job.pc = "close" /\ job'.pc \in {"scored", "rows"}
        /\ job'.now = job.now /\ job'.closed = job.closed
        /\ job.closed = {} <=> job'.pc = "scored"
        /\ job'.pc = "rows" => /\ job'.scores = Recomputed(job.closed)
                                /\ job'.todo = DOMAIN job'.scores
    BY <1>1, <1>8, TickGoes
  <2>2. /\ Closed' = Closed /\ \A run : Recomputed(run)' = Recomputed(run)
    BY <1>8, SettledStays DEF Settled
  <2>3. Spoken'
    BY <1>3, <1>8, <2>2
  <2>4. job'.pc = "rows" => job'.scores = Recomputed(job.closed)'
    <3>1. PICK run : run = job.closed
      OBVIOUS
    <3>2. Recomputed(run)' = Recomputed(run)
      BY <2>2
    <3> QED
      BY <2>1, <3>1, <3>2
  <2>5. \A a \in Accounts : \A r \in ToSet(rows'[a]) : r.as_of # job'.now
    <3>1. \A a \in Accounts : \A r \in ToSet(rows[a]) : r.as_of < job.now /\ r.as_of \in Nat
      BY <1>1, <2>1, TypesAre, TickIs, RowsAreOfDays DEF LedgerOK, RowsAreOfTicks
    <3>2. job.now \in Nat
      BY <1>1, TickIs
    <3> QED
      BY <1>8, <2>1, <3>1, <3>2
  <2> QED
    BY <2>1, <2>3, <2>4, <2>5 DEF ScoresInHand
<1>9. CASE StartTick \/ StartScoring \/ ScoresSaved \/ StartRefresh \/ EndTick \/ Fails
  <2>1. UNCHANGED <<direction, contribs, call, rows>>
    BY <1>9 DEF StartTick, StartScoring, ScoresSaved, StartRefresh, EndTick, Fails
  <2>2. job'.pc # "rows"
    BY <1>1, <1>9, TickGoes
  <2> QED
    BY <1>7, <2>1, <2>2
<1>10. CASE NextDay \/ UNCHANGED loopVars
  <2>1. UNCHANGED <<direction, contribs, call, rows, job>>
    BY <1>10 DEF NextDay, loopVars
  <2>2. /\ Closed' = Closed /\ \A run : Recomputed(run)' = Recomputed(run)
    BY <2>1, SettledStays DEF Settled
  <2>3. Spoken'
    BY <1>3, <2>1, <2>2
  <2>4. job.pc = "rows" => job'.scores = Recomputed(job.closed)'
    <3>1. PICK run : run = job.closed
      OBVIOUS
    <3>2. Recomputed(run)' = Recomputed(run)
      BY <2>2
    <3> QED
      BY <1>1, <2>1, <3>1, <3>2 DEF ScoresInHand
  <2> QED
    BY <1>1, <2>1, <2>3, <2>4 DEF ScoresInHand
<1> QED
  BY <1>5, <1>6, <1>8, <1>9, <1>10, QuietStep DEF LoopNext

\* Between its runs every score is whole.
LEMMA WholeStep == ResultInv /\ [LoopNext]_loopVars => WholeBetweenRuns'
<1> SUFFICES ASSUME ResultInv, [LoopNext]_loopVars, ~owed',
                    job'.closed = {} \/ job'.pc \in {"scored", "refresh"}
             PROVE  Whole'
  BY DEF WholeBetweenRuns
<1>1. LoopTypeOK /\ LoopTypeOK' /\ WholeBetweenRuns
  BY NextTyped DEF ResultInv
<1>2. ASSUME UNCHANGED <<direction, contribs, call, rows>>, ~owed,
             job.closed = {} \/ job.pc \in {"scored", "refresh"}
      PROVE  Whole'
  BY <1>1, <1>2, WholeStays DEF WholeBetweenRuns
<1>3. ASSUME NEW c \in Calls, SaveBars(c) \/ SaveAdjustments(c)
      PROVE  Whole'
  BY <1>1, <1>2, <1>3, FetchIs
<1>4. ASSUME NEW c \in Calls, CloseCall(c)
      PROVE  Whole'
  <2>1. /\ UNCHANGED <<direction, contribs, rows, owed>> /\ job'.pc = "close"
        /\ \/ call' = call /\ job'.closed = job.closed
           \/ c \in job'.closed
    BY <1>1, <1>4, CloseIs
  <2> QED
    BY <1>2, <2>1
<1>5. ASSUME NEW a \in Accounts, SaveScore(a) \/ Refresh(a)
      PROVE  Whole'
  <2>1. /\ UNCHANGED <<owed>> /\ job'.pc = job.pc /\ job'.closed = job.closed
        /\ job.pc \in {"rows", "refresh"} /\ (SaveScore(a) <=> job.pc = "rows")
    BY <1>5, RowIs
  <2>2. job.pc # "rows"
    BY <2>1 DEF ResultInv, ScoresInHand
  <2>3. Refresh(a) /\ Whole
    BY <1>1, <1>5, <2>1, <2>2 DEF WholeBetweenRuns
  <2> QED
    BY <1>1, <2>3, RefreshIsWhole
<1>6. CASE ScoresSaved
  BY <1>1, <1>6, SavedIsWhole
<1>7. CASE StartTick \/ StartScoring \/ Recompute \/ StartRefresh \/ EndTick
  <2>1. UNCHANGED <<direction, contribs, call, rows, owed>>
    BY <1>7 DEF StartTick, StartScoring, Recompute, StartRefresh, EndTick
  <2>2. job.closed = {} \/ job.pc \in {"scored", "refresh"}
    BY <1>1, <1>7, TickGoes
  <2> QED
    BY <1>2, <2>1, <2>2
<1>8. CASE Fails
  <2>1. UNCHANGED <<direction, contribs, call, rows>> /\ ~owed /\ job.closed = {}
    BY <1>8 DEF Fails
  <2> QED
    BY <1>2, <2>1
<1>9. CASE NextDay \/ UNCHANGED loopVars
  <2>1. UNCHANGED <<direction, contribs, call, rows, job, owed>>
    BY <1>9 DEF NextDay, loopVars
  <2> QED
    BY <1>2, <2>1
<1> QED
  BY <1>3, <1>4, <1>5, <1>6, <1>7, <1>8, <1>9 DEF LoopNext

-----------------------------------------------------------------------------
(* Invariance                                                              *)

\* On the first day nothing is fetched, closed or scored.
LEMMA InitInv == LoopInit => ResultInv
<1> SUFFICES ASSUME LoopInit
             PROVE  ResultInv
  OBVIOUS
<1>1. LoopTypeOK
  BY InitTyped
<1>2. /\ today = 1 /\ ran = FALSE /\ job = Idle
      /\ \A c \in Calls : call[c].state = "live"
      /\ \A a \in Accounts : rows[a] = <<>>
  BY DEF LoopInit, Live
<1>3. Closed = {} /\ \A a \in Accounts : ToSet(rows[a]) = {}
  BY <1>2 DEF Closed, ToSet
<1>4. job.pc = "idle" /\ job.now = 0
  BY <1>2, IdleIs
<1>5. ClosedOnFreshTape /\ FetchedByTick
  BY <1>3, <1>4 DEF ClosedOnFreshTape, FetchedByTick
<1>6. RowsAreOfTicks
  BY <1>2, <1>3, <1>4 DEF RowsAreOfTicks
<1>7. ScoresInHand
  BY <1>3, <1>4 DEF ScoresInHand
<1>8. WholeBetweenRuns
  BY <1>3 DEF WholeBetweenRuns, Whole, Credibility
<1> QED
  BY <1>1, <1>5, <1>6, <1>7, <1>8, SharesDoAddUp DEF ResultInv

\* Every step keeps the invariant: what adds up does so whatever the types allow.
LEMMA NextInv == ResultInv /\ [LoopNext]_loopVars => ResultInv'
<1>1. LoopTypeOK' => SharesAddUp'
  <2>1. LoopTypeOK => SharesAddUp
    BY SharesDoAddUp
  <2> QED
    BY <2>1, PTL
<1> QED
  BY <1>1, NextTyped, FetchedStep, RowsStep, ScoresStep, WholeStep DEF ResultInv

\* Whichever fetch, run or process fails, results are of fresh tapes, the shares of a
\* call add up to what it made, and a run goes about the rows as it should.
THEOREM ResultsAreShared == LoopSpec => []ResultInv
  BY InitInv, NextInv, PTL DEF LoopSpec

\* Between ticks a score a post is weighed with counts every call closed so far.
THEOREM CredibilityStaysWhole == LoopSpec => []CredibilityIsWhole
<1>1. ResultInv => CredibilityIsWhole
  BY IdleIs DEF ResultInv, WholeBetweenRuns, CredibilityIsWhole
<1> QED
  BY <1>1, ResultsAreShared, PTL
=============================================================================
