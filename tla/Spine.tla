------------------------------- MODULE Spine -------------------------------
(***************************************************************************)
(* process_post: from a sighted post to stored mentions and sent alerts.   *)
(*                                                                         *)
(* Tasks are the coroutines that run process_post: the worker's process    *)
(* loop and the admin bot's channel-post listener.  They share the         *)
(* database and the notifier, and any of them may see a post again: the    *)
(* pollers look back over a window after a restart, and a channel can be   *)
(* both polled and listened to.  One action is one await that changes      *)
(* durable state or reads what a later step depends on.                    *)
(***************************************************************************)
EXTENDS Naturals, FiniteSets, SequencesExt

CONSTANTS
  Tasks,
  Posts, NoPost,
  Author,        \* Author[p]: the account of post p
  PostedAt,      \* PostedAt[p]: posted_at, in the order the authors wrote
  Lookback,      \* how far back last_stance looks (21 days in the code)
  Metered,       \* the posts that arrive with engagement metrics
  Readings,      \* Readings[p]: what pipeline.extract may return for p
  CallStances,   \* the states an explicit call may take: "none", "long", "short"
  MaxFaults,     \* bound: exceptions and crashes in a behaviour
  NoKey

Mentions == UNION {ToSet(r) : r \in UNION {Readings[p] : p \in Posts}}
Symbols == {m.symbol : m \in Mentions}
Authors == {Author[p] : p \in Posts}

\* symbol, and contract for an option; stance; sure: the stance_confidence is
\* 0.6 or more; loud: it passes min_confidence and min_conviction.
ASSUME ReadingsAssumption ==
  \A p \in Posts : \A r \in Readings[p] :
    /\ r \in Seq(ToSet(r))
    /\ \A m \in ToSet(r) :
         /\ DOMAIN m = {"symbol", "contract", "stance", "sure", "loud"}
         /\ m.stance \in {"bullish", "bearish", "neutral"}
         /\ m.sure \in BOOLEAN /\ m.loud \in BOOLEAN
ASSUME PostsAssumption == NoPost \notin Posts /\ PostedAt \in [Posts -> Nat]
ASSUME BoundsAssumption ==
  MaxFaults \in Nat /\ Lookback \in Nat /\ "none" \in CallStances

\* _mention_key tells contracts apart, the reversal key does not.
AlertKey(p, m) ==
  [kind |-> "ALERT", post |-> p, symbol |-> m.symbol, contract |-> m.contract]
FlipKey(p, m) ==
  [kind |-> "FLIP", post |-> p, symbol |-> m.symbol, contract |-> "none"]

Keys == {AlertKey(p, m) : p \in Posts, m \in Mentions}
          \cup {FlipKey(p, m) : p \in Posts, m \in Mentions}

ASSUME NoKeyAssumption == NoKey \notin Keys

VARIABLES
  \* the database
  postState,     \* posts.state, "absent" while there is no row
  stored,        \* stored[p]: the ticker_mentions rows of p
  storeLog,      \* the order in which posts had their mentions stored
  extras,        \* the post_engagement and post_conviction rows of p
  audits,        \* how many post_processed audit rows p has
  openCall,      \* the open explicit call of an account on a symbol
  claims, delivered,   \* the notifier's ledger and the channel
  \* the process
  call,          \* the notifier call of each task
  task,          \* where each task is in process_post
  counted,       \* how often the Analyzer has ingested p since the start
  faults         \* bounded by MaxFaults

db == <<postState, stored, storeLog, extras, audits>>
ledger == <<claims, delivered, call>>
vars == <<postState, stored, storeLog, extras, audits, openCall, claims,
          delivered, call, task, counted, faults>>

N == INSTANCE Notifier WITH Senders <- Tasks

NoTask == [pc |-> "idle", post |-> NoPost, new |-> FALSE, found |-> <<>>,
           todo |-> <<>>, flip |-> FALSE]
Todo == [kind : {"ALERT", "FLIP"}, mention : Mentions]

TypeOK ==
  /\ N!TypeOK
  /\ postState \in [Posts -> {"absent", "seen", "live", "archived"}]
  /\ stored \in [Posts -> SUBSET Mentions]
  /\ storeLog \in Seq(Posts)
  /\ extras \in [Posts -> SUBSET {"engagement", "conviction"}]
  /\ audits \in [Posts -> Nat]
  /\ openCall \in [Authors \X Symbols -> CallStances]
  /\ counted \in [Posts -> Nat]
  /\ faults \in 0 .. MaxFaults
  /\ task \in [Tasks ->
       [pc : {"idle", "extract", "store", "state", "analyze", "engagement",
              "conviction", "sends", "calls", "flip", "sending", "audit"},
        post : Posts \cup {NoPost}, new : BOOLEAN, found : Seq(Mentions),
        todo : Seq(Todo), flip : BOOLEAN]]

Init ==
  /\ N!Init
  /\ postState = [p \in Posts |-> "absent"]
  /\ stored = [p \in Posts |-> {}]
  /\ storeLog = <<>>
  /\ extras = [p \in Posts |-> {}]
  /\ audits = [p \in Posts |-> 0]
  /\ openCall = [c \in Authors \X Symbols |-> "none"]
  /\ task = [t \in Tasks |-> NoTask]
  /\ counted = [p \in Posts |-> 0]
  /\ faults = 0

-----------------------------------------------------------------------------
At(t, pc) == task[t].pc = pc
Goto(t, pc) == task' = [task EXCEPT ![t].pc = pc]

\* Mutant of IsNew: judged by the state, not by the row.
IsNewByState(p) == postState[p] \in {"absent", "seen"}

\* A task takes up a sighted post.  insert_post_if_new: the unique constraint
\* on (account, platform_post_id) decides which sighting is the new one.
IsNew(p) == postState[p] = "absent"

InsertPost(t, p) ==
  /\ At(t, "idle")
  /\ postState' = IF IsNew(p) THEN [postState EXCEPT ![p] = "seen"] ELSE postState
  /\ task' = [task EXCEPT ![t] =
                [NoTask EXCEPT !.pc = "extract", !.post = p, !.new = IsNew(p)]]
  /\ UNCHANGED <<stored, storeLog, extras, audits, openCall, ledger, counted, faults>>

\* Mutant of Sends: options are left out.
SendsOfShares(r) ==
  LET shares == SelectSeq(r, LAMBDA m : m.contract = "share") IN
  [i \in DOMAIN shares |-> [kind |-> "ALERT", mention |-> shares[i]]]
    \o [i \in DOMAIN r |-> [kind |-> "FLIP", mention |-> r[i]]]

\* The alerts come first, for every mention, then the reversals.
Sends(r) ==
  [i \in DOMAIN r |-> [kind |-> "ALERT", mention |-> r[i]]]
    \o [i \in DOMAIN r |-> [kind |-> "FLIP", mention |-> r[i]]]

\* Mutant of Extract: a post seen before is not looked at again.
ExtractOnlyNew(t) ==
  /\ At(t, "extract")
  /\ \E r \in Readings[task[t].post] :
       task' = [task EXCEPT ![t] =
                  IF ~@.new THEN NoTask
                  ELSE [@ EXCEPT !.pc = "store", !.found = r, !.todo = Sends(r)]]
  /\ UNCHANGED <<db, openCall, ledger, counted, faults>>

\* pipeline.extract runs on every sighting; only the new one stores anything.
Extract(t) ==
  /\ At(t, "extract")
  /\ \E r \in Readings[task[t].post] :
       task' = [task EXCEPT ![t].pc = IF task[t].new THEN "store" ELSE "sends",
                            ![t].found = r, ![t].todo = Sends(r)]
  /\ UNCHANGED <<db, openCall, ledger, counted, faults>>

\* add_mentions: one commit, and none when there is nothing to store.
StoreMentions(t) ==
  LET p == task[t].post IN
  /\ At(t, "store")
  /\ stored' = [stored EXCEPT ![p] = @ \cup ToSet(task[t].found)]
  /\ storeLog' = IF task[t].found = <<>> THEN storeLog ELSE Append(storeLog, p)
  /\ Goto(t, "state")
  /\ UNCHANGED <<postState, extras, audits, openCall, ledger, counted, faults>>

\* What a post whose state is settled still needs.
AfterState(t) ==
  IF task[t].found # <<>> THEN "analyze"
  ELSE IF task[t].post \in Metered THEN "engagement" ELSE "sends"

\* set_post_state: a commit of its own, after the mentions.
SetPostState(t) ==
  /\ At(t, "state")
  /\ postState' = [postState EXCEPT ![task[t].post] =
                     IF task[t].found # <<>> THEN "live" ELSE "archived"]
  /\ Goto(t, AfterState(t))
  /\ UNCHANGED <<stored, storeLog, extras, audits, openCall, ledger, counted, faults>>

\* analyzer.ingest of every mention: in memory, without an await in between.
Analyze(t) ==
  /\ At(t, "analyze")
  /\ counted' = [counted EXCEPT ![task[t].post] = @ + 1]
  /\ Goto(t, IF task[t].post \in Metered THEN "engagement" ELSE "conviction")
  /\ UNCHANGED <<db, openCall, ledger, faults>>

\* save_engagement and save_post_conviction: one row per post, at most.
SaveExtra(p, row) == extras' = [extras EXCEPT ![p] = @ \cup {row}]

SaveEngagement(t) ==
  /\ At(t, "engagement")
  /\ SaveExtra(task[t].post, "engagement")
  /\ Goto(t, IF task[t].found # <<>> THEN "conviction" ELSE "sends")
  /\ UNCHANGED <<postState, stored, storeLog, audits, openCall, ledger, counted, faults>>

SaveConviction(t) ==
  /\ At(t, "conviction")
  /\ SaveExtra(task[t].post, "conviction")
  /\ Goto(t, "sends")
  /\ UNCHANGED <<postState, stored, storeLog, audits, openCall, ledger, counted, faults>>

-----------------------------------------------------------------------------
\* The send at the head of the to-do list.
Turn(t, kind) ==
  /\ At(t, "sends")
  /\ task[t].todo # <<>>
  /\ Head(task[t].todo).kind = kind

Mention(t) == Head(task[t].todo).mention

\* On to the next send.
NextSend(t) ==
  task' = [task EXCEPT ![t].pc = "sends", ![t].todo = Tail(@), ![t].flip = FALSE]

\* claim_send under key k: the caller sends only if it inserted the row.
Claim(t, k) ==
  \/ /\ N!ClaimSend(t, k)
     /\ Goto(t, "sending")
  \/ /\ ~N!Claimable(k)
     /\ NextSend(t)
     /\ UNCHANGED ledger

SkipAlert(t) ==
  /\ Turn(t, "ALERT")
  /\ ~Mention(t).loud
  /\ NextSend(t)
  /\ UNCHANGED <<db, openCall, ledger, counted, faults>>

SendAlert(t) ==
  /\ Turn(t, "ALERT")
  /\ Mention(t).loud
  /\ Claim(t, AlertKey(task[t].post, Mention(t)))
  /\ UNCHANGED <<db, openCall, counted, faults>>

\* Bullish or bearish, and confidently so.
Directional(m) == m.stance \in {"bullish", "bearish"} /\ m.sure

SkipReversal(t) ==
  /\ Turn(t, "FLIP")
  /\ ~Directional(Mention(t))
  /\ NextSend(t)
  /\ UNCHANGED <<db, openCall, ledger, counted, faults>>

\* last_stance: the newest stored directional take of the author of p on a
\* symbol, posted before p and within the lookback.  Rows of one post tie.
EarlierTakes(p, symbol) ==
  {q \in Posts :
     /\ Author[q] = Author[p]
     /\ PostedAt[q] < PostedAt[p]
     /\ PostedAt[p] - PostedAt[q] <= Lookback
     /\ \E m \in stored[q] : m.symbol = symbol /\ m.stance # "neutral"}

\* Mutant of LastStances: the lookback is an open interval.
LastStancesWithin(p, symbol) ==
  {m \in Mentions :
     /\ m.symbol = symbol
     /\ m.stance # "neutral"
     /\ \E q \in EarlierTakes(p, symbol) :
          m \in stored[q] /\ PostedAt[p] - PostedAt[q] < Lookback}

LastStances(p, symbol) ==
  {m \in Mentions :
     /\ m.symbol = symbol
     /\ m.stance # "neutral"
     /\ \E q \in EarlierTakes(p, symbol) :
          /\ m \in stored[q]
          /\ \A r \in EarlierTakes(p, symbol) : PostedAt[r] <= PostedAt[q]}

\* Mutant of Reverses: a guess counts as a take.
ReversesGuess(prior, m) == prior.stance # m.stance

Reverses(prior, m) == prior.stance # m.stance /\ prior.sure

ReadLastStance(t) ==
  LET priors == LastStances(task[t].post, Mention(t).symbol) IN
  /\ Turn(t, "FLIP")
  /\ Directional(Mention(t))
  /\ \E flip \in IF priors = {} THEN {FALSE}
                 ELSE {Reverses(m, Mention(t)) : m \in priors} :
       task' = [task EXCEPT ![t].pc = "calls", ![t].flip = flip]
  /\ UNCHANGED <<db, openCall, ledger, counted, faults>>

AgainstCall(p, m) ==
  \/ openCall[<<Author[p], m.symbol>>] = "long" /\ m.stance = "bearish"
  \/ openCall[<<Author[p], m.symbol>>] = "short" /\ m.stance = "bullish"

\* open_call_for, and the decision on both reads.
ReadOpenCall(t) ==
  /\ At(t, "calls")
  /\ IF task[t].flip \/ AgainstCall(task[t].post, Mention(t))
     THEN Goto(t, "flip") ELSE NextSend(t)
  /\ UNCHANGED <<db, openCall, ledger, counted, faults>>

SendReversal(t) ==
  /\ At(t, "flip")
  /\ Claim(t, FlipKey(task[t].post, Mention(t)))
  /\ UNCHANGED <<db, openCall, counted, faults>>

\* The notifier call of a task: Telegram answers, the row is marked sent, and
\* the task goes on with the next send.
TelegramAnswers(t) ==
  /\ N!SendMarkdown(t) \/ N!ParseError(t) \/ N!SendPlain(t)
  /\ UNCHANGED <<db, openCall, task, counted, faults>>

MarkSent(t) ==
  /\ N!MarkSent(t)
  /\ NextSend(t)
  /\ UNCHANGED <<db, openCall, counted, faults>>

\* record_audit, on the new sighting only.
Finish(t) ==
  /\ At(t, "sends")
  /\ task[t].todo = <<>>
  /\ task' = [task EXCEPT ![t] =
                IF task[t].new THEN [task[t] EXCEPT !.pc = "audit"] ELSE NoTask]
  /\ UNCHANGED <<db, openCall, ledger, counted, faults>>

RecordAudit(t) ==
  /\ At(t, "audit")
  /\ audits' = [audits EXCEPT ![task[t].post] = @ + 1]
  /\ task' = [task EXCEPT ![t] = NoTask]
  /\ UNCHANGED <<postState, stored, storeLog, extras, openCall, ledger, counted, faults>>

-----------------------------------------------------------------------------
\* An await raises: the loop logs it and moves on, and the rest of this
\* sighting's work is not done.
Raises(t) ==
  /\ ~At(t, "idle")
  /\ faults < MaxFaults
  /\ faults' = faults + 1
  /\ \/ call[t] = N!Idle /\ UNCHANGED ledger
     \/ N!SendRaises(t)
     \/ N!MarkRaises(t)
  /\ task' = [task EXCEPT ![t] = NoTask]
  /\ UNCHANGED <<db, openCall, counted>>

\* The process dies or is stopped, and starts again with an empty Analyzer.
Crash ==
  /\ faults < MaxFaults
  /\ faults' = faults + 1
  /\ N!Crash
  /\ task' = [t \in Tasks |-> NoTask]
  /\ counted' = [p \in Posts |-> 0]
  /\ UNCHANGED <<db, openCall>>

\* The call scan opens explicit calls, the outcome job closes them.
SetOpenCall(a, symbol) ==
  /\ \E c \in CallStances \ {openCall[<<a, symbol>>]} :
       openCall' = [openCall EXCEPT ![<<a, symbol>>] = c]
  /\ UNCHANGED <<db, ledger, task, counted, faults>>

\* What a task that has taken up a post does next.
Continue(t) ==
  \/ Extract(t) \/ StoreMentions(t) \/ SetPostState(t) \/ Analyze(t)
  \/ SaveEngagement(t) \/ SaveConviction(t)
  \/ SkipAlert(t) \/ SendAlert(t)
  \/ SkipReversal(t) \/ ReadLastStance(t) \/ ReadOpenCall(t) \/ SendReversal(t)
  \/ TelegramAnswers(t) \/ MarkSent(t)
  \/ Finish(t) \/ RecordAudit(t)

Next ==
  \/ \E t \in Tasks, p \in Posts : InsertPost(t, p)
  \/ \E t \in Tasks : Continue(t) \/ Raises(t)
  \/ Crash
  \/ \E a \in Authors, s \in Symbols : SetOpenCall(a, s)

Spec == Init /\ [][Next]_vars

-----------------------------------------------------------------------------
Claimed(k) == claims[k] # "none"

Places(p) == {i \in DOMAIN storeLog : storeLog[i] = p}

\* The work gated on is_new is done at most once per post, by whichever task
\* inserted it.  The mention rows, the audit row and the Analyzer's counts have
\* nothing else to protect them: ticker_mentions has no unique constraint.
OneTimeWorkOnce ==
  \A p \in Posts :
    /\ Cardinality(Places(p)) <= 1
    /\ audits[p] <= 1
    /\ counted[p] <= 1

\* p states a confident direction on m's symbol, and every take its author
\* posted on it within the lookback, as far as stored, is the confident
\* opposite; q's take was stored before p's.
ClearReversal(q, p, m) ==
  /\ m \in stored[p] /\ Directional(m)
  /\ q \in EarlierTakes(p, m.symbol)
  /\ \E i, j \in DOMAIN storeLog : i < j /\ storeLog[i] = q /\ storeLog[j] = p
  /\ \A r \in EarlierTakes(p, m.symbol) : \A x \in stored[r] :
       x.symbol = m.symbol /\ x.stance # "neutral" => Reverses(x, m)

\* What the send at the head of a task's list goes out under.
SendKey(t) ==
  IF Head(task[t].todo).kind = "ALERT"
  THEN AlertKey(task[t].post, Mention(t)) ELSE FlipKey(task[t].post, Mention(t))

\* A task has a post from its insert to its end, does one-time work only when it
\* inserted it, works on one reading of it, and is inside the notifier only for
\* the send at the head of its list.
InOrder(t) ==
  /\ IF At(t, "idle") THEN task[t] = NoTask
     ELSE task[t].post \in Posts /\ postState[task[t].post] # "absent"
  /\ task[t].pc \in {"store", "state", "analyze", "engagement", "conviction",
                     "audit"} => task[t].new
  /\ task[t].pc \notin {"idle", "extract"} =>
       task[t].found \in Readings[task[t].post]
  /\ task[t].pc \in {"analyze", "conviction"} => task[t].found # <<>>
  /\ At(t, "engagement") => task[t].post \in Metered
  /\ task[t].pc \in {"calls", "flip"} =>
       /\ task[t].todo # <<>> /\ Head(task[t].todo).kind = "FLIP"
       /\ Directional(Mention(t))
  /\ At(t, "audit") => task[t].todo = <<>>
  /\ IF At(t, "sending")
     THEN task[t].todo # <<>> /\ call[t].key = SendKey(t)
     ELSE call[t] = N!Idle

TaskIsInOrder == \A t \in Tasks : InOrder(t)

\* One task inserted a post, and how far it is says what the rows of the post
\* are; before the insert there are none.
Untouched(p) ==
  /\ stored[p] = {} /\ extras[p] = {} /\ audits[p] = 0 /\ counted[p] = 0
  /\ p \notin ToSet(storeLog)

Settled(p) == postState[p] = IF stored[p] = {} THEN "archived" ELSE "live"

ExtrasOf(p) ==
  (IF p \in Metered THEN {"engagement"} ELSE {})
    \cup (IF stored[p] = {} THEN {} ELSE {"conviction"})

RowsAreOf(t) ==
  LET p == task[t].post
      Past(stages) == task[t].pc \notin stages IN
  /\ audits[p] = 0
  /\ IF Past({"extract", "store"}) THEN stored[p] = ToSet(task[t].found)
                                   ELSE Untouched(p)
  /\ ~Past({"state", "analyze"}) => counted[p] = 0
  /\ Past({"extract", "store", "state"}) => Settled(p)
  /\ extras[p] =
       IF ~Past({"extract", "store", "state", "analyze", "engagement"}) THEN {}
       ELSE IF ~Past({"conviction"}) THEN ExtrasOf(p) \ {"conviction"}
       ELSE ExtrasOf(p)

RowsFollowTask ==
  /\ \A p \in Posts : postState[p] = "absent" => Untouched(p)
  /\ \A t, u \in Tasks :
       task[t].new /\ task[u].new /\ task[t].post = task[u].post => t = u
  /\ \A t \in Tasks : task[t].new => RowsAreOf(t)

\* Of what a task has found, the alerts that are not claimed are on its list; so
\* are the reversals of the task that stores it, from before it does, and where
\* it has read the earlier takes it knows of the turn.
IsListed(t, m) ==
  /\ m.loud => \/ Claimed(AlertKey(task[t].post, m))
               \/ [kind |-> "ALERT", mention |-> m] \in ToSet(task[t].todo)
  /\ task[t].new =>
       \A q \in Posts : At(t, "store") \/ ClearReversal(q, task[t].post, m) =>
         \/ Claimed(FlipKey(task[t].post, m))
         \/ /\ [kind |-> "FLIP", mention |-> m] \in ToSet(task[t].todo)
            /\ At(t, "calls") /\ Mention(t) = m => task[t].flip

SendsAreListed ==
  \A t \in Tasks : task[t].pc \notin {"idle", "extract"} =>
    \A m \in ToSet(task[t].found) : IsListed(t, m)

\* q holds a confident take against m, from before p and by the same author.
HasOpposite(q, p, m) ==
  \E x \in stored[q] :
    /\ Author[q] = Author[p] /\ PostedAt[q] < PostedAt[p]
    /\ x.symbol = m.symbol /\ x.sure
    /\ {x.stance, m.stance} = {"bullish", "bearish"}

TurnHasCause ==
  \A t \in Tasks : At(t, "calls") /\ task[t].flip =>
    \E q \in Posts : HasOpposite(q, task[t].post, Mention(t))

\* Rows, ledger and tasks are well-typed, and one-time work is done once.  The
\* rest of it is what that and the properties below rest on.
SpineInv ==
  /\ TypeOK /\ N!IInv
  /\ OneTimeWorkOnce
  /\ TaskIsInOrder /\ RowsFollowTask /\ SendsAreListed /\ TurnHasCause

\* The audit row can be trusted: a post with one went through every stage, and
\* each stored mention that is loud enough had its alert claimed - by this
\* sighting or by another task's.
AuditedPostIsComplete ==
  \A p \in Posts : audits[p] > 0 =>
    /\ postState[p] = IF stored[p] = {} THEN "archived" ELSE "live"
    /\ "conviction" \in extras[p] <=> stored[p] # {}
    /\ "engagement" \in extras[p] <=> p \in Metered
    /\ \A m \in stored[p] : m.loud => Claimed(AlertKey(p, m))

\* A turn against the author's own earlier take is announced by the time the
\* post is fully processed, provided the earlier take was stored first.
ReversalIsAlerted ==
  \A q, p \in Posts : \A m \in Mentions :
    ClearReversal(q, p, m) /\ audits[p] > 0 => Claimed(FlipKey(p, m))

\* No reversal is announced out of nothing: when a task sets out to announce one,
\* the author has an explicit call open against it, or a stored, confident,
\* opposite take from before.
NoCauselessReversal ==
  [][\A t \in Tasks : ~At(t, "flip") /\ task'[t].pc = "flip" =>
       LET p == task[t].post
           m == Mention(t) IN
       AgainstCall(p, m) \/ \E q \in Posts : HasOpposite(q, p, m)]_vars

\* What every reading of a post agrees to alert.
Wanted(p) == {m \in Mentions : m.loud /\ \A r \in Readings[p] : m \in ToSet(r)}

\* A sighting that no exception and no crash cuts short ends with everything
\* alerted that the post says, whatever an earlier sighting left undone
\* (worker.py:9-11 "attempted on every sighting ... so a crash ... is recovered").
SightingAlerts ==
  [][\A t \in Tasks :
       task[t].post # NoPost /\ task'[t] = NoTask /\ faults' = faults =>
         \A m \in Wanted(task[t].post) :
           claims'[AlertKey(task[t].post, m)] # "none"]_vars
=============================================================================
