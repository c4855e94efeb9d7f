----------------------------- MODULE SpineProofs -----------------------------
(***************************************************************************)
(* Proofs about Spine, for any tasks, posts, readings, lookback and number *)
(* of faults.                                                              *)
(*                                                                         *)
(* What the properties say of a post's rows, they say of posts that are    *)
(* through; the invariant says it of every task on its way there.          *)
(* RowsFollowTask ties the rows of a post to the one task that inserted it, *)
(* TaskIsInOrder ties a task to its notifier call, and SendsAreListed says *)
(* what is still on a task's list.  That a reversal is known to the task   *)
(* that must send it needs one more fact, TurnIsOld: a clear reversal of a *)
(* stored post was clear before the step as well, whoever else stores      *)
(* mentions meanwhile.                                                     *)
(***************************************************************************)
EXTENDS Spine, SequenceTheorems, FiniteSetTheorems, WellFoundedInduction, TLAPS

-----------------------------------------------------------------------------
(* Sequences                                                               *)

\* The elements of a sequence.
LEMMA ElementsOfSeq ==
  ASSUME NEW S, NEW s \in Seq(S)
  PROVE  ToSet(s) \subseteq S
  BY LenProperties, ElementOfSeq DEF ToSet

\* The first element of a sequence, and what the rest of it holds.
LEMMA HeadAndTail ==
  ASSUME NEW S, NEW s \in Seq(S), s # <<>>
  PROVE  /\ Head(s) \in S
         /\ Tail(s) \in Seq(S)
         /\ ToSet(s) = {Head(s)} \cup ToSet(Tail(s))
<1>1. PICK h \in S, t \in Seq(S) : h = Head(s) /\ t = Tail(s)
  BY HeadTailProperties
<1>2. <<h>> \in Seq(S) /\ Len(<<h>>) = 1 /\ <<h>>[1] = h /\ Range(<<h>>) = {h}
  BY DEF Range
<1>3. PICK one \in Seq(S) : one = <<h>>
  BY <1>2
<1>4. s = one \o t
  <2>1. one \o t \in Seq(S) /\ Len(one \o t) = Len(s)
    BY <1>1, <1>2, <1>3, HeadTailProperties, ConcatProperties, LenProperties
  <2>2. \A i \in 1 .. Len(s) : s[i] = (one \o t)[i]
    BY <1>1, <1>2, <1>3, HeadTailProperties, ConcatProperties, LenProperties
  <2> QED
    BY <2>1, <2>2, SeqEqual
<1>5. Range(s) = {h} \cup Range(t)
  <2>1. Range(one \o t) = Range(one) \cup Range(t)
    BY RangeConcatenation
  <2> QED
    BY <1>2, <1>3, <1>4, <2>1
<1> QED
  BY <1>1, <1>5 DEF ToSet, Range

\* An element more at the end of a sequence.
LEMMA AppendOne ==
  ASSUME NEW S, NEW s \in Seq(S), NEW x \in S
  PROVE  /\ Append(s, x) \in Seq(S)
         /\ Len(s) \in Nat
         /\ DOMAIN s = 1 .. Len(s)
         /\ DOMAIN Append(s, x) = 1 .. Len(s) + 1
         /\ \A i \in DOMAIN s : Append(s, x)[i] = s[i]
         /\ Append(s, x)[Len(s) + 1] = x
         /\ ToSet(Append(s, x)) = ToSet(s) \cup {x}
<1>1. <<x>> \in Seq(S) /\ Append(s, x) = s \o <<x>> /\ Range(<<x>>) = {x}
  BY AppendIsConcat DEF Range
<1>2. ToSet(Append(s, x)) = ToSet(s) \cup {x}
  BY <1>1, RangeConcatenation DEF ToSet, Range
<1> QED
  BY <1>2, AppendProperties, LenProperties

-----------------------------------------------------------------------------

NP == INSTANCE NotifierProofs WITH Senders <- Tasks

\* What is proved of the notifier holds of the ledger the tasks work on.
LEMMA LedgerStep ==
  N!IInv /\ [N!Next]_ledger =>
    N!IInv' /\ \A k \in Keys : Claimed(k) => Claimed(k)'
  BY NP!NextIInv, NP!StepKeepsRows, NoKeyAssumption
  DEF NP!KeepsRow, Claimed, ledger, NP!vars, NP!IInv, N!IInv, NP!TypeOK, N!TypeOK,
      NP!CallHasKey, N!CallHasKey, NP!ClaimIsExclusive, N!ClaimIsExclusive,
      NP!NotYetShown, N!NotYetShown, NP!AtMostOneMessage, N!AtMostOneMessage,
      NP!SentWasDelivered, N!SentWasDelivered, NP!Idle, N!Idle,
      NP!Next, N!Next, NP!Progress, N!Progress, NP!Crash, N!Crash,
      NP!ClaimSend, N!ClaimSend, NP!ClaimAnswerLost, N!ClaimAnswerLost,
      NP!Claimable, N!Claimable, NP!SendMarkdown, N!SendMarkdown,
      NP!ParseError, N!ParseError, NP!SendPlain, N!SendPlain,
      NP!SendRaises, N!SendRaises, NP!ClaimAfterRaise, N!ClaimAfterRaise,
      NP!MarkSent, N!MarkSent, NP!MarkRaises, N!MarkRaises,
      NP!InChannel, N!InChannel

\* An empty ledger is a good one.
LEMMA LedgerInit == N!Init => N!IInv
  BY NP!InitIInv, NoKeyAssumption
  DEF NP!IInv, N!IInv, NP!TypeOK, N!TypeOK,
      NP!CallHasKey, N!CallHasKey, NP!ClaimIsExclusive, N!ClaimIsExclusive,
      NP!NotYetShown, N!NotYetShown, NP!AtMostOneMessage, N!AtMostOneMessage,
      NP!SentWasDelivered, N!SentWasDelivered, NP!Idle, N!Idle,
      NP!Init, N!Init

\* What a message goes out under.
LEMMA KeysOfMention ==
  ASSUME NEW p \in Posts, NEW m \in Mentions
  PROVE  /\ AlertKey(p, m) \in Keys /\ FlipKey(p, m) \in Keys
         /\ AlertKey(p, m) # NoKey /\ FlipKey(p, m) # NoKey
  BY NoKeyAssumption DEF Keys

\* What a mention says.
LEMMA MentionFields ==
  ASSUME NEW m \in Mentions
  PROVE  /\ m.symbol \in Symbols
         /\ m.stance \in {"bullish", "bearish", "neutral"}
         /\ m.sure \in BOOLEAN /\ m.loud \in BOOLEAN
<1>1. PICK p \in Posts : \E r \in Readings[p] : m \in ToSet(r)
  BY DEF Mentions
<1> QED
  BY <1>1, ReadingsAssumption DEF Symbols

\* A reading is a sequence of mentions.
LEMMA ReadingOfPost ==
  ASSUME NEW p \in Posts, NEW r \in Readings[p]
  PROVE  /\ r \in Seq(Mentions) /\ ToSet(r) \subseteq Mentions
         /\ r = <<>> <=> ToSet(r) = {}
<1>1. r \in Seq(ToSet(r))
  BY ReadingsAssumption
<1>2. ToSet(r) \subseteq Mentions
  BY DEF Mentions
<1>3. r \in Seq(Mentions)
  <2>1. Len(r) \in Nat /\ DOMAIN r = 1 .. Len(r)
        /\ \A i \in DOMAIN r : r[i] \in Mentions
    BY <1>1, <1>2, LenProperties, ElementOfSeq
  <2> QED
    BY <1>1, <1>2
<1>4. r = <<>> <=> ToSet(r) = {}
  BY <1>1, EmptySeq, LenProperties DEF ToSet
<1> QED
  BY <1>2, <1>3, <1>4

\* A task's list begins with everything the reading says.
LEMMA SendsListAll ==
  ASSUME NEW r \in Seq(Mentions)
  PROVE  /\ Sends(r) \in Seq(Todo)
         /\ \A m \in ToSet(r) :
              /\ [kind |-> "ALERT", mention |-> m] \in ToSet(Sends(r))
              /\ [kind |-> "FLIP", mention |-> m] \in ToSet(Sends(r))
<1> DEFINE alerts == [i \in DOMAIN r |-> [kind |-> "ALERT", mention |-> r[i]]]
           flips == [i \in DOMAIN r |-> [kind |-> "FLIP", mention |-> r[i]]]
<1>1. /\ Len(r) \in Nat /\ DOMAIN r = 1 .. Len(r)
      /\ \A i \in DOMAIN r : r[i] \in Mentions
  BY LenProperties, ElementOfSeq
<1>2. alerts \in Seq(Todo) /\ flips \in Seq(Todo)
  BY <1>1, IsASeq DEF Todo
<1>3. Len(alerts) = Len(r) /\ Len(flips) = Len(r)
  BY <1>1, <1>2, LenProperties
<1>4. Sends(r) = alerts \o flips
  BY DEF Sends
<1> HIDE DEF alerts, flips
<1>5. /\ alerts \o flips \in Seq(Todo)
      /\ Len(alerts \o flips) = Len(alerts) + Len(flips)
      /\ \A i \in 1 .. Len(alerts) + Len(flips) :
           (alerts \o flips)[i] =
             IF i <= Len(alerts) THEN alerts[i] ELSE flips[i - Len(alerts)]
  BY <1>2, ConcatProperties, Zenon
<1>6. /\ Sends(r) \in Seq(Todo)
      /\ Len(Sends(r)) = Len(r) + Len(r)
      /\ \A i \in 1 .. Len(r) + Len(r) :
           Sends(r)[i] = IF i <= Len(r) THEN alerts[i] ELSE flips[i - Len(r)]
  BY <1>3, <1>4, <1>5
<1>7. DOMAIN Sends(r) = 1 .. Len(r) + Len(r)
  BY <1>6, LenProperties
<1>8. ASSUME NEW m \in ToSet(r)
      PROVE  /\ [kind |-> "ALERT", mention |-> m] \in ToSet(Sends(r))
             /\ [kind |-> "FLIP", mention |-> m] \in ToSet(Sends(r))
  <2>1. PICK i \in 1 .. Len(r) : m = r[i]
    BY <1>1, <1>8 DEF ToSet
  <2>2. /\ i \in DOMAIN Sends(r) /\ i + Len(r) \in DOMAIN Sends(r)
        /\ Sends(r)[i] = alerts[i] /\ Sends(r)[i + Len(r)] = flips[i]
    BY <1>1, <1>6, <1>7
  <2>3. /\ alerts[i] = [kind |-> "ALERT", mention |-> m]
        /\ flips[i] = [kind |-> "FLIP", mention |-> m]
    BY <1>1, <2>1 DEF alerts, flips
  <2> QED
    BY <2>2, <2>3 DEF ToSet
<1> QED
  BY <1>6, <1>8

\* What a task past the insert works on.
LEMMA TaskHasPost ==
  ASSUME SpineInv, NEW t \in Tasks, ~At(t, "idle")
  PROVE  task[t].post \in Posts
  BY DEF SpineInv, TaskIsInOrder, InOrder

\* The send at the head of a list.
LEMMA HeadOfList ==
  ASSUME SpineInv, NEW t \in Tasks, task[t].todo # <<>>
  PROVE  /\ Head(task[t].todo) \in Todo
         /\ Mention(t) \in Mentions
         /\ Head(task[t].todo) =
              [kind |-> Head(task[t].todo).kind, mention |-> Mention(t)]
         /\ Tail(task[t].todo) \in Seq(Todo)
         /\ ToSet(task[t].todo) =
              {Head(task[t].todo)} \cup ToSet(Tail(task[t].todo))
<1>1. task[t].todo \in Seq(Todo)
  BY DEF SpineInv, TypeOK
<1>2. /\ Head(task[t].todo) \in Todo /\ Tail(task[t].todo) \in Seq(Todo)
      /\ ToSet(task[t].todo) =
           {Head(task[t].todo)} \cup ToSet(Tail(task[t].todo))
  BY <1>1, HeadAndTail
<1> QED
  BY <1>2 DEF Todo, Mention

\* A task without a list is one that has not read its post, or is done.
LEMMA IdleTask ==
  ASSUME SpineInv, NEW t \in Tasks, At(t, "idle")
  PROVE  task[t] = NoTask /\ ~task[t].new /\ task[t].post = NoPost
<1>1. task[t] = NoTask
  BY DEF SpineInv, TaskIsInOrder, InOrder
<1> QED
  BY <1>1 DEF NoTask

\* A task in the notifier is there for the send at the head of its list.
LEMMA TaskInCall ==
  ASSUME SpineInv, NEW t \in Tasks, call[t] # N!Idle
  PROVE  /\ At(t, "sending") /\ task[t].todo # <<>> /\ call[t].key = SendKey(t)
         /\ ~N!Claimable(call[t].key)
  BY DEF SpineInv, TaskIsInOrder, InOrder, N!IInv, N!ClaimIsExclusive, N!Claimable

-----------------------------------------------------------------------------
\* What the tasks do to the ledger are the steps of notifier calls.
LEMMA StepOfNotifier == SpineInv /\ [Next]_vars => [N!Next]_ledger
<1> SUFFICES ASSUME SpineInv, Next, ~UNCHANGED ledger
             PROVE  N!Next
  BY DEF vars, ledger
<1>1. ASSUME NEW t \in Tasks, SendAlert(t)
      PROVE  N!Next
  <2>1. AlertKey(task[t].post, Mention(t)) \in Keys
    BY <1>1, TaskHasPost, HeadOfList, KeysOfMention DEF SendAlert, Turn, At
  <2> QED
    BY <1>1, <2>1 DEF SendAlert, Claim, N!Next
<1>2. ASSUME NEW t \in Tasks, SendReversal(t)
      PROVE  N!Next
  <2>1. task[t].todo # <<>>
    BY <1>2 DEF SendReversal, SpineInv, TaskIsInOrder, InOrder, At
  <2>2. FlipKey(task[t].post, Mention(t)) \in Keys
    BY <1>2, <2>1, TaskHasPost, HeadOfList, KeysOfMention DEF SendReversal, At
  <2> QED
    BY <1>2, <2>2 DEF SendReversal, Claim, N!Next
<1>3. ASSUME NEW t \in Tasks, TelegramAnswers(t)
      PROVE  N!Next
  BY <1>3 DEF TelegramAnswers, N!Next, N!Progress
<1>4. ASSUME NEW t \in Tasks, MarkSent(t)
      PROVE  N!Next
  BY <1>4 DEF MarkSent, N!Next, N!Progress
<1>5. ASSUME NEW t \in Tasks, Raises(t)
      PROVE  N!Next
  BY <1>5 DEF Raises, N!Next, N!Progress
<1>6. CASE Crash
  BY <1>6 DEF Crash, N!Next
<1> QED
  BY <1>1, <1>2, <1>3, <1>4, <1>5, <1>6
  DEF Next, Continue, InsertPost, Extract, StoreMentions, SetPostState, Analyze,
      SaveEngagement, SaveConviction, SkipAlert, SkipReversal, ReadLastStance,
      ReadOpenCall, Finish, RecordAudit, SetOpenCall

\* Nothing is stored yet, and every task is free.
LEMMA InitSpineInv == Init => SpineInv
<1> SUFFICES ASSUME Init
             PROVE  SpineInv
  OBVIOUS
<1>1. N!IInv /\ N!TypeOK /\ \A t \in Tasks : call[t] = N!Idle
  BY LedgerInit DEF Init, N!IInv, N!Init
<1>2. \A t \in Tasks : task[t] = NoTask /\ ~NoTask.new /\ NoTask.pc = "idle"
  BY DEF Init, NoTask
<1>3. TypeOK
  <2>1. NoTask \in
          [pc : {"idle", "extract", "store", "state", "analyze", "engagement",
                 "conviction", "sends", "calls", "flip", "sending", "audit"},
           post : Posts \cup {NoPost}, new : BOOLEAN, found : Seq(Mentions),
           todo : Seq(Todo), flip : BOOLEAN]
    BY EmptySeq DEF NoTask
  <2>2. storeLog \in Seq(Posts) /\ faults \in 0 .. MaxFaults
    BY EmptySeq, BoundsAssumption DEF Init
  <2> QED
    BY <1>1, <2>1, <2>2, BoundsAssumption DEF Init, TypeOK
<1>4. \A p \in Posts : Untouched(p) /\ storeLog = <<>>
  BY DEF Init, Untouched, ToSet
<1>5. OneTimeWorkOnce
  <2> SUFFICES ASSUME NEW p \in Posts
               PROVE  Cardinality(Places(p)) = 0
    BY <1>4 DEF OneTimeWorkOnce, Untouched
  <2>1. Places(p) = {}
    BY <1>4 DEF Places
  <2> QED
    BY <2>1, FS_EmptySet
<1> QED
  BY <1>1, <1>2, <1>3, <1>4, <1>5
  DEF SpineInv, TaskIsInOrder, InOrder, RowsFollowTask, SendsAreListed, TurnHasCause, At

\* A task that goes on leaves the others where they are.
LEMMA OthersWait ==
  ASSUME SpineInv, NEW t \in Tasks, NEW u \in Tasks, u # t, Continue(u)
  PROVE  task'[t] = task[t] /\ call'[t] = call[t]
<1>1. DOMAIN task = Tasks /\ DOMAIN call = Tasks
  BY DEF SpineInv, TypeOK, N!TypeOK
<1> QED
  BY <1>1
  DEF Continue, Extract, StoreMentions, SetPostState, Analyze, SaveEngagement,
      SaveConviction, SkipAlert, SendAlert, SkipReversal, ReadLastStance,
      ReadOpenCall, SendReversal, TelegramAnswers, MarkSent, Finish,
      RecordAudit, Goto, NextSend, Claim, ledger, N!ClaimSend, N!SendMarkdown,
      N!ParseError, N!SendPlain, N!MarkSent

\* Of the tasks, a step moves one, or takes one back to the start, or all.
LEMMA TaskStep ==
  ASSUME SpineInv, [Next]_vars, NEW t \in Tasks
  PROVE  \/ task'[t] = task[t] /\ call'[t] = call[t]
         \/ \E p \in Posts : InsertPost(t, p)
         \/ Continue(t)
         \/ task'[t] = NoTask /\ call'[t] = N!Idle
<1>1. task \in [Tasks -> {task[u] : u \in Tasks}] /\ DOMAIN call = Tasks
  BY DEF SpineInv, TypeOK, N!TypeOK
<1>2. CASE UNCHANGED vars
  BY <1>2 DEF vars
<1>3. ASSUME NEW u \in Tasks, NEW p \in Posts, InsertPost(u, p)
      PROVE  \/ task'[t] = task[t] /\ call'[t] = call[t]
             \/ InsertPost(t, p)
  BY <1>1, <1>3 DEF InsertPost, ledger
<1>4. ASSUME NEW u \in Tasks, u # t, Continue(u)
      PROVE  task'[t] = task[t] /\ call'[t] = call[t]
  BY <1>4, OthersWait
<1>5. ASSUME NEW u \in Tasks, Raises(u)
      PROVE  \/ task'[t] = task[t] /\ call'[t] = call[t]
             \/ task'[t] = NoTask /\ call'[t] = N!Idle
  BY <1>1, <1>5 DEF Raises, ledger, N!SendRaises, N!MarkRaises
<1>6. CASE Crash
  BY <1>6 DEF Crash, N!Crash
<1>7. CASE \E a \in Authors, s \in Symbols : SetOpenCall(a, s)
  BY <1>7 DEF SetOpenCall, ledger
<1> QED
  BY <1>2, <1>3, <1>4, <1>5, <1>6, <1>7 DEF Next

\* The rows of a post change at its insert and by the task that inserted it.
RowsKept(p) ==
  /\ postState'[p] = postState[p] /\ stored'[p] = stored[p]
  /\ extras'[p] = extras[p] /\ audits'[p] = audits[p]
  /\ counted'[p] \in {counted[p], 0}
  /\ p \in ToSet(storeLog') <=> p \in ToSet(storeLog)

\* The steps of a task that write a row.
WritesRow(t) ==
  \/ StoreMentions(t) \/ SetPostState(t) \/ Analyze(t) \/ SaveEngagement(t)
  \/ SaveConviction(t) \/ RecordAudit(t)

\* What happens to the rows of a post.
LEMMA RowStep ==
  ASSUME SpineInv, [Next]_vars, NEW p \in Posts
  PROVE  \/ RowsKept(p)
         \/ \E t \in Tasks : InsertPost(t, p) /\ IsNew(p)
         \/ \E t \in Tasks : task[t].post = p /\ task[t].new /\ WritesRow(t)
<1>1. /\ DOMAIN postState = Posts /\ DOMAIN stored = Posts
      /\ DOMAIN extras = Posts /\ DOMAIN audits = Posts
      /\ DOMAIN counted = Posts /\ storeLog \in Seq(Posts)
  BY DEF SpineInv, TypeOK
<1>2. CASE UNCHANGED <<db, counted>>
  BY <1>2 DEF RowsKept, db
<1>3. ASSUME NEW t \in Tasks, NEW q \in Posts, InsertPost(t, q)
      PROVE  RowsKept(p) \/ (InsertPost(t, p) /\ IsNew(p))
  BY <1>1, <1>3 DEF InsertPost, RowsKept
<1>4. ASSUME NEW t \in Tasks, WritesRow(t), task[t].post # p
      PROVE  RowsKept(p)
  <2>1. CASE StoreMentions(t)
    <3>1. task[t].post \in Posts
      BY <2>1, TaskHasPost DEF StoreMentions, At
    <3>2. p \in ToSet(storeLog') <=> p \in ToSet(storeLog)
      BY <1>1, <1>4, <2>1, <3>1, AppendOne DEF StoreMentions
    <3> QED
      BY <1>1, <1>4, <2>1, <3>2 DEF StoreMentions, RowsKept
  <2>2. CASE ~StoreMentions(t)
    BY <1>1, <1>4, <2>2
    DEF WritesRow, SetPostState, Analyze, SaveEngagement, SaveConviction,
        SaveExtra, RecordAudit, RowsKept, db
  <2> QED
    BY <2>1, <2>2
<1>5. ASSUME NEW t \in Tasks, WritesRow(t)
      PROVE  task[t].new
  BY <1>5
  DEF WritesRow, StoreMentions, SetPostState, Analyze, SaveEngagement,
      SaveConviction, RecordAudit, At, SpineInv, TaskIsInOrder, InOrder
<1>6. CASE Crash
  BY <1>6 DEF Crash, RowsKept, db
<1>7. CASE \E t \in Tasks, q \in Posts : InsertPost(t, q)
  BY <1>3, <1>7
<1>8. CASE \E t \in Tasks : WritesRow(t)
  BY <1>4, <1>5, <1>8
<1> QED
  BY <1>2, <1>6, <1>7, <1>8
  DEF Next, Continue, WritesRow, vars, db, Extract, SkipAlert, SendAlert,
      SkipReversal, ReadLastStance, ReadOpenCall, SendReversal,
      TelegramAnswers, MarkSent, Finish, Raises, SetOpenCall

\* What is claimed stays claimed.
LEMMA ClaimsKept ==
  ASSUME SpineInv, [Next]_vars
  PROVE  N!IInv' /\ \A k \in Keys : Claimed(k) => Claimed(k)'
  BY StepOfNotifier, LedgerStep DEF SpineInv

\* What a task knows once it has read its post.
LEMMA ExtractStep ==
  ASSUME SpineInv, NEW t \in Tasks, Extract(t)
  PROVE  \E r \in Readings[task[t].post] :
           /\ task'[t].pc = IF task[t].new THEN "store" ELSE "sends"
           /\ task'[t].post = task[t].post /\ task'[t].new = task[t].new
           /\ task'[t].found = r /\ task'[t].todo = Sends(r)
<1>1. /\ DOMAIN task = Tasks
      /\ task[t] = [pc |-> task[t].pc, post |-> task[t].post,
                    new |-> task[t].new, found |-> task[t].found,
                    todo |-> task[t].todo, flip |-> task[t].flip]
  BY DEF SpineInv, TypeOK
<1>2. PICK r \in Readings[task[t].post] :
        task' = [task EXCEPT ![t].pc = IF task[t].new THEN "store" ELSE "sends",
                             ![t].found = r, ![t].todo = Sends(r)]
  BY DEF Extract
<1> QED
  BY <1>1, <1>2

\* Every step leaves the tables, the ledger and the tasks well-typed.
LEMMA NextTypeOK == SpineInv /\ [Next]_vars => TypeOK'
<1> SUFFICES ASSUME SpineInv, [Next]_vars
             PROVE  TypeOK'
  OBVIOUS
<1> DEFINE Stages == {"idle", "extract", "store", "state", "analyze",
                      "engagement", "conviction", "sends", "calls", "flip",
                      "sending", "audit"}
           States == [pc : Stages, post : Posts \cup {NoPost}, new : BOOLEAN,
                      found : Seq(Mentions), todo : Seq(Todo), flip : BOOLEAN]
<1>1. /\ TypeOK /\ task \in [Tasks -> States]
      /\ NoTask \in States
  BY EmptySeq DEF SpineInv, TypeOK, NoTask
<1>2. N!TypeOK'
  BY ClaimsKept DEF N!IInv
<1>3. \A t \in Tasks : task[t].todo # <<>> => Tail(task[t].todo) \in Seq(Todo)
  BY HeadOfList
<1>4. task' \in [Tasks -> States]
  <2>1. ASSUME NEW t \in Tasks, NEW p \in Posts, InsertPost(t, p)
        PROVE  task' \in [Tasks -> States]
    <3>1. [NoTask EXCEPT !.pc = "extract", !.post = p, !.new = IsNew(p)] \in States
      BY <1>1 DEF IsNew, NoTask
    <3> QED
      BY <1>1, <2>1, <3>1 DEF InsertPost
  <2>2. ASSUME NEW t \in Tasks, Extract(t)
        PROVE  task' \in [Tasks -> States]
    <3>1. PICK r \in Readings[task[t].post] :
            task' = [task EXCEPT ![t].pc = IF task[t].new THEN "store" ELSE "sends",
                                 ![t].found = r, ![t].todo = Sends(r)]
      BY <2>2 DEF Extract
    <3>2. r \in Seq(Mentions) /\ Sends(r) \in Seq(Todo)
      BY <2>2, TaskHasPost, ReadingOfPost, SendsListAll DEF Extract, At
    <3> DEFINE next == [task[t] EXCEPT
                          !.pc = IF task[t].new THEN "store" ELSE "sends",
                          !.found = r, !.todo = Sends(r)]
    <3>3. next \in States
      BY <1>1, <3>2
    <3>4. task' = [task EXCEPT ![t] = next]
      BY <1>1, <3>1
    <3> HIDE DEF States, next
    <3> QED
      BY <1>1, <3>3, <3>4
  <2>3. ASSUME NEW t \in Tasks, NEW pc \in Stages, Goto(t, pc)
        PROVE  task' \in [Tasks -> States]
    <3>1. [task[t] EXCEPT !.pc = pc] \in States
      BY <1>1
    <3>2. task' = [task EXCEPT ![t] = [task[t] EXCEPT !.pc = pc]]
      BY <1>1, <2>3 DEF Goto
    <3> HIDE DEF States
    <3> QED
      BY <1>1, <3>1, <3>2
  <2>4. ASSUME NEW t \in Tasks, NextSend(t), task[t].todo # <<>>
        PROVE  task' \in [Tasks -> States]
    <3> DEFINE next == [task[t] EXCEPT !.pc = "sends", !.todo = Tail(@),
                                       !.flip = FALSE]
    <3>1. next \in States
      BY <1>1, <1>3, <2>4
    <3>2. task' = [task EXCEPT ![t] = next]
      BY <1>1, <2>4 DEF NextSend
    <3> HIDE DEF States, next
    <3> QED
      BY <1>1, <3>1, <3>2
  <2>5. ASSUME NEW t \in Tasks, ReadLastStance(t)
        PROVE  task' \in [Tasks -> States]
    <3>1. PICK flip \in BOOLEAN :
            task' = [task EXCEPT ![t].pc = "calls", ![t].flip = flip]
      <4>1. \A m \in Mentions : Reverses(m, Mention(t)) \in BOOLEAN
        BY MentionFields DEF Reverses
      <4>2. LastStances(task[t].post, Mention(t).symbol) \subseteq Mentions
        BY DEF LastStances
      <4> QED
        BY <2>5, <4>1, <4>2 DEF ReadLastStance
    <3>2. [task[t] EXCEPT !.pc = "calls", !.flip = flip] \in States
      BY <1>1
    <3>3. task' = [task EXCEPT ![t] = [task[t] EXCEPT !.pc = "calls", !.flip = flip]]
      BY <1>1, <3>1
    <3> HIDE DEF States
    <3> QED
      BY <1>1, <3>2, <3>3
  <2>6. ASSUME NEW t \in Tasks, Finish(t) \/ RecordAudit(t) \/ Raises(t)
        PROVE  task' \in [Tasks -> States]
    <3>1. \A x \in States : [x EXCEPT !.pc = "audit"] \in States
      OBVIOUS
    <3>2. task[t] \in States
      BY <1>1
    <3>3. \E x \in States : task' = [task EXCEPT ![t] = x]
      BY <1>1, <2>6, <3>1, <3>2 DEF Finish, RecordAudit, Raises
    <3> HIDE DEF States
    <3> QED
      BY <1>1, <3>3
  <2>7. CASE Crash
    BY <1>1, <2>7 DEF Crash
  <2>8. CASE task' = task
    BY <1>1, <2>8
  <2>9. ASSUME NEW t \in Tasks,
               \/ StoreMentions(t) \/ SetPostState(t) \/ Analyze(t)
               \/ SaveEngagement(t) \/ SaveConviction(t)
        PROVE  \E pc \in Stages : Goto(t, pc)
    BY <2>9
    DEF StoreMentions, SetPostState, AfterState, Analyze, SaveEngagement,
        SaveConviction
  <2>10. ASSUME NEW t \in Tasks,
                \/ SkipAlert(t) \/ SendAlert(t) \/ SkipReversal(t)
                \/ ReadOpenCall(t) \/ SendReversal(t) \/ MarkSent(t)
         PROVE  \/ \E pc \in Stages : Goto(t, pc)
                \/ NextSend(t) /\ task[t].todo # <<>>
    <3>1. At(t, "calls") \/ At(t, "flip") => task[t].todo # <<>>
      BY DEF SpineInv, TaskIsInOrder, InOrder, At
    <3>2. MarkSent(t) => task[t].todo # <<>>
      BY TaskInCall DEF MarkSent, N!MarkSent, N!Idle
    <3> QED
      BY <2>10, <3>1, <3>2
      DEF SkipAlert, SendAlert, SkipReversal, ReadOpenCall, SendReversal,
          MarkSent, Turn, Claim
  <2> QED
    BY <2>1, <2>2, <2>3, <2>4, <2>5, <2>6, <2>7, <2>8, <2>9, <2>10
    DEF Next, Continue, TelegramAnswers, SetOpenCall, vars
<1>5. postState' \in [Posts -> {"absent", "seen", "live", "archived"}]
  <2>1. \/ postState' = postState
        \/ \E p \in Posts, state \in {"seen", "live", "archived"} :
             postState' = [postState EXCEPT ![p] = state]
    <3>1. \A t \in Tasks : SetPostState(t) => task[t].post \in Posts
      BY TaskHasPost DEF SetPostState, At
    <3> QED
      BY <3>1
      DEF Next, Continue, vars, db, InsertPost, Extract, StoreMentions,
          SetPostState, Analyze, SaveEngagement, SaveConviction, RecordAudit,
          SkipAlert, SendAlert, SkipReversal, ReadLastStance, ReadOpenCall,
          SendReversal, TelegramAnswers, MarkSent, Finish, Raises, SetOpenCall,
          Crash
  <2> QED
    BY <1>1, <2>1 DEF TypeOK
<1>6. extras' \in [Posts -> SUBSET {"engagement", "conviction"}]
  <2>1. \/ extras' = extras
        \/ \E p \in Posts, row \in {"engagement", "conviction"} :
             SaveExtra(p, row)
    <3>1. \A t \in Tasks : SaveEngagement(t) \/ SaveConviction(t) =>
            task[t].post \in Posts
      BY TaskHasPost DEF SaveEngagement, SaveConviction, At
    <3> QED
      BY <3>1
      DEF Next, Continue, vars, db, InsertPost, Extract, StoreMentions,
          SetPostState, Analyze, SaveEngagement, SaveConviction, RecordAudit,
          SkipAlert, SendAlert, SkipReversal, ReadLastStance, ReadOpenCall,
          SendReversal, TelegramAnswers, MarkSent, Finish, Raises, SetOpenCall,
          Crash
  <2>2. ASSUME NEW p \in Posts, NEW row \in {"engagement", "conviction"},
               SaveExtra(p, row)
        PROVE  extras' \in [Posts -> SUBSET {"engagement", "conviction"}]
    <3>1. extras[p] \cup {row} \in SUBSET {"engagement", "conviction"}
      BY <1>1 DEF TypeOK
    <3> QED
      BY <1>1, <2>2, <3>1 DEF TypeOK, SaveExtra
  <2> QED
    BY <1>1, <2>1, <2>2 DEF TypeOK
<1>7. audits' \in [Posts -> Nat] /\ counted' \in [Posts -> Nat]
  <2>1. \/ audits' = audits
        \/ \E p \in Posts : audits' = [audits EXCEPT ![p] = @ + 1]
    <3>1. \A t \in Tasks : RecordAudit(t) => task[t].post \in Posts
      BY TaskHasPost DEF RecordAudit, At
    <3> QED
      BY <3>1
      DEF Next, Continue, vars, db, InsertPost, Extract, StoreMentions,
          SetPostState, Analyze, SaveEngagement, SaveConviction, RecordAudit,
          SkipAlert, SendAlert, SkipReversal, ReadLastStance, ReadOpenCall,
          SendReversal, TelegramAnswers, MarkSent, Finish, Raises, SetOpenCall,
          Crash
  <2>2. \/ counted' = counted
        \/ \E p \in Posts : counted' = [counted EXCEPT ![p] = @ + 1]
        \/ counted' = [p \in Posts |-> 0]
    <3>1. \A t \in Tasks : Analyze(t) => task[t].post \in Posts
      BY TaskHasPost DEF Analyze, At
    <3> QED
      BY <3>1
      DEF Next, Continue, vars, db, InsertPost, Extract, StoreMentions,
          SetPostState, Analyze, SaveEngagement, SaveConviction, RecordAudit,
          SkipAlert, SendAlert, SkipReversal, ReadLastStance, ReadOpenCall,
          SendReversal, TelegramAnswers, MarkSent, Finish, Raises, SetOpenCall,
          Crash
  <2>3. audits \in [Posts -> Nat] /\ counted \in [Posts -> Nat]
    BY <1>1 DEF TypeOK
  <2>4. audits' \in [Posts -> Nat]
    BY <2>1, <2>3
  <2>5. counted' \in [Posts -> Nat]
    BY <2>2, <2>3
  <2> QED
    BY <2>4, <2>5
<1>8. stored' \in [Posts -> SUBSET Mentions] /\ storeLog' \in Seq(Posts)
  <2>1. CASE UNCHANGED <<stored, storeLog>>
    BY <1>1, <2>1 DEF TypeOK
  <2>2. ASSUME NEW t \in Tasks, StoreMentions(t)
        PROVE  stored' \in [Posts -> SUBSET Mentions] /\ storeLog' \in Seq(Posts)
    <3>1. task[t].post \in Posts /\ ToSet(task[t].found) \subseteq Mentions
      BY <1>1, <2>2, TaskHasPost, ElementsOfSeq DEF StoreMentions, At
    <3>2. Append(storeLog, task[t].post) \in Seq(Posts)
      BY <1>1, <3>1, AppendOne DEF TypeOK
    <3> QED
      BY <1>1, <2>2, <3>1, <3>2 DEF StoreMentions, TypeOK
  <2> QED
    BY <2>1, <2>2
    DEF Next, Continue, vars, db, InsertPost, Extract, SetPostState, Analyze,
        SaveEngagement, SaveConviction, RecordAudit, SkipAlert, SendAlert,
        SkipReversal, ReadLastStance, ReadOpenCall, SendReversal,
        TelegramAnswers, MarkSent, Finish, Raises, SetOpenCall, Crash
<1>9. openCall' \in [Authors \X Symbols -> CallStances]
  <2>1. CASE openCall' = openCall
    BY <1>1, <2>1 DEF TypeOK
  <2>2. ASSUME NEW a \in Authors, NEW s \in Symbols, SetOpenCall(a, s)
        PROVE  openCall' \in [Authors \X Symbols -> CallStances]
    BY <1>1, <2>2 DEF SetOpenCall, TypeOK
  <2> QED
    BY <2>1, <2>2
    DEF Next, Continue, vars, db, InsertPost, Extract, StoreMentions,
        SetPostState, Analyze, SaveEngagement, SaveConviction, RecordAudit,
        SkipAlert, SendAlert, SkipReversal, ReadLastStance, ReadOpenCall,
        SendReversal, TelegramAnswers, MarkSent, Finish, Raises, Crash
<1>10. faults' \in 0 .. MaxFaults
  <2>1. faults' = faults \/ (faults < MaxFaults /\ faults' = faults + 1)
    BY DEF Next, Continue, vars, InsertPost, Extract, StoreMentions,
        SetPostState, Analyze, SaveEngagement, SaveConviction, RecordAudit,
        SkipAlert, SendAlert, SkipReversal, ReadLastStance, ReadOpenCall,
        SendReversal, TelegramAnswers, MarkSent, Finish, Raises, Crash,
        SetOpenCall
  <2> QED
    BY <1>1, <2>1, BoundsAssumption DEF TypeOK
<1> QED
  BY <1>2, <1>4, <1>5, <1>6, <1>7, <1>8, <1>9, <1>10 DEF TypeOK

\* Nothing else than its insert makes a row exist, and nothing removes it.
LEMMA RowsStay ==
  ASSUME SpineInv, [Next]_vars, NEW p \in Posts, postState[p] # "absent"
  PROVE  postState'[p] # "absent"
<1>1. CASE RowsKept(p)
  BY <1>1 DEF RowsKept
<1>2. CASE \E t \in Tasks : InsertPost(t, p) /\ IsNew(p)
  BY <1>2 DEF IsNew
<1>3. CASE \E t \in Tasks : task[t].post = p /\ WritesRow(t)
  <2>1. DOMAIN postState = Posts
    BY DEF SpineInv, TypeOK
  <2> QED
    BY <1>3, <2>1
    DEF WritesRow, StoreMentions, SetPostState, Analyze, SaveEngagement,
        SaveConviction, RecordAudit, db
<1> QED
  BY <1>1, <1>2, <1>3, RowStep

\* Every step of a task leaves it in order.
LEMMA NextTaskIsInOrder == SpineInv /\ [Next]_vars => TaskIsInOrder'
<1> SUFFICES ASSUME SpineInv, [Next]_vars, NEW t \in Tasks
             PROVE  InOrder(t)'
  BY DEF TaskIsInOrder
<1>1. /\ InOrder(t) /\ t \in DOMAIN task /\ t \in DOMAIN call
      /\ task[t] = [pc |-> task[t].pc, post |-> task[t].post,
                    new |-> task[t].new, found |-> task[t].found,
                    todo |-> task[t].todo, flip |-> task[t].flip]
  BY DEF SpineInv, TaskIsInOrder, TypeOK, N!TypeOK
<1>2. task[t].post \in Posts => 
        (postState[task[t].post] # "absent" => postState'[task[t].post] # "absent")
  BY RowsStay
<1>3. CASE task'[t] = task[t] /\ call'[t] = call[t]
  BY <1>1, <1>2, <1>3 DEF InOrder, At, Mention, SendKey, N!Idle
<1>4. CASE task'[t] = NoTask /\ call'[t] = N!Idle
  BY <1>4 DEF InOrder, At, NoTask, N!Idle
<1>5. ASSUME NEW p \in Posts, InsertPost(t, p)
      PROVE  InOrder(t)'
  <2>1. /\ task'[t].pc = "extract" /\ task'[t].post = p /\ call'[t] = N!Idle
    BY <1>1, <1>5 DEF InsertPost, NoTask, InOrder, At, ledger, N!Idle
  <2>2. postState'[p] # "absent"
    <3>1. p \in DOMAIN postState
      BY DEF SpineInv, TypeOK
    <3> QED
      BY <1>5, <3>1 DEF InsertPost, IsNew
  <2> QED
    BY <2>1, <2>2 DEF InOrder, At, N!Idle
<1>6. ASSUME ~At(t, "idle"), ~At(t, "sending"), UNCHANGED ledger
      PROVE  /\ call'[t] = N!Idle
             /\ task[t].post \in Posts /\ postState'[task[t].post] # "absent"
  BY <1>1, <1>2, <1>6 DEF InOrder, ledger, N!Idle
<1>7. CASE Extract(t)
  <2>1. PICK r \in Readings[task[t].post] :
          /\ task'[t].pc = IF task[t].new THEN "store" ELSE "sends"
          /\ task'[t].found = r /\ task'[t].post = task[t].post
          /\ task'[t].new = task[t].new
    BY <1>7, ExtractStep
  <2> QED
    BY <1>6, <1>7, <2>1 DEF Extract, InOrder, At, N!Idle
<1>8. CASE StoreMentions(t) \/ SetPostState(t) \/ Analyze(t)
  BY <1>1, <1>6, <1>8
  DEF StoreMentions, SetPostState, AfterState, Analyze, Goto, InOrder, At,
      N!Idle
<1>9. CASE SaveEngagement(t) \/ SaveConviction(t)
  BY <1>1, <1>6, <1>9
  DEF SaveEngagement, SaveConviction, Goto, InOrder, At, N!Idle
<1>10. CASE /\ task[t].pc \in {"sends", "calls", "flip"}
            /\ NextSend(t) /\ UNCHANGED ledger
  BY <1>1, <1>6, <1>10 DEF NextSend, InOrder, At, N!Idle
<1>11. CASE ReadLastStance(t)
  <2>1. /\ task'[t].pc = "calls" /\ task'[t].post = task[t].post
        /\ task'[t].found = task[t].found /\ task'[t].todo = task[t].todo
    BY <1>1, <1>11 DEF ReadLastStance
  <2> QED
    BY <1>1, <1>6, <1>11, <2>1
    DEF ReadLastStance, Turn, Mention, InOrder, At, N!Idle
<1>12. CASE At(t, "calls") /\ Goto(t, "flip") /\ UNCHANGED ledger
  BY <1>1, <1>6, <1>12 DEF Goto, Mention, InOrder, At, N!Idle
<1>13. CASE Finish(t)
  <2>1. ~task[t].new => task'[t] = NoTask
    BY <1>1, <1>13 DEF Finish
  <2>2. task[t].new =>
          /\ task'[t].pc = "audit" /\ task'[t].post = task[t].post
          /\ task'[t].found = task[t].found /\ task'[t].todo = <<>>
          /\ task'[t].new
    BY <1>1, <1>13 DEF Finish
  <2>3. task[t].new \in BOOLEAN
    BY DEF SpineInv, TypeOK
  <2> QED
    BY <1>1, <1>6, <1>13, <2>1, <2>2, <2>3
    DEF Finish, NoTask, InOrder, At, N!Idle
<1>14. CASE RecordAudit(t)
  BY <1>1, <1>6, <1>14 DEF RecordAudit, NoTask, InOrder, At, N!Idle
<1>15. ASSUME \/ /\ Turn(t, "ALERT")
                 /\ N!ClaimSend(t, AlertKey(task[t].post, Mention(t)))
              \/ /\ At(t, "flip")
                 /\ N!ClaimSend(t, FlipKey(task[t].post, Mention(t))),
              Goto(t, "sending")
       PROVE  InOrder(t)'
  <2>1. /\ task'[t].pc = "sending" /\ task'[t].post = task[t].post
        /\ task'[t].new = task[t].new /\ task'[t].found = task[t].found
        /\ task'[t].todo = task[t].todo /\ task[t].todo # <<>>
    BY <1>1, <1>15 DEF Goto, Turn, InOrder, At
  <2>2. call'[t].key = SendKey(t)
    BY <1>1, <1>15 DEF N!ClaimSend, SendKey, Turn, InOrder, At
  <2> QED
    BY <1>1, <1>2, <1>15, <2>1, <2>2
    DEF SendKey, Mention, Turn, InOrder, At
<1>16. CASE TelegramAnswers(t)
  <2>1. /\ call[t] # N!Idle /\ call'[t].key = call[t].key
        /\ task' = task
    BY <1>1, <1>16
    DEF SpineInv, TypeOK, N!TypeOK, TelegramAnswers, N!SendMarkdown, N!ParseError, N!SendPlain, N!Idle
  <2> QED
    BY <1>1, <1>2, <2>1, TaskInCall DEF SendKey, Mention, InOrder, At
<1>17. CASE MarkSent(t)
  <2>1. call[t] # N!Idle /\ call'[t] = N!Idle
    BY <1>1, <1>17 DEF MarkSent, N!MarkSent, N!Idle
  <2> QED
    BY <1>1, <1>2, <1>17, <2>1, TaskInCall DEF MarkSent, NextSend, InOrder, At
<1>18. CASE Continue(t)
  BY <1>7, <1>8, <1>9, <1>10, <1>11, <1>12, <1>13, <1>14, <1>15, <1>16, <1>17,
     <1>18
  DEF Continue, SkipAlert, SendAlert, SkipReversal, ReadOpenCall, SendReversal,
      Turn, Claim, At
<1> QED
  BY <1>3, <1>4, <1>5, <1>18, TaskStep

\* A task keeps to its post, and reads it once, until it is done with it.
LEMMA OwnStep ==
  ASSUME SpineInv, NEW t \in Tasks, Continue(t)
  PROVE  \/ task'[t] = NoTask /\ (Finish(t) \/ RecordAudit(t))
         \/ /\ task'[t].post = task[t].post /\ task'[t].new = task[t].new
            /\ Extract(t) \/ task'[t].found = task[t].found
<1>1. /\ t \in DOMAIN task
      /\ task[t] = [pc |-> task[t].pc, post |-> task[t].post,
                    new |-> task[t].new, found |-> task[t].found,
                    todo |-> task[t].todo, flip |-> task[t].flip]
  BY DEF SpineInv, TypeOK
<1>2. CASE Extract(t)
  BY <1>2, ExtractStep
<1>3. CASE \E pc : Goto(t, pc)
  BY <1>1, <1>3 DEF Goto
<1>4. CASE NextSend(t)
  BY <1>1, <1>4 DEF NextSend
<1>5. CASE ReadLastStance(t)
  BY <1>1, <1>5 DEF ReadLastStance
<1>6. CASE Finish(t)
  BY <1>1, <1>6 DEF Finish
<1>7. CASE RecordAudit(t)
  BY <1>1, <1>7 DEF RecordAudit
<1>8. CASE TelegramAnswers(t)
  BY <1>8 DEF TelegramAnswers
<1> QED
  BY <1>2, <1>3, <1>4, <1>5, <1>6, <1>7, <1>8
  DEF Continue, StoreMentions, SetPostState, Analyze, SaveEngagement,
      SaveConviction, SkipAlert, SendAlert, SkipReversal, ReadOpenCall,
      SendReversal, MarkSent, Claim

\* Only the task that inserted a post stores mentions of it, and once.
LEMMA LogStep ==
  ASSUME SpineInv, [Next]_vars
  PROVE  \/ UNCHANGED <<stored, storeLog>>
         \/ \E t \in Tasks :
              /\ StoreMentions(t) /\ task[t].post \in Posts /\ task[t].new
              /\ Untouched(task[t].post)
              /\ task[t].found \in Readings[task[t].post]
<1>1. ASSUME NEW t \in Tasks, StoreMentions(t)
      PROVE  /\ task[t].post \in Posts /\ task[t].new
             /\ Untouched(task[t].post)
             /\ task[t].found \in Readings[task[t].post]
  BY <1>1
  DEF StoreMentions, At, SpineInv, TaskIsInOrder, InOrder, RowsFollowTask,
      RowsAreOf
<1> QED
  BY <1>1
  DEF Next, Continue, vars, db, InsertPost, Extract, SetPostState, Analyze,
      SaveEngagement, SaveConviction, RecordAudit, SkipAlert, SendAlert,
      SkipReversal, ReadLastStance, ReadOpenCall, SendReversal, TelegramAnswers,
      MarkSent, Finish, Raises, SetOpenCall, Crash

\* One more post in the log: the others keep their places in it.
LEMMA LogGrows ==
  ASSUME SpineInv, NEW q \in Posts, q \notin ToSet(storeLog),
         storeLog' = Append(storeLog, q)
  PROVE  /\ \A p \in Posts \ {q} : Places(p)' = Places(p)
         /\ Places(q)' = {Len(storeLog) + 1}
<1>1. /\ Len(storeLog) \in Nat /\ DOMAIN storeLog = 1 .. Len(storeLog)
      /\ DOMAIN storeLog' = 1 .. Len(storeLog) + 1
      /\ \A i \in DOMAIN storeLog : storeLog'[i] = storeLog[i]
      /\ storeLog'[Len(storeLog) + 1] = q
  BY AppendOne DEF SpineInv, TypeOK
<1>2. \A i \in DOMAIN storeLog : storeLog[i] # q
  BY DEF ToSet
<1> QED
  BY <1>1, <1>2 DEF Places

\* One-time work is done once.
LEMMA NextOneTimeWorkOnce == SpineInv /\ [Next]_vars => OneTimeWorkOnce'
<1> SUFFICES ASSUME SpineInv, [Next]_vars, NEW p \in Posts
             PROVE  /\ Cardinality(Places(p)') <= 1
                    /\ audits'[p] <= 1 /\ counted'[p] <= 1
  BY DEF OneTimeWorkOnce
<1>1. /\ Cardinality(Places(p)) <= 1
      /\ audits[p] <= 1 /\ counted[p] <= 1
  BY DEF SpineInv, OneTimeWorkOnce
<1>2. Cardinality(Places(p)') <= 1
  <2>1. CASE storeLog' = storeLog
    BY <1>1, <2>1 DEF Places
  <2>2. ASSUME NEW q \in Posts, q \notin ToSet(storeLog),
               storeLog' = Append(storeLog, q)
        PROVE  Cardinality(Places(p)') <= 1
    <3>1. Places(p)' = Places(p) \/ Places(p)' = {Len(storeLog) + 1}
      BY <2>2, LogGrows
    <3>2. Cardinality({Len(storeLog) + 1}) = 1
      BY FS_Singleton
    <3>3. CASE Places(p)' = Places(p)
      BY <1>1, <3>3
    <3>4. CASE Places(p)' = {Len(storeLog) + 1}
      BY <3>2, <3>4
    <3> QED
      BY <3>1, <3>3, <3>4
  <2> QED
    BY <2>1, <2>2, LogStep DEF StoreMentions, Untouched
<1>3. audits'[p] <= 1 /\ counted'[p] <= 1
  <2>1. CASE RowsKept(p)
    BY <1>1, <2>1 DEF RowsKept
  <2>2. CASE \E t \in Tasks : InsertPost(t, p)
    BY <1>1, <2>2 DEF InsertPost
  <2>3. ASSUME NEW t \in Tasks, task[t].post = p, task[t].new, WritesRow(t)
        PROVE  audits'[p] <= 1 /\ counted'[p] <= 1
    <3>1. audits[p] = 0 /\ (At(t, "analyze") => counted[p] = 0)
      BY <2>3 DEF SpineInv, RowsFollowTask, RowsAreOf, At
    <3>2. p \in DOMAIN audits /\ p \in DOMAIN counted
      BY DEF SpineInv, TypeOK
    <3> QED
      BY <1>1, <2>3, <3>1, <3>2
      DEF WritesRow, StoreMentions, SetPostState, Analyze, SaveEngagement,
          SaveConviction, RecordAudit, db
  <2> QED
    BY <2>1, <2>2, <2>3, RowStep
<1> QED
  BY <1>2, <1>3

\* The rows of a post say how far the task is that inserted it.
LEMMA NextRowsFollowTask == SpineInv /\ [Next]_vars => RowsFollowTask'
<1> SUFFICES ASSUME SpineInv, [Next]_vars
             PROVE  RowsFollowTask'
  OBVIOUS
<1>1. /\ TypeOK /\ TypeOK' /\ TaskIsInOrder /\ RowsFollowTask
      /\ DOMAIN task = Tasks
  BY NextTypeOK DEF SpineInv, TypeOK
<1>2. ASSUME NEW p \in Posts, postState'[p] = "absent"
      PROVE  Untouched(p)'
  <2>1. postState[p] = "absent"
    BY <1>2, RowsStay
  <2>2. CASE RowsKept(p)
    BY <1>1, <2>1, <2>2 DEF RowsKept, RowsFollowTask, Untouched
  <2>3. CASE \E t \in Tasks : InsertPost(t, p) /\ IsNew(p)
    BY <1>1, <1>2, <2>3 DEF InsertPost, TypeOK
  <2>4. CASE \E t \in Tasks : task[t].post = p /\ task[t].new /\ WritesRow(t)
    BY <1>1, <2>1, <2>4, IdleTask DEF TaskIsInOrder, InOrder
  <2> QED
    BY <2>2, <2>3, <2>4, RowStep
<1>3. ASSUME NEW t \in Tasks, task'[t].new
      PROVE  \/ task[t].new /\ task'[t].post = task[t].post
             \/ \E p \in Posts :
                  /\ task'[t].post = p /\ task'[t].pc = "extract"
                  /\ postState[p] = "absent" /\ Untouched(p)'
                  /\ \A u \in Tasks \ {t} : task'[u] = task[u]
  <2>1. CASE task'[t] = task[t]
    BY <1>3, <2>1
  <2>2. CASE task'[t] = NoTask
    BY <1>3, <2>2 DEF NoTask
  <2>3. ASSUME NEW p \in Posts, InsertPost(t, p)
        PROVE  /\ task'[t].post = p /\ task'[t].pc = "extract"
               /\ postState[p] = "absent" /\ Untouched(p)'
               /\ \A u \in Tasks \ {t} : task'[u] = task[u]
    <3>1. /\ IsNew(p) /\ task'[t].post = p /\ task'[t].pc = "extract"
          /\ \A u \in Tasks \ {t} : task'[u] = task[u]
      BY <1>1, <1>3, <2>3 DEF InsertPost, NoTask
    <3>2. Untouched(p)'
      BY <1>1, <2>3, <3>1 DEF InsertPost, IsNew, RowsFollowTask, Untouched
    <3> QED
      BY <3>1, <3>2 DEF IsNew
  <2>4. CASE Continue(t)
    BY <1>3, <2>2, <2>4, OwnStep
  <2> QED
    BY <2>1, <2>2, <2>3, <2>4, TaskStep
<1>4. ASSUME NEW t \in Tasks, NEW u \in Tasks, task'[t].new, task'[u].new,
             task'[t].post = task'[u].post, t # u
      PROVE  FALSE
  <2>1. CASE /\ task[t].new /\ task'[t].post = task[t].post
             /\ task[u].new /\ task'[u].post = task[u].post
    BY <1>1, <1>4, <2>1 DEF RowsFollowTask
  <2>2. ASSUME NEW v \in Tasks, NEW w \in Tasks, v # w,
               task'[v].new, task'[v].post = task'[w].post,
               postState[task'[w].post] = "absent",
               \A x \in Tasks \ {w} : task'[x] = task[x]
        PROVE  FALSE
    <3>1. task[v].new /\ task[v].post = task'[w].post
      BY <2>2
    <3>2. postState[task[v].post] # "absent"
      BY <1>1, <3>1, IdleTask DEF TaskIsInOrder, InOrder
    <3> QED
      BY <2>2, <3>1, <3>2
  <2>3. CASE ~(task[t].new /\ task'[t].post = task[t].post)
    <3>1. /\ postState[task'[t].post] = "absent"
          /\ \A x \in Tasks \ {t} : task'[x] = task[x]
      BY <1>3, <1>4, <2>3
    <3> QED
      BY <1>4, <2>2, <3>1
  <2>4. CASE ~(task[u].new /\ task'[u].post = task[u].post)
    <3>1. /\ postState[task'[u].post] = "absent"
          /\ \A x \in Tasks \ {u} : task'[x] = task[x]
      BY <1>3, <1>4, <2>4
    <3> QED
      BY <1>4, <2>2, <3>1
  <2> QED
    BY <2>1, <2>3, <2>4
<1>5. ASSUME NEW t \in Tasks, task'[t].new
      PROVE  RowsAreOf(t)'
  <2>1. CASE ~(task[t].new /\ task'[t].post = task[t].post)
    <3>1. PICK p \in Posts :
            task'[t].post = p /\ task'[t].pc = "extract" /\ Untouched(p)'
      BY <1>3, <1>5, <2>1
    <3> QED
      BY <3>1 DEF RowsAreOf, Untouched
  <2>2. ASSUME task[t].new, task'[t].post = task[t].post
        PROVE  RowsAreOf(t)'
    <3> DEFINE p == task[t].post
    <3>1. /\ p \in Posts /\ postState[p] # "absent" /\ ~At(t, "idle")
          /\ RowsAreOf(t)
      BY <1>1, <2>2, IdleTask
      DEF TaskIsInOrder, InOrder, RowsFollowTask
    <3>2. CASE RowsKept(p) /\ task'[t] = task[t]
      BY <2>2, <3>1, <3>2
      DEF RowsKept, RowsAreOf, Untouched, Settled, ExtrasOf
    <3>3. CASE Extract(t)
      <4>1. UNCHANGED <<db, counted>> /\ task'[t].pc = "store"
        BY <1>1, <2>2, <3>3 DEF Extract, TypeOK
      <4> QED
        BY <2>2, <3>1, <3>3, <4>1
        DEF Extract, At, RowsAreOf, Untouched, Settled, ExtrasOf, db
    <3>4. CASE WritesRow(t)
      <4>1. CASE StoreMentions(t)
        <5>1. /\ task[t].pc = "store" /\ task'[t].pc = "state"
              /\ task'[t].found = task[t].found
          BY <1>1, <4>1 DEF TypeOK, StoreMentions, Goto, At
        <5>2. /\ stored'[p] = stored[p] \cup ToSet(task[t].found)
              /\ UNCHANGED <<postState, extras, audits, counted>>
          BY <1>1, <3>1, <4>1 DEF TypeOK, StoreMentions, SaveExtra, db
        <5> QED
          BY <2>2, <3>1, <5>1, <5>2
          DEF RowsAreOf, Untouched, Settled, ExtrasOf
      <4>2. CASE SetPostState(t)
        <5>1. /\ task[t].pc = "state" /\ task'[t].pc = AfterState(t)
              /\ task'[t].found = task[t].found
          BY <1>1, <4>2 DEF TypeOK, SetPostState, Goto, At
        <5>2. /\ postState'[p] =
                   IF task[t].found # <<>> THEN "live" ELSE "archived"
              /\ UNCHANGED <<stored, storeLog, extras, audits, counted>>
          BY <1>1, <3>1, <4>2 DEF TypeOK, SetPostState
        <5>3. task[t].found = <<>> <=> stored[p] = {}
          BY <1>1, <3>1, <5>1, ReadingOfPost
          DEF TaskIsInOrder, InOrder, RowsAreOf
        <5> QED
          BY <2>2, <3>1, <5>1, <5>2, <5>3
          DEF AfterState, RowsAreOf, Settled, ExtrasOf
      <4>3. CASE Analyze(t)
        <5>1. /\ task[t].pc = "analyze" /\ task'[t].found = task[t].found
              /\ task'[t].pc =
                   IF p \in Metered THEN "engagement" ELSE "conviction"
          BY <1>1, <4>3 DEF TypeOK, Analyze, Goto, At
        <5>2. UNCHANGED <<postState, stored, storeLog, extras, audits>>
          BY <4>3 DEF Analyze, db
        <5> QED
          BY <2>2, <3>1, <5>1, <5>2 DEF RowsAreOf, Settled, ExtrasOf
      <4>4. CASE SaveEngagement(t)
        <5>1. /\ task[t].pc = "engagement" /\ task'[t].found = task[t].found
              /\ task'[t].pc =
                   IF task[t].found # <<>> THEN "conviction" ELSE "sends"
          BY <1>1, <4>4 DEF TypeOK, SaveEngagement, Goto, At
        <5>2. /\ extras'[p] = extras[p] \cup {"engagement"}
              /\ UNCHANGED <<postState, stored, storeLog, audits, counted>>
          BY <1>1, <3>1, <4>4 DEF TypeOK, SaveEngagement, SaveExtra
        <5>3. /\ task[t].found = <<>> <=> stored[p] = {}
              /\ p \in Metered
          BY <1>1, <3>1, <5>1, ReadingOfPost
          DEF TaskIsInOrder, InOrder, RowsAreOf, At
        <5> QED
          BY <2>2, <3>1, <5>1, <5>2, <5>3 DEF RowsAreOf, Settled, ExtrasOf
      <4>5. CASE SaveConviction(t)
        <5>1. /\ task[t].pc = "conviction" /\ task'[t].found = task[t].found
              /\ task'[t].pc = "sends"
          BY <1>1, <4>5 DEF TypeOK, SaveConviction, Goto, At
        <5>2. /\ extras'[p] = extras[p] \cup {"conviction"}
              /\ UNCHANGED <<postState, stored, storeLog, audits, counted>>
          BY <1>1, <3>1, <4>5 DEF TypeOK, SaveConviction, SaveExtra
        <5>3. stored[p] # {}
          BY <1>1, <3>1, <5>1, ReadingOfPost
          DEF TaskIsInOrder, InOrder, RowsAreOf, At
        <5> QED
          BY <2>2, <3>1, <5>1, <5>2, <5>3 DEF RowsAreOf, Settled, ExtrasOf
      <4>6. CASE RecordAudit(t)
        BY <1>1, <1>5, <4>6 DEF RecordAudit, NoTask
      <4> QED
        BY <3>4, <4>1, <4>2, <4>3, <4>4, <4>5, <4>6 DEF WritesRow
    <3>5. CASE /\ RowsKept(p) /\ task'[t].found = task[t].found
               /\ task[t].pc \in {"sends", "calls", "flip", "sending", "audit"}
               /\ task'[t].pc \in {"sends", "calls", "flip", "sending", "audit"}
      BY <2>2, <3>1, <3>5
      DEF RowsKept, RowsAreOf, Untouched, Settled, ExtrasOf
    <3>6. CASE /\ Continue(t) /\ ~Extract(t) /\ ~WritesRow(t)
      <4>1. UNCHANGED <<db, counted>>
        BY <3>6
        DEF Continue, WritesRow, SkipAlert, SendAlert, SkipReversal,
            ReadLastStance, ReadOpenCall, SendReversal, TelegramAnswers,
            MarkSent, Finish
      <4>2. task'[t].found = task[t].found
        BY <1>5, <3>6, OwnStep DEF NoTask
      <4>3. MarkSent(t) \/ TelegramAnswers(t) => At(t, "sending")
        BY TaskInCall
        DEF MarkSent, TelegramAnswers, N!MarkSent, N!SendMarkdown,
            N!ParseError, N!SendPlain, N!Idle
      <4>4. task[t].pc \in {"sends", "calls", "flip", "sending", "audit"}
        BY <3>6, <4>3
        DEF Continue, WritesRow, SkipAlert, SendAlert, SkipReversal,
            ReadLastStance, ReadOpenCall, SendReversal, Finish, Turn, At
      <4>5. task'[t].pc \in {"sends", "calls", "flip", "sending", "audit"}
        <5>1. CASE MarkSent(t) \/ NextSend(t)
          BY <1>1, <5>1 DEF TypeOK, MarkSent, NextSend
        <5>2. CASE TelegramAnswers(t)
          BY <4>3, <5>2 DEF TelegramAnswers, At
        <5>3. CASE Finish(t)
          BY <1>1, <2>2, <5>3 DEF TypeOK, Finish
        <5>4. CASE ReadLastStance(t)
          BY <1>1, <5>4 DEF TypeOK, ReadLastStance
        <5>5. CASE Goto(t, "flip") \/ Goto(t, "sending")
          BY <1>1, <5>5 DEF TypeOK, Goto
        <5> QED
          BY <3>6, <5>1, <5>2, <5>3, <5>4, <5>5
          DEF Continue, WritesRow, SkipAlert, SendAlert, SkipReversal,
              ReadOpenCall, SendReversal, Claim
      <4> QED
        BY <3>5, <4>1, <4>2, <4>4, <4>5 DEF RowsKept, db
    <3>7. RowsKept(p) \/ WritesRow(t)
      <4>1. ~\E u \in Tasks : InsertPost(u, p) /\ IsNew(p)
        BY <3>1 DEF IsNew
      <4>2. ASSUME NEW u \in Tasks, task[u].post = p, task[u].new, WritesRow(u)
            PROVE  WritesRow(t)
        BY <1>1, <2>2, <4>2 DEF RowsFollowTask
      <4> QED
        BY <3>1, <4>1, <4>2, RowStep
    <3>8. ~\E q \in Posts : InsertPost(t, q)
      BY <3>1 DEF InsertPost
    <3>9. task'[t] # NoTask
      BY <1>5 DEF NoTask
    <3> QED
      BY <3>2, <3>3, <3>4, <3>6, <3>7, <3>8, <3>9, TaskStep
  <2> QED
    BY <2>1, <2>2
<1> QED
  BY <1>2, <1>4, <1>5 DEF RowsFollowTask

-----------------------------------------------------------------------------
\* Mentions, once stored, stay, and so does their order in the log.
LEMMA TakesStay ==
  ASSUME SpineInv, [Next]_vars
  PROVE  /\ \A p \in Posts : stored[p] \subseteq stored'[p]
         /\ \A p \in Posts : p \in ToSet(storeLog) => stored'[p] = stored[p]
<1>1. DOMAIN stored = Posts
  BY DEF SpineInv, TypeOK
<1> QED
  BY <1>1, LogStep DEF StoreMentions, Untouched

\* A clear reversal was clear before the step too, unless the step is the one
\* that stores it.
LEMMA TurnIsOld ==
  ASSUME SpineInv, [Next]_vars, NEW p \in Posts, NEW q \in Posts,
         NEW m \in Mentions, ClearReversal(q, p, m)'
  PROVE  \/ ClearReversal(q, p, m)
         \/ \E t \in Tasks : StoreMentions(t) /\ task[t].post = p
<1> SUFFICES ASSUME ~\E t \in Tasks : StoreMentions(t) /\ task[t].post = p
             PROVE  ClearReversal(q, p, m)
  OBVIOUS
<1>1. storeLog \in Seq(Posts) /\ DOMAIN stored = Posts
  BY DEF SpineInv, TypeOK
<1>2. \A r \in Posts : stored[r] \subseteq stored'[r]
  BY TakesStay
<1>3. stored'[p] = stored[p]
  BY <1>1, LogStep DEF StoreMentions
<1>4. PICK i, j \in DOMAIN storeLog' :
        i < j /\ storeLog'[i] = q /\ storeLog'[j] = p
  BY DEF ClearReversal
<1>5. /\ i \in DOMAIN storeLog /\ j \in DOMAIN storeLog
      /\ storeLog[i] = q /\ storeLog[j] = p
  <2>1. CASE storeLog' = storeLog
    BY <1>4, <2>1
  <2>2. ASSUME NEW x \in Posts, x # p, storeLog' = Append(storeLog, x)
        PROVE  <1>5
    <3>1. /\ Len(storeLog) \in Nat /\ DOMAIN storeLog = 1 .. Len(storeLog)
          /\ DOMAIN storeLog' = 1 .. Len(storeLog) + 1
          /\ \A k \in DOMAIN storeLog : storeLog'[k] = storeLog[k]
          /\ storeLog'[Len(storeLog) + 1] = x
      BY <1>1, <2>2, AppendOne
    <3> QED
      BY <1>4, <2>2, <3>1
  <2> QED
    BY <2>1, <2>2, LogStep DEF StoreMentions
<1>6. stored'[q] = stored[q]
  BY <1>5, TakesStay DEF ToSet
<1>7. /\ m \in stored[p] /\ Directional(m)
      /\ q \in EarlierTakes(p, m.symbol)
  BY <1>3, <1>6 DEF ClearReversal, EarlierTakes
<1>8. ASSUME NEW r \in EarlierTakes(p, m.symbol), NEW x \in stored[r],
             x.symbol = m.symbol, x.stance # "neutral"
      PROVE  Reverses(x, m)
  <2>1. r \in Posts /\ x \in stored'[r]
    BY <1>2 DEF EarlierTakes
  <2>2. r \in EarlierTakes(p, m.symbol)'
    BY <1>2, <2>1 DEF EarlierTakes
  <2> QED
    BY <1>8, <2>1, <2>2 DEF ClearReversal
<1> QED
  BY <1>4, <1>5, <1>7, <1>8 DEF ClearReversal

\* Where there are earlier takes there is a newest one.
LEMMA NewestTake ==
  ASSUME NEW p \in Posts, NEW symbol, EarlierTakes(p, symbol) # {}
  PROVE  \E q \in EarlierTakes(p, symbol) :
           \A r \in EarlierTakes(p, symbol) : PostedAt[r] <= PostedAt[q]
<1> DEFINE Takes == EarlierTakes(p, symbol)
           Ages == {PostedAt[p] - PostedAt[q] : q \in Takes}
<1>1. \A q \in Takes : PostedAt[q] \in Nat /\ PostedAt[p] - PostedAt[q] \in Nat
  BY PostsAssumption DEF EarlierTakes
<1>2. PostedAt[p] \in Nat
  BY PostsAssumption
<1>3. Ages \subseteq Nat /\ Ages # {}
  BY <1>1
<1>4. PICK a \in Ages : \A b \in Ages : ~(<<b, a>> \in OpToRel(<, Nat))
  <2> HIDE DEF Ages
  <2> QED
    BY <1>3, WFMin, NatLessThanWellFounded
<1>5. PICK q \in Takes : a = PostedAt[p] - PostedAt[q]
  OBVIOUS
<1>6. OpToRel(<, Nat) = {ss \in Nat \X Nat : ss[1] < ss[2]}
  BY DEF OpToRel
<1>7. \A b \in Ages : a <= b
  <2> HIDE DEF Ages
  <2> SUFFICES ASSUME NEW b \in Ages
               PROVE  ~(b < a)
    BY <1>3
  <2>1. a \in Nat /\ b \in Nat /\ ~(<<b, a>> \in OpToRel(<, Nat))
    BY <1>3, <1>4
  <2> QED
    BY <1>6, <2>1
<1>8. ASSUME NEW r \in Takes
      PROVE  PostedAt[r] <= PostedAt[q]
  <2>1. PostedAt[p] - PostedAt[r] \in Ages
    OBVIOUS
  <2>2. PostedAt[p] - PostedAt[q] <= PostedAt[p] - PostedAt[r]
    BY <1>5, <1>7, <2>1
  <2>3. PostedAt[r] \in Nat /\ PostedAt[q] \in Nat
    BY <1>1
  <2> QED
    BY <1>2, <2>2, <2>3
<1> QED
  BY <1>5, <1>8

\* Who reads the earlier takes of a clear reversal knows of the turn.
LEMMA ReadsTheTurn ==
  ASSUME SpineInv, NEW t \in Tasks, ReadLastStance(t),
         NEW q \in Posts, ClearReversal(q, task[t].post, Mention(t))
  PROVE  task'[t].flip
<1> DEFINE p == task[t].post
           m == Mention(t)
<1>1. p \in Posts /\ m \in Mentions
  BY TaskHasPost, HeadOfList DEF ReadLastStance, Turn, At
<1>2. /\ q \in EarlierTakes(p, m.symbol)
      /\ \A r \in EarlierTakes(p, m.symbol) : \A x \in stored[r] :
           x.symbol = m.symbol /\ x.stance # "neutral" => Reverses(x, m)
  BY DEF ClearReversal
<1>3. PICK r \in EarlierTakes(p, m.symbol) :
        \A s \in EarlierTakes(p, m.symbol) : PostedAt[s] <= PostedAt[r]
  BY <1>1, <1>2, NewestTake
<1>4. PICK x \in stored[r] : x.symbol = m.symbol /\ x.stance # "neutral"
  BY DEF EarlierTakes
<1>5. r \in Posts /\ stored[r] \subseteq Mentions
  BY DEF EarlierTakes, SpineInv, TypeOK
<1>6. x \in LastStances(p, m.symbol)
  BY <1>3, <1>4, <1>5 DEF LastStances
<1>7. \A y \in LastStances(p, m.symbol) : Reverses(y, m) = TRUE
  <2> SUFFICES ASSUME NEW y \in LastStances(p, m.symbol)
               PROVE  Reverses(y, m) = TRUE
    OBVIOUS
  <2>1. Reverses(y, m)
    BY <1>2 DEF LastStances
  <2>2. Reverses(y, m) \in BOOLEAN
    BY MentionFields DEF Reverses, LastStances
  <2> QED
    BY <2>1, <2>2
<1>8. task' = [task EXCEPT ![t].pc = "calls", ![t].flip = TRUE]
  BY <1>6, <1>7 DEF ReadLastStance
<1>9. t \in DOMAIN task /\ "flip" \in DOMAIN task[t]
  BY DEF SpineInv, TypeOK
<1> QED
  BY <1>8, <1>9

\* A task goes on to the next send when the one at hand is claimed, by whoever,
\* or needs no message.
Settles(t) ==
  /\ Head(task[t].todo).kind = "ALERT" =>
       ~Mention(t).loud \/ claims'[AlertKey(task[t].post, Mention(t))] # "none"
  /\ Head(task[t].todo).kind = "FLIP" =>
       \/ claims'[FlipKey(task[t].post, Mention(t))] # "none"
       \/ ~Directional(Mention(t))
       \/ At(t, "calls") /\ ~task[t].flip

\* How a step of a task treats its list.
LEMMA ListStep ==
  ASSUME SpineInv, [Next]_vars, NEW t \in Tasks, Continue(t), ~Extract(t),
         task'[t] # NoTask
  PROVE  \/ NextSend(t) /\ task[t].todo # <<>> /\ Settles(t)
         \/ ReadLastStance(t) /\ task'[t].todo = task[t].todo
         \/ /\ task'[t].todo = task[t].todo
            /\ task'[t].pc = "calls" => task'[t] = task[t]
<1>1. /\ TypeOK /\ InOrder(t) /\ t \in DOMAIN task
      /\ task[t] = [pc |-> task[t].pc, post |-> task[t].post,
                    new |-> task[t].new, found |-> task[t].found,
                    todo |-> task[t].todo, flip |-> task[t].flip]
  BY DEF SpineInv, TypeOK, TaskIsInOrder
<1>2. ASSUME NEW pc, Goto(t, pc), pc # "calls"
      PROVE  task'[t].todo = task[t].todo /\ task'[t].pc # "calls"
  BY <1>1, <1>2 DEF Goto
<1>3. CASE \/ StoreMentions(t) \/ SetPostState(t) \/ Analyze(t)
           \/ SaveEngagement(t) \/ SaveConviction(t)
  BY <1>2, <1>3
  DEF StoreMentions, SetPostState, AfterState, Analyze, SaveEngagement,
      SaveConviction
<1>4. CASE SkipAlert(t)
  BY <1>4 DEF SkipAlert, Turn, Settles
<1>5. CASE SkipReversal(t)
  BY <1>5 DEF SkipReversal, Turn, Settles
<1>6. CASE SendAlert(t)
  <2>1. CASE N!Claimable(AlertKey(task[t].post, Mention(t)))
    BY <1>2, <1>6, <2>1 DEF SendAlert, Claim
  <2>2. CASE ~N!Claimable(AlertKey(task[t].post, Mention(t)))
    BY <1>6, <2>2
    DEF SendAlert, Claim, Turn, Settles, Claimed, N!Claimable, N!ClaimSend,
        ledger
  <2> QED
    BY <2>1, <2>2
<1>7. CASE SendReversal(t)
  <2>1. CASE N!Claimable(FlipKey(task[t].post, Mention(t)))
    BY <1>2, <1>7, <2>1 DEF SendReversal, Claim
  <2>2. CASE ~N!Claimable(FlipKey(task[t].post, Mention(t)))
    BY <1>1, <1>7, <2>2
    DEF SendReversal, Claim, InOrder, At, Settles, Claimed, N!Claimable,
        N!ClaimSend, ledger
  <2> QED
    BY <2>1, <2>2
<1>8. CASE ReadLastStance(t)
  BY <1>1, <1>8 DEF ReadLastStance
<1>9. CASE ReadOpenCall(t)
  <2>1. CASE Goto(t, "flip")
    BY <1>2, <2>1
  <2>2. CASE NextSend(t) /\ ~task[t].flip
    BY <1>1, <1>9, <2>2 DEF ReadOpenCall, InOrder, At, Settles
  <2> QED
    BY <1>9, <2>1, <2>2 DEF ReadOpenCall
<1>10. CASE TelegramAnswers(t)
  BY <1>10 DEF TelegramAnswers
<1>11. CASE MarkSent(t)
  <2>1. call[t] # N!Idle
    BY <1>11 DEF MarkSent, N!MarkSent, N!Idle
  <2>2. task[t].todo # <<>> /\ call[t].key = SendKey(t) /\ At(t, "sending")
    BY <2>1, TaskInCall
  <2>3. Head(task[t].todo).kind \in {"ALERT", "FLIP"}
    BY <2>2, HeadOfList DEF Todo
  <2>4. task[t].post \in Posts /\ Mention(t) \in Mentions
    BY <2>2, HeadOfList, TaskHasPost DEF At
  <2>5. /\ SendKey(t) \in Keys /\ DOMAIN claims = Keys
        /\ Head(task[t].todo).kind = "ALERT" =>
             SendKey(t) = AlertKey(task[t].post, Mention(t))
        /\ Head(task[t].todo).kind = "FLIP" =>
             SendKey(t) = FlipKey(task[t].post, Mention(t))
    BY <1>1, <2>3, <2>4, KeysOfMention DEF SendKey, TypeOK, N!TypeOK
  <2>6. claims'[SendKey(t)] = "sent"
    BY <1>11, <2>2, <2>5 DEF MarkSent, N!MarkSent
  <2>7. Settles(t)
    BY <2>3, <2>5, <2>6 DEF Settles, Claimed
  <2> QED
    BY <1>11, <2>2, <2>7 DEF MarkSent
<1>12. CASE Finish(t)
  BY <1>1, <1>12 DEF Finish
<1>13. CASE RecordAudit(t)
  BY <1>1, <1>13 DEF RecordAudit
<1> QED
  BY <1>3, <1>4, <1>5, <1>6, <1>7, <1>8, <1>9, <1>10, <1>11, <1>12, <1>13
  DEF Continue

\* A task stores its mentions right after it has read them, and in one step.
LEMMA StoreIsAStep ==
  ASSUME SpineInv, NEW t \in Tasks, Continue(t)
  PROVE  /\ task'[t].pc = "store" => Extract(t)
         /\ At(t, "store") => task'[t].pc = "state"
<1>1. /\ t \in DOMAIN task
      /\ task[t] = [pc |-> task[t].pc, post |-> task[t].post,
                    new |-> task[t].new, found |-> task[t].found,
                    todo |-> task[t].todo, flip |-> task[t].flip]
  BY DEF SpineInv, TypeOK
<1>2. MarkSent(t) \/ TelegramAnswers(t) => At(t, "sending")
  BY TaskInCall
  DEF MarkSent, TelegramAnswers, N!MarkSent, N!SendMarkdown, N!ParseError,
      N!SendPlain, N!Idle
<1>3. ASSUME NEW pc, Goto(t, pc), pc # "store"
      PROVE  task'[t].pc = pc
  BY <1>1, <1>3 DEF Goto
<1>4. NextSend(t) => task'[t].pc = "sends"
  BY <1>1 DEF NextSend
<1>5. CASE StoreMentions(t)
  BY <1>3, <1>5 DEF StoreMentions
<1>6. CASE SetPostState(t) \/ Analyze(t) \/ SaveEngagement(t) \/ SaveConviction(t)
  BY <1>3, <1>6
  DEF SetPostState, AfterState, Analyze, SaveEngagement, SaveConviction, At
<1>7. CASE SkipAlert(t) \/ SendAlert(t) \/ SkipReversal(t) \/ ReadOpenCall(t)
           \/ SendReversal(t) \/ MarkSent(t)
  BY <1>2, <1>3, <1>4, <1>7
  DEF SkipAlert, SendAlert, SkipReversal, ReadOpenCall, SendReversal, MarkSent,
      Claim, Turn, At
<1>8. CASE ReadLastStance(t)
  BY <1>1, <1>8 DEF ReadLastStance, Turn, At
<1>9. CASE TelegramAnswers(t)
  BY <1>2, <1>9 DEF TelegramAnswers, At
<1>10. CASE Finish(t)
  BY <1>1, <1>10 DEF Finish, NoTask, At
<1>11. CASE RecordAudit(t)
  BY <1>1, <1>11 DEF RecordAudit, NoTask, At
<1>12. CASE Extract(t)
  BY <1>12 DEF Extract, At
<1> QED
  BY <1>5, <1>6, <1>7, <1>8, <1>9, <1>10, <1>11, <1>12 DEF Continue

\* Nothing that must be sent drops off a list unclaimed.
LEMMA NextSendsAreListed == SpineInv /\ [Next]_vars => SendsAreListed'
<1> SUFFICES ASSUME SpineInv, [Next]_vars, NEW t \in Tasks,
                    task'[t].pc \notin {"idle", "extract"},
                    NEW m \in ToSet(task'[t].found)
             PROVE  IsListed(t, m)'
  BY DEF SendsAreListed
<1> DEFINE alert == [kind |-> "ALERT", mention |-> m]
           flip == [kind |-> "FLIP", mention |-> m]
<1>1. /\ TypeOK /\ InOrder(t) /\ t \in DOMAIN task
      /\ task[t] = [pc |-> task[t].pc, post |-> task[t].post,
                    new |-> task[t].new, found |-> task[t].found,
                    todo |-> task[t].todo, flip |-> task[t].flip]
  BY DEF SpineInv, TypeOK, TaskIsInOrder
<1>2. /\ task'[t] # NoTask /\ ~\E x \in Posts : InsertPost(t, x)
      /\ task'[t] = task[t] \/ Continue(t)
  <2>1. task'[t] # NoTask
    BY DEF NoTask
  <2>2. \A x \in Posts : InsertPost(t, x) => task'[t].pc = "extract"
    BY <1>1 DEF InsertPost, NoTask
  <2> QED
    BY <2>1, <2>2, TaskStep
<1>3. PICK p \in Posts : task[t].post = p
  <2>1. Continue(t) => ~At(t, "idle")
    <3>1. MarkSent(t) \/ TelegramAnswers(t) => At(t, "sending")
      BY TaskInCall
      DEF MarkSent, TelegramAnswers, N!MarkSent, N!SendMarkdown, N!ParseError,
          N!SendPlain, N!Idle
    <3> QED
      BY <3>1
      DEF Continue, Extract, StoreMentions, SetPostState, Analyze,
          SaveEngagement, SaveConviction, SkipAlert, SendAlert, SkipReversal,
          ReadLastStance, ReadOpenCall, SendReversal, Finish, RecordAudit,
          Turn, At
  <2> QED
    BY <1>2, <2>1, TaskHasPost DEF At
<1>4. CASE Extract(t)
  <2>1. PICK r \in Readings[task[t].post] :
          /\ task'[t].pc = IF task[t].new THEN "store" ELSE "sends"
          /\ task'[t].found = r /\ task'[t].todo = Sends(r)
    BY <1>4, ExtractStep
  <2>2. alert \in ToSet(task'[t].todo) /\ flip \in ToSet(task'[t].todo)
    BY <1>3, <2>1, ReadingOfPost, SendsListAll
  <2> QED
    BY <2>1, <2>2 DEF IsListed, At
<1>5. CASE ~Extract(t)
  <2>1. /\ task'[t].post = p /\ task'[t].new = task[t].new
        /\ task'[t].found = task[t].found
    BY <1>2, <1>3, <1>5, OwnStep
  <2>2. task[t].pc \notin {"idle", "extract"}
    <3>1. MarkSent(t) \/ TelegramAnswers(t) => At(t, "sending")
      BY TaskInCall
      DEF MarkSent, TelegramAnswers, N!MarkSent, N!SendMarkdown, N!ParseError,
          N!SendPlain, N!Idle
    <3>2. CASE Continue(t)
      BY <1>5, <3>1, <3>2
      DEF At, Continue, StoreMentions, SetPostState, Analyze, SaveEngagement,
          SaveConviction, SkipAlert, SendAlert, SkipReversal, ReadLastStance,
          ReadOpenCall, SendReversal, Finish, RecordAudit, Turn
    <3> QED
      BY <1>2, <3>2
  <2>3. /\ task[t].found \in Readings[p] /\ m \in ToSet(task[t].found)
        /\ m \in Mentions
    BY <1>1, <1>3, <2>1, <2>2, ReadingOfPost DEF InOrder
  <2>4. IsListed(t, m)
    BY <1>3, <2>2, <2>3 DEF SpineInv, SendsAreListed
  <2>5. /\ Claimed(AlertKey(p, m)) => Claimed(AlertKey(p, m))'
        /\ Claimed(FlipKey(p, m)) => Claimed(FlipKey(p, m))'
    BY <1>3, <2>3, KeysOfMention, ClaimsKept
  <2>6. ASSUME m.loud, ~Claimed(AlertKey(p, m))'
        PROVE  alert \in ToSet(task'[t].todo)
    <3>1. alert \in ToSet(task[t].todo)
      BY <1>3, <2>4, <2>5, <2>6 DEF IsListed, Claimed
    <3>2. CASE task'[t].todo = task[t].todo
      BY <3>1, <3>2
    <3>3. CASE NextSend(t) /\ task[t].todo # <<>> /\ Settles(t)
      <4>1. task'[t].todo = Tail(task[t].todo)
        BY <1>1, <3>3 DEF NextSend
      <4>2. alert # Head(task[t].todo)
        BY <1>3, <2>6, <3>3 DEF Settles, Mention, Claimed
      <4> QED
        BY <3>1, <3>3, <4>1, <4>2, HeadOfList
    <3> QED
      BY <1>2, <1>5, <3>2, <3>3, ListStep
  <2>7. ASSUME task[t].new, NEW q \in Posts,
               task'[t].pc = "store" \/ ClearReversal(q, p, m)',
               ~Claimed(FlipKey(p, m))'
        PROVE  /\ flip \in ToSet(task'[t].todo)
               /\ task'[t].pc = "calls" /\ Head(task'[t].todo).mention = m =>
                    task'[t].flip
    <3>1. At(t, "store") \/ ClearReversal(q, p, m)
      <4>1. CASE task'[t].pc = "store"
        <5>1. task'[t] = task[t]
          BY <1>2, <1>5, <4>1, StoreIsAStep
        <5> QED
          BY <4>1, <5>1 DEF At
      <4>2. ASSUME NEW u \in Tasks, StoreMentions(u), task[u].post = p
            PROVE  At(t, "store")
        <5>1. task[u].new /\ At(u, "store")
          BY <4>2 DEF StoreMentions, At, SpineInv, TaskIsInOrder, InOrder
        <5> QED
          BY <1>3, <2>7, <4>2, <5>1 DEF SpineInv, RowsFollowTask
      <4> QED
        BY <1>3, <2>3, <2>7, <4>1, <4>2, TurnIsOld
    <3>2. /\ flip \in ToSet(task[t].todo)
          /\ At(t, "calls") /\ Mention(t) = m => task[t].flip
      BY <1>3, <2>4, <2>5, <2>7, <3>1 DEF IsListed, Claimed
    <3>3. CASE ReadLastStance(t) /\ task'[t].todo = task[t].todo
      <4>1. ~At(t, "store")
        BY <3>3 DEF ReadLastStance, Turn, At
      <4> QED
        BY <1>3, <3>1, <3>2, <3>3, <4>1, ReadsTheTurn DEF Mention
    <3>4. CASE /\ task'[t].todo = task[t].todo
               /\ task'[t].pc = "calls" => task'[t] = task[t]
      BY <3>2, <3>4 DEF At, Mention
    <3>5. CASE /\ Continue(t) /\ NextSend(t)
               /\ task[t].todo # <<>> /\ Settles(t)
      <4>1. task'[t].todo = Tail(task[t].todo) /\ task'[t].pc = "sends"
        BY <1>1, <3>5 DEF NextSend
      <4>2. flip # Head(task[t].todo)
        <5> SUFFICES ASSUME Head(task[t].todo).kind = "FLIP", Mention(t) = m
                     PROVE  FALSE
          BY DEF Mention
        <5>1. At(t, "calls") => task[t].flip
          BY <3>2
        <5>2. ~Directional(m)
          BY <1>3, <2>7, <3>5, <5>1 DEF Settles, Claimed
        <5>3. At(t, "store")
          BY <3>1, <5>2 DEF ClearReversal
        <5> QED
          BY <3>5, <4>1, <5>3, StoreIsAStep
      <4> QED
        BY <3>2, <3>5, <4>1, <4>2, HeadOfList
    <3> QED
      BY <1>2, <1>5, <3>3, <3>4, <3>5, ListStep
  <2> QED
    BY <2>1, <2>6, <2>7 DEF IsListed, At, Mention
<1> QED
  BY <1>4, <1>5

\* A stored take that tells against a mention goes on telling against it.
LEMMA OppositeStays ==
  ASSUME SpineInv, [Next]_vars, NEW q \in Posts, NEW p, NEW m,
         HasOpposite(q, p, m)
  PROVE  HasOpposite(q, p, m)'
  BY TakesStay DEF HasOpposite

\* A task that knows of a turn has read of one.
LEMMA NextTurnHasCause == SpineInv /\ [Next]_vars => TurnHasCause'
<1> SUFFICES ASSUME SpineInv, [Next]_vars, NEW t \in Tasks,
                    task'[t].pc = "calls", task'[t].flip
             PROVE  \E q \in Posts :
                      HasOpposite(q, task[t].post, Mention(t))'
  BY DEF TurnHasCause, At
<1>1. /\ t \in DOMAIN task
      /\ task[t] = [pc |-> task[t].pc, post |-> task[t].post,
                    new |-> task[t].new, found |-> task[t].found,
                    todo |-> task[t].todo, flip |-> task[t].flip]
  BY DEF SpineInv, TypeOK
<1>2. CASE task'[t] = task[t]
  <2>1. PICK q \in Posts : HasOpposite(q, task[t].post, Mention(t))
    BY <1>2 DEF SpineInv, TurnHasCause, At
  <2>2. PICK p, m : p = task[t].post /\ m = Mention(t)
    OBVIOUS
  <2>3. HasOpposite(q, p, m)'
    BY <2>1, <2>2, OppositeStays
  <2> QED
    BY <1>2, <2>2, <2>3 DEF HasOpposite, Mention
<1>3. CASE ReadLastStance(t)
  <2>1. PICK p \in Posts, m \in Mentions : p = task[t].post /\ m = Mention(t)
    BY <1>3, TaskHasPost, HeadOfList DEF ReadLastStance, Turn, At
  <2>2. /\ Directional(m) /\ stored' = stored
        /\ task'[t].post = p /\ task'[t].todo = task[t].todo
    BY <1>1, <1>3, <2>1 DEF ReadLastStance, db
  <2>3. PICK x \in LastStances(p, m.symbol) : Reverses(x, m)
    <3> DEFINE priors == LastStances(task[t].post, Mention(t).symbol)
    <3>1. PICK flip \in IF priors = {} THEN {FALSE}
                        ELSE {Reverses(x, Mention(t)) : x \in priors} :
            task' = [task EXCEPT ![t].pc = "calls", ![t].flip = flip]
      BY <1>3 DEF ReadLastStance
    <3>2. flip
      BY <1>1, <3>1
    <3>3. \E x \in priors : Reverses(x, Mention(t))
      <4> HIDE DEF priors
      <4> QED
        BY <3>1, <3>2
    <3> QED
      BY <2>1, <3>3
  <2>4. PICK q \in EarlierTakes(p, m.symbol) : x \in stored[q]
    BY <2>3 DEF LastStances
  <2>5. /\ x.symbol = m.symbol /\ x.sure
        /\ {x.stance, m.stance} = {"bullish", "bearish"}
    BY <2>1, <2>2, <2>3, MentionFields DEF LastStances, Reverses, Directional
  <2>6. q \in Posts /\ HasOpposite(q, p, m)
    BY <2>4, <2>5 DEF EarlierTakes, HasOpposite
  <2> QED
    BY <2>1, <2>2, <2>6 DEF HasOpposite, Mention
<1>4. ASSUME Continue(t)
      PROVE  ReadLastStance(t) \/ task'[t] = task[t]
  <2>1. CASE Extract(t)
    BY <2>1, ExtractStep
  <2>2. CASE ~Extract(t)
    <3>1. task'[t] # NoTask
      BY DEF NoTask
    <3>2. ~NextSend(t)
      BY <1>1 DEF NextSend
    <3> QED
      BY <1>4, <2>2, <3>1, <3>2, ListStep
  <2> QED
    BY <2>1, <2>2
<1>5. ~\E p \in Posts : InsertPost(t, p)
  BY <1>1 DEF InsertPost, NoTask
<1>6. task'[t] # NoTask
  BY DEF NoTask
<1> QED
  BY <1>2, <1>3, <1>4, <1>5, <1>6, TaskStep

-----------------------------------------------------------------------------
\* Rows, ledger and tasks stay in agreement: one-time work is done once per post,
\* whichever tasks race for it and wherever they are cut short.
THEOREM SpineIsSound == Spec => []SpineInv
<1>1. Init => SpineInv
  BY InitSpineInv
<1>2. SpineInv /\ [Next]_vars => SpineInv'
  BY ClaimsKept, NextTypeOK, NextOneTimeWorkOnce, NextTaskIsInOrder,
     NextRowsFollowTask, NextSendsAreListed, NextTurnHasCause
  DEF SpineInv
<1> QED
  BY <1>1, <1>2, PTL DEF Spec

\* A post that is through is not stored again, and what was stored of it stays.
LEMMA AuditedStays ==
  ASSUME SpineInv, [Next]_vars, NEW p \in Posts, audits[p] > 0
  PROVE  RowsKept(p) /\ ~\E t \in Tasks : StoreMentions(t) /\ task[t].post = p
<1>1. \A t \in Tasks : task[t].post = p => ~task[t].new
  <2> SUFFICES ASSUME NEW t \in Tasks, task[t].post = p, task[t].new
               PROVE  FALSE
    OBVIOUS
  <2>1. RowsAreOf(t)
    BY DEF SpineInv, RowsFollowTask
  <2> QED
    BY <2>1 DEF RowsAreOf
<1>2. postState[p] # "absent"
  BY DEF SpineInv, RowsFollowTask, Untouched
<1>3. \A t \in Tasks : StoreMentions(t) => task[t].new
  BY DEF StoreMentions, At, SpineInv, TaskIsInOrder, InOrder
<1> QED
  BY <1>1, <1>2, <1>3, RowStep DEF IsNew

\* Only the task at its end writes the audit row.
LEMMA AuditStep ==
  ASSUME SpineInv, [Next]_vars, NEW p \in Posts, audits[p] = 0, audits'[p] > 0
  PROVE  \E t \in Tasks : task[t].post = p /\ RecordAudit(t)
<1>1. ~RowsKept(p)
  BY DEF RowsKept
<1>2. \A t \in Tasks : ~InsertPost(t, p)
  BY DEF InsertPost
<1>3. ASSUME NEW t \in Tasks, WritesRow(t)
      PROVE  RecordAudit(t)
  BY <1>3
  DEF WritesRow, StoreMentions, SetPostState, Analyze, SaveEngagement,
      SaveConviction, db
<1> QED
  BY <1>1, <1>2, <1>3, RowStep

\* What a task has done that is about to write the audit row.
LEMMA AuditIsEarned ==
  ASSUME SpineInv, NEW p \in Posts, audits[p] = 0, NEW t \in Tasks,
         task[t].post = p, RecordAudit(t)
  PROVE  /\ task[t].new /\ stored[p] = ToSet(task[t].found)
         /\ Settled(p) /\ extras[p] = ExtrasOf(p)
         /\ \A m \in stored[p] :
              /\ m.loud => Claimed(AlertKey(p, m))
              /\ \A q \in Posts : ClearReversal(q, p, m) => Claimed(FlipKey(p, m))
<1>1. /\ InOrder(t) /\ At(t, "audit") /\ task[t].todo = <<>> /\ task[t].new
  BY DEF RecordAudit, SpineInv, TaskIsInOrder, InOrder, At
<1>2. RowsAreOf(t)
  BY <1>1 DEF SpineInv, RowsFollowTask
<1>3. stored[p] = ToSet(task[t].found) /\ Settled(p) /\ extras[p] = ExtrasOf(p)
  BY <1>1, <1>2 DEF RowsAreOf, At
<1>4. \A m \in ToSet(task[t].found) : IsListed(t, m)
  BY <1>1 DEF SpineInv, SendsAreListed, At
<1>5. ToSet(task[t].todo) = {}
  BY <1>1 DEF ToSet
<1> QED
  BY <1>1, <1>3, <1>4, <1>5 DEF IsListed

\* The audit row stands for a complete post, for any readings and any faults.
THEOREM AuditIsTrue == Spec => []AuditedPostIsComplete
<1>1. Init => AuditedPostIsComplete
  BY DEF Init, AuditedPostIsComplete
<1>2. SpineInv /\ AuditedPostIsComplete /\ [Next]_vars => AuditedPostIsComplete'
  <2> SUFFICES ASSUME SpineInv, AuditedPostIsComplete, [Next]_vars,
                      NEW p \in Posts, audits'[p] > 0
               PROVE  /\ Settled(p)'
                      /\ "conviction" \in extras'[p] <=> stored'[p] # {}
                      /\ "engagement" \in extras'[p] <=> p \in Metered
                      /\ \A m \in stored'[p] :
                           m.loud => claims'[AlertKey(p, m)] # "none"
    BY DEF AuditedPostIsComplete, Settled, Claimed
  <2>1. /\ Settled(p)
        /\ "conviction" \in extras[p] <=> stored[p] # {}
        /\ "engagement" \in extras[p] <=> p \in Metered
        /\ \A m \in stored[p] : m.loud => Claimed(AlertKey(p, m))
        /\ UNCHANGED <<postState, stored, extras>> \/ RowsKept(p)
    <3>1. CASE audits[p] > 0
      BY <3>1, AuditedStays DEF AuditedPostIsComplete, Settled
    <3>2. CASE audits[p] = 0
      <4>1. PICK t \in Tasks : task[t].post = p /\ RecordAudit(t)
        BY <3>2, AuditStep
      <4>2. /\ Settled(p) /\ extras[p] = ExtrasOf(p)
            /\ \A m \in stored[p] : m.loud => Claimed(AlertKey(p, m))
        BY <3>2, <4>1, AuditIsEarned
      <4>3. UNCHANGED <<postState, stored, extras>>
        BY <4>1 DEF RecordAudit
      <4> QED
        BY <4>2, <4>3 DEF ExtrasOf
    <3>3. audits[p] \in Nat
      BY DEF SpineInv, TypeOK
    <3> QED
      BY <3>1, <3>2, <3>3
  <2>2. ASSUME NEW m \in stored[p], m.loud
        PROVE  claims'[AlertKey(p, m)] # "none"
    <3>1. m \in Mentions
      BY DEF SpineInv, TypeOK
    <3> QED
      BY <2>1, <2>2, <3>1, KeysOfMention, ClaimsKept DEF Claimed
  <2> QED
    BY <2>1, <2>2 DEF RowsKept, Settled
<1> QED
  BY <1>1, <1>2, SpineIsSound, PTL DEF Spec

\* A turn that was stored in order is announced by the time its post is through.
THEOREM TurnIsAlerted == Spec => []ReversalIsAlerted
<1>1. Init => ReversalIsAlerted
  BY DEF Init, ReversalIsAlerted
<1>2. SpineInv /\ ReversalIsAlerted /\ [Next]_vars => ReversalIsAlerted'
  <2> SUFFICES ASSUME SpineInv, ReversalIsAlerted, [Next]_vars,
                      NEW q \in Posts, NEW p \in Posts, NEW m \in Mentions,
                      ClearReversal(q, p, m)', audits'[p] > 0
               PROVE  claims'[FlipKey(p, m)] # "none"
    BY DEF ReversalIsAlerted, Claimed
  <2>1. Claimed(FlipKey(p, m)) => claims'[FlipKey(p, m)] # "none"
    BY KeysOfMention, ClaimsKept DEF Claimed
  <2>2. CASE audits[p] > 0
    BY <2>1, <2>2, AuditedStays, TurnIsOld DEF ReversalIsAlerted
  <2>3. CASE audits[p] = 0
    <3>1. PICK t \in Tasks : task[t].post = p /\ RecordAudit(t)
      BY <2>3, AuditStep
    <3>2. ClearReversal(q, p, m)
      BY <3>1 DEF RecordAudit, ClearReversal, EarlierTakes
    <3>3. m \in stored[p]
      BY <3>2 DEF ClearReversal
    <3> QED
      BY <2>1, <2>3, <3>1, <3>2, <3>3, AuditIsEarned
  <2>4. audits[p] \in Nat
    BY DEF SpineInv, TypeOK
  <2> QED
    BY <2>2, <2>3, <2>4
<1> QED
  BY <1>1, <1>2, SpineIsSound, PTL DEF Spec

\* A reversal is announced only against an open call or a stored opposite take.
THEOREM ReversalHasCause == Spec => NoCauselessReversal
<1> DEFINE Cause == \A t \in Tasks : ~At(t, "flip") /\ task'[t].pc = "flip" =>
                      LET p == task[t].post
                          m == Mention(t) IN
                      AgainstCall(p, m) \/ \E q \in Posts : HasOpposite(q, p, m)
<1>1. SpineInv /\ [Next]_vars => [Cause]_vars
  <2> SUFFICES ASSUME SpineInv, [Next]_vars, NEW t \in Tasks, ~At(t, "flip"),
                      task'[t].pc = "flip"
               PROVE  \/ AgainstCall(task[t].post, Mention(t))
                      \/ \E q \in Posts :
                           HasOpposite(q, task[t].post, Mention(t))
    OBVIOUS
  <2>1. /\ t \in DOMAIN task
        /\ task[t] = [pc |-> task[t].pc, post |-> task[t].post,
                      new |-> task[t].new, found |-> task[t].found,
                      todo |-> task[t].todo, flip |-> task[t].flip]
    BY DEF SpineInv, TypeOK
  <2>2. ASSUME Continue(t)
        PROVE  ReadOpenCall(t) /\ Goto(t, "flip")
    <3>1. ASSUME NEW pc, Goto(t, pc)
          PROVE  pc = "flip"
      BY <2>1, <3>1 DEF Goto
    <3>2. ~NextSend(t) /\ task'[t] # NoTask
      BY <2>1 DEF NextSend, NoTask
    <3>3. ~Extract(t)
      BY ExtractStep
    <3>4. ~ReadLastStance(t) /\ ~Finish(t)
      BY <2>1, <3>2 DEF ReadLastStance, Finish
    <3> QED
      BY <2>1, <2>2, <3>1, <3>2, <3>3, <3>4
      DEF Continue, StoreMentions, SetPostState, AfterState, Analyze,
          SaveEngagement, SaveConviction, SkipAlert, SendAlert, SkipReversal,
          ReadOpenCall, SendReversal, TelegramAnswers, MarkSent, RecordAudit,
          Claim, At
  <2>3. ~\E p \in Posts : InsertPost(t, p)
    BY <2>1 DEF InsertPost, NoTask
  <2>4. task'[t] # NoTask /\ task'[t] # task[t]
    BY DEF NoTask, At
  <2>5. ReadOpenCall(t) /\ Goto(t, "flip")
    BY <2>2, <2>3, <2>4, TaskStep
  <2>6. task[t].flip \/ AgainstCall(task[t].post, Mention(t))
    <3>1. NextSend(t) => task'[t].pc = "sends"
      BY <2>1 DEF NextSend
    <3> QED
      BY <2>5, <3>1 DEF ReadOpenCall
  <2> QED
    BY <2>5, <2>6 DEF ReadOpenCall, SpineInv, TurnHasCause
<1> QED
  BY <1>1, SpineIsSound, PTL DEF Spec, NoCauselessReversal

\* A sighting that nothing cuts short leaves nothing unalerted.
THEOREM SightingsAlert == Spec => SightingAlerts
<1> DEFINE Done == \A t \in Tasks :
             task[t].post # NoPost /\ task'[t] = NoTask /\ faults' = faults =>
               \A m \in Wanted(task[t].post) :
                 claims'[AlertKey(task[t].post, m)] # "none"
<1>1. SpineInv /\ [Next]_vars => [Done]_vars
  <2> SUFFICES ASSUME SpineInv, [Next]_vars, NEW t \in Tasks,
                      task[t].post # NoPost, task'[t] = NoTask,
                      faults' = faults, NEW m \in Wanted(task[t].post)
               PROVE  claims'[AlertKey(task[t].post, m)] # "none"
    OBVIOUS
  <2>1. /\ t \in DOMAIN task
        /\ task[t] = [pc |-> task[t].pc, post |-> task[t].post,
                      new |-> task[t].new, found |-> task[t].found,
                      todo |-> task[t].todo, flip |-> task[t].flip]
        /\ faults \in Nat
    BY BoundsAssumption DEF SpineInv, TypeOK
  <2>2. Finish(t) \/ RecordAudit(t)
    <3>1. task'[t] # task[t] /\ ~At(t, "idle")
      BY IdleTask DEF NoTask
    <3>2. ~Crash /\ ~\E u \in Tasks : Raises(u)
      BY <2>1 DEF Crash, Raises
    <3>3. ASSUME NEW u \in Tasks, NEW p \in Posts, InsertPost(u, p)
          PROVE  FALSE
      BY <2>1, <3>1, <3>3 DEF InsertPost, NoTask
    <3>4. ASSUME NEW u \in Tasks, Continue(u)
          PROVE  Continue(t)
      BY <3>1, <3>4, OthersWait
    <3>5. Continue(t)
      BY <3>1, <3>2, <3>3, <3>4 DEF Next, vars, SetOpenCall
    <3>6. task'[t].post # task[t].post
      BY DEF NoTask
    <3> QED
      BY <3>5, <3>6, OwnStep
  <2>3. /\ task[t].pc \notin {"idle", "extract"} /\ task[t].todo = <<>>
    BY <2>2 DEF Finish, RecordAudit, At, SpineInv, TaskIsInOrder, InOrder
  <2>4. /\ task[t].post \in Posts /\ m \in Mentions /\ m.loud
        /\ m \in ToSet(task[t].found)
    BY <2>3 DEF At, SpineInv, TaskIsInOrder, InOrder, Wanted
  <2>5. Claimed(AlertKey(task[t].post, m))
    <3>1. ToSet(task[t].todo) = {}
      BY <2>3 DEF ToSet
    <3>2. IsListed(t, m)
      BY <2>3, <2>4 DEF SpineInv, SendsAreListed
    <3> QED
      BY <2>4, <3>1, <3>2 DEF IsListed
  <2> QED
    BY <2>4, <2>5, KeysOfMention, ClaimsKept DEF Claimed
<1> QED
  BY <1>1, SpineIsSound, PTL DEF Spec, SightingAlerts

\* The tasks use the notifier as the notifier asks to be used.
THEOREM SpineUsesNotifier == Spec => N!Spec
<1>1. Init => N!Init
  BY DEF Init
<1>2. SpineInv /\ [Next]_vars => [N!Next]_(N!vars)
  BY StepOfNotifier DEF ledger, N!vars
<1> QED
  BY <1>1, <1>2, SpineIsSound, PTL DEF Spec, N!Spec

\* No alert or reversal is shown twice, however often its post is seen.
THEOREM SentOnce == Spec => []N!AtMostOneMessage
<1>1. SpineInv => N!AtMostOneMessage
  BY DEF SpineInv, N!IInv
<1> QED
  BY <1>1, SpineIsSound, PTL
=============================================================================
