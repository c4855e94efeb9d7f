--------------------------- MODULE CallDeskProofs ---------------------------
(***************************************************************************)
(* Proofs about CallDesk, for any symbols and narratives, any calendar     *)
(* that keeps the horizon beyond the date, and any number of faults.       *)
(*                                                                         *)
(* One live call per symbol is a fact about the book, but what keeps it is *)
(* the plan of the run under way: PlanIsSound says what the evaluations    *)
(* still to be dealt with may become, CallAtHand where the run is with the *)
(* first of them, OutcomesAreLate that a call id of this date has no       *)
(* outcome, and KillIsCounted that every claim since a kill has used up a  *)
(* number of the run.                                                      *)
(***************************************************************************)
EXTENDS CallDesk, SequenceTheorems, TLAPS

-----------------------------------------------------------------------------
(* Sequences                                                               *)

\* The elements of a sequence.
LEMMA ElementsOfSeq ==
  ASSUME NEW S, NEW s \in Seq(S)
  PROVE  ToSet(s) \subseteq S
  BY LenProperties, ElementOfSeq DEF ToSet

\* The first element of a sequence, and what the rest of it holds.
LEMMA HeadAndTail ==
  ASSUME NEW S, NEW s \in Seq(S), s # <<>>
  PROVE  /\ Head(s) \in S
         /\ Tail(s) \in Seq(S)
         /\ ToSet(s) = {Head(s)} \cup ToSet(Tail(s))
<1>1. PICK h \in S, t \in Seq(S) : h = Head(s) /\ t = Tail(s)
  BY HeadTailProperties
<1>2. <<h>> \in Seq(S) /\ Len(<<h>>) = 1 /\ <<h>>[1] = h /\ Range(<<h>>) = {h}
  BY DEF Range
<1>3. PICK one \in Seq(S) : one = <<h>>
  BY <1>2
<1>4. s = one \o t
  <2>1. one \o t \in Seq(S) /\ Len(one \o t) = Len(s)
    BY <1>1, <1>2, <1>3, HeadTailProperties, ConcatProperties, LenProperties
  <2>2. \A i \in 1 .. Len(s) : s[i] = (one \o t)[i]
    BY <1>1, <1>2, <1>3, HeadTailProperties, ConcatProperties, LenProperties
  <2> QED
    BY <2>1, <2>2, SeqEqual
<1>5. Range(s) = {h} \cup Range(t)
  <2>1. Range(one \o t) = Range(one) \cup Range(t)
    BY RangeConcatenation
  <2> QED
    BY <1>2, <1>3, <1>4, <2>1
<1> QED
  BY <1>1, <1>5 DEF ToSet, Range

\* An element more at the end of a sequence.
LEMMA AppendOne ==
  ASSUME NEW S, NEW s \in Seq(S), NEW x \in S
  PROVE  /\ Append(s, x) \in Seq(S)
         /\ Len(s) \in Nat
         /\ DOMAIN s = 1 .. Len(s)
         /\ DOMAIN Append(s, x) = 1 .. Len(s) + 1
         /\ \A i \in DOMAIN s : Append(s, x)[i] = s[i]
         /\ Append(s, x)[Len(s) + 1] = x
         /\ ToSet(Append(s, x)) = ToSet(s) \cup {x}
<1>1. <<x>> \in Seq(S) /\ Append(s, x) = s \o <<x>> /\ Range(<<x>>) = {x}
  BY AppendIsConcat DEF Range
<1>2. ToSet(Append(s, x)) = ToSet(s) \cup {x}
  BY <1>1, RangeConcatenation DEF ToSet, Range
<1> QED
  BY <1>2, AppendProperties, LenProperties

-----------------------------------------------------------------------------

NP == INSTANCE NotifierProofs WITH Senders <- {"desk"}

\* What is proved of the notifier holds of the ledger the desk works on.
LEMMA LedgerStep ==
  N!IInv /\ [N!Next]_ledger =>
    N!IInv' /\ \A k \in Keys : claims[k] = "sent" => claims'[k] = "sent"
  BY NP!NextIInv, NP!StepKeepsRows, NoKeyAssumption
  DEF NP!KeepsRow, ledger, NP!vars, NP!IInv, N!IInv, NP!TypeOK, N!TypeOK,
      NP!CallHasKey, N!CallHasKey, NP!ClaimIsExclusive, N!ClaimIsExclusive,
      NP!NotYetShown, N!NotYetShown, NP!AtMostOneMessage, N!AtMostOneMessage,
      NP!SentWasDelivered, N!SentWasDelivered, NP!Idle, N!Idle,
      NP!Next, N!Next, NP!Progress, N!Progress, NP!Crash, N!Crash,
      NP!ClaimSend, N!ClaimSend, NP!ClaimAnswerLost, N!ClaimAnswerLost,
      NP!Claimable, N!Claimable, NP!SendMarkdown, N!SendMarkdown,
      NP!ParseError, N!ParseError, NP!SendPlain, N!SendPlain,
      NP!SendRaises, N!SendRaises, NP!ClaimAfterRaise, N!ClaimAfterRaise,
      NP!MarkSent, N!MarkSent, NP!MarkRaises, N!MarkRaises,
      NP!InChannel, N!InChannel

\* An empty ledger is a good one.
LEMMA LedgerInit == N!Init => N!IInv
  BY NP!InitIInv, NoKeyAssumption
  DEF NP!IInv, N!IInv, NP!TypeOK, N!TypeOK,
      NP!CallHasKey, N!CallHasKey, NP!ClaimIsExclusive, N!ClaimIsExclusive,
      NP!NotYetShown, N!NotYetShown, NP!AtMostOneMessage, N!AtMostOneMessage,
      NP!SentWasDelivered, N!SentWasDelivered, NP!Idle, N!Idle,
      NP!Init, N!Init

\* What a call id is made of.
LEMMA KeyParts ==
  ASSUME NEW h \in Hours, NEW s \in Symbols, NEW n \in 1 .. MaxCalls
  PROVE  /\ CallId(h, s, n) \in Keys
         /\ CallId(h, s, n)[1] = Day[h]
         /\ CallId(h, s, n)[2] = s
         /\ CallId(h, s, n)[3] = n
  BY DEF CallId, Keys

\* A call of the plan has an id of this date, of its symbol and of its number.
LEMMA ProposedId ==
  ASSUME BookInv, NEW e \in Proposed
  PROVE  /\ e.id \in Keys /\ e.symbol \in Symbols
         /\ e.id[1] = Day[hour] /\ e.id[2] = e.symbol
         /\ e.id[3] \in 1 .. MaxCalls
<1>1. e \in Evals
  BY ElementsOfSeq DEF BookInv, TypeOK, Proposed
<1>2. PICK n \in 1 .. MaxCalls : e.id = CallId(hour, e.symbol, n)
  BY DEF BookInv, PlanIsSound
<1> QED
  BY <1>1, <1>2, KeyParts DEF BookInv, TypeOK, Evals

\* The evaluation at hand, and what follows it.
LEMMA EvalAtHand ==
  ASSUME BookInv, desk.evals # <<>>
  PROVE  /\ Current \in Evals
         /\ Current = desk.evals[1] /\ 1 \in DOMAIN desk.evals
         /\ Current.passed => Current \in Proposed
         /\ Tail(desk.evals) \in Seq(Evals)
         /\ ToSet(Tail(desk.evals)) \subseteq ToSet(desk.evals)
         /\ \A i \in DOMAIN Tail(desk.evals) :
              /\ i \in Nat \ {0} /\ i + 1 \in DOMAIN desk.evals
              /\ Tail(desk.evals)[i] = desk.evals[i + 1]
<1>1. desk.evals \in Seq(Evals)
  BY DEF BookInv, TypeOK
<1>2. /\ Current \in Evals /\ Tail(desk.evals) \in Seq(Evals)
      /\ ToSet(desk.evals) = {Current} \cup ToSet(Tail(desk.evals))
  BY <1>1, HeadAndTail DEF Current
<1>3. /\ Len(desk.evals) \in Nat \ {0}
      /\ DOMAIN desk.evals = 1 .. Len(desk.evals)
      /\ Len(Tail(desk.evals)) = Len(desk.evals) - 1
      /\ DOMAIN Tail(desk.evals) = 1 .. Len(desk.evals) - 1
      /\ \A i \in 1 .. Len(Tail(desk.evals)) :
           Tail(desk.evals)[i] = desk.evals[i + 1]
  BY <1>1, <1>2, EmptySeq, LenProperties, HeadTailProperties
<1> QED
  BY <1>2, <1>3 DEF Current, Proposed

\* The call at hand, from its row to the end of its message.
LEMMA CurrentCall ==
  ASSUME BookInv, desk.pc \in {"broadcast", "sending", "live", "pass"}
  PROVE  /\ desk.evals # <<>> /\ Current \in Proposed
         /\ Current.id \in Keys /\ Current.symbol \in Symbols
         /\ Current.id[1] = Day[hour] /\ Current.id[2] = Current.symbol
         /\ Current.id[3] \in 1 .. MaxCalls
<1>1. desk.evals # <<>> /\ Current.passed
  BY DEF BookInv, CallAtHand
<1> QED
  BY <1>1, EvalAtHand, ProposedId

-----------------------------------------------------------------------------

\* What the desk does to the ledger are the steps of one notifier call.
LEMMA StepOfNotifier == BookInv /\ [Next]_vars => [N!Next]_ledger
<1> SUFFICES ASSUME BookInv, Next, ~UNCHANGED ledger
             PROVE  N!Next
  BY DEF vars
<1>1. CASE Broadcast
  <2>1. Current.id \in Keys /\ N!ClaimSend("desk", Current.id)
    BY <1>1, CurrentCall DEF Broadcast
  <2> QED
    BY <2>1 DEF N!Next
<1>2. CASE TelegramAnswers
  BY <1>2 DEF TelegramAnswers, N!Next, N!Progress
<1>3. CASE MarkSent
  BY <1>3 DEF MarkSent, N!Next, N!Progress
<1>4. CASE Raises
  BY <1>4 DEF Raises, N!Next, N!Progress
<1>5. CASE Crash
  BY <1>5 DEF Crash, N!Next
<1> QED
  BY <1>1, <1>2, <1>3, <1>4, <1>5
  DEF Next, Work, Kill, Unkill, SetPause, StartRun, Judge, ReadPause,
      SaveSuppressed, SaveRec, PassOver, MarkLive, EndRun, Close, Tick

\* The day begins with an empty book and nobody at the desk.
LEMMA InitBookInv == Init => BookInv
<1> SUFFICES ASSUME Init
             PROVE  BookInv
  OBVIOUS
<1>1. N!IInv /\ N!TypeOK
  BY LedgerInit DEF Init, N!IInv
<1>2. desk = Away /\ DOMAIN desk.evals = {} /\ Proposed = {}
  BY DEF Init, Away, Proposed, ToSet
<1>3. TypeOK
  <2>1. desk \in [pc : {"idle"}, ranked : Seq(Symbols), seq : 0 .. MaxCalls,
                  evals : Seq(Evals), may : BOOLEAN]
    BY <1>2, EmptySeq, BoundsAssumption DEF Away
  <2>2. hour \in Hours /\ faults \in 0 .. MaxFaults /\ paper \in PaperModes
    BY BoundsAssumption DEF Init, Hours
  <2>3. rec \in [Keys -> [state : {"absent", "candidate", "live", "closed"},
                         issued : 0 .. MaxHour]]
    <3>1. 0 \in 0 .. MaxHour
      BY BoundsAssumption
    <3> QED
      BY <3>1 DEF Init
  <2>4. afterKill \in Nat /\ outcomes \in [Keys -> Nat]
    BY DEF Init
  <2> QED
    BY <1>1, <2>1, <2>2, <2>3, <2>4 DEF Init, TypeOK
<1> QED
  BY <1>1, <1>2, <1>3, BoundsAssumption
  DEF Init, BookInv, Away, OneLiveCallPerSymbol, OutcomesAreLate, PlanIsSound,
      CallAtHand, KillIsCounted, N!Init

\* Every step leaves the tables, the flags and the desk well-typed.
LEMMA NextTypeOK == BookInv /\ [Next]_vars => TypeOK'
<1> SUFFICES ASSUME BookInv, [Next]_vars
             PROVE  TypeOK'
  OBVIOUS
<1>ledger. N!TypeOK'
  BY StepOfNotifier, LedgerStep DEF BookInv, N!IInv
<1> DEFINE DeskType == desk' \in
             [pc : {"idle", "gates", "save", "broadcast", "sending", "live",
                    "pass"},
              ranked : Seq(Symbols), seq : 0 .. MaxCalls, evals : Seq(Evals),
              may : BOOLEAN]
<1>away. Away \in [pc : {"idle"}, ranked : Seq(Symbols), seq : 0 .. MaxCalls,
                   evals : Seq(Evals), may : BOOLEAN]
  BY EmptySeq, BoundsAssumption DEF Away
<1> USE <1>ledger, BoundsAssumption DEF BookInv, TypeOK, flags, book, clock
<1>next. ASSUME NextEval, desk.evals # <<>>
         PROVE  DeskType
  BY <1>next, EvalAtHand DEF NextEval
<1>1. CASE Kill \/ Unkill
  <2>1. killed' \in BOOLEAN /\ afterKill' = 0
    BY <1>1 DEF Kill, Unkill
  <2>2. UNCHANGED <<pause, paper, book, ledger, desk, clock, faults>>
    BY <1>1 DEF Kill, Unkill
  <2> QED
    BY <2>1, <2>2
<1>15. ASSUME NEW mode \in PauseModes, SetPause(mode)
       PROVE  TypeOK'
  BY <1>15, ModesAssumption DEF SetPause
<1>2. CASE StartRun
  <2>1. ASSUME NEW ranked \in BoundedSeq(Symbols, Top),
               desk' = [Away EXCEPT !.pc = "gates", !.ranked = ranked]
        PROVE  DeskType
    <3>1. ranked \in Seq(Symbols)
      BY SeqDef DEF BoundedSeq, SeqOf
    <3> QED
      BY <2>1, <3>1, <1>away
  <2>2. DeskType
    BY <1>2, <2>1 DEF StartRun
  <2> QED
    BY <1>2, <2>2 DEF StartRun
<1>3. CASE Judge
  <2>1. Head(desk.ranked) \in Symbols /\ Tail(desk.ranked) \in Seq(Symbols)
    BY <1>3, HeadAndTail DEF Judge
  <2>2. ASSUME NEW e \in Evals, desk.seq < MaxCalls, desk' = Judged(e)
        PROVE  DeskType
    <3>1. Append(desk.evals, e) \in Seq(Evals) /\ e.passed \in BOOLEAN
      BY AppendOne DEF Evals
    <3>2. (IF e.passed THEN desk.seq + 1 ELSE desk.seq) \in 0 .. MaxCalls
      BY <2>2
    <3> QED
      BY <2>1, <2>2, <3>1, <3>2 DEF Judged
  <2>3. [symbol |-> Head(desk.ranked), passed |-> FALSE, id |-> NoKey] \in Evals
    BY <2>1 DEF Evals
  <2>4. desk.seq < MaxCalls => desk.seq + 1 \in 1 .. MaxCalls
    OBVIOUS
  <2>5. ASSUME desk.seq < MaxCalls
        PROVE  [symbol |-> Head(desk.ranked), passed |-> TRUE,
                id |-> CallId(hour, Head(desk.ranked), desk.seq + 1)] \in Evals
    BY <2>1, <2>4, <2>5, KeyParts DEF Evals
  <2>6. DeskType
    BY <1>3, <2>2, <2>3, <2>5 DEF Judge
  <2> QED
    BY <1>3, <2>6 DEF Judge
<1>4. CASE ReadPause
  <2>1. PICK may \in BOOLEAN :
          desk' = [Away EXCEPT !.pc = "save", !.evals = desk.evals, !.may = may]
    BY <1>4 DEF ReadPause
  <2>2. DeskType
    BY <2>1, <1>away
  <2> QED
    BY <1>4, <2>2 DEF ReadPause
<1>5. CASE SaveSuppressed \/ PassOver
  <2>1. DeskType
    BY <1>5, <1>next, CurrentCall DEF SaveSuppressed, PassOver
  <2> QED
    BY <1>5, <2>1 DEF SaveSuppressed, PassOver
<1>6. CASE SaveRec
  <2>1. Current.id \in Keys
    BY <1>6, EvalAtHand, ProposedId DEF SaveRec
  <2>2. DeskType
    BY <1>6 DEF SaveRec
  <2>3. hour \in 0 .. MaxHour
    BY DEF Hours
  <2> QED
    BY <1>6, <2>1, <2>2, <2>3 DEF SaveRec
<1>7. CASE Broadcast
  <2>1. DeskType
    BY <1>7, <1>next, CurrentCall DEF Broadcast
  <2>2. afterKill' \in Nat
    BY <1>7 DEF Broadcast
  <2> QED
    BY <1>7, <2>1, <2>2 DEF Broadcast
<1>8. CASE MarkSent
  BY <1>8 DEF MarkSent
<1>9. CASE MarkLive
  <2>1. DeskType
    BY <1>9, <1>next, CurrentCall DEF MarkLive
  <2> QED
    BY <1>9, <2>1 DEF MarkLive
<1>10. CASE EndRun
  BY <1>10, <1>away DEF EndRun
<1>11. ASSUME NEW k \in Keys, Close(k)
       PROVE  TypeOK'
  BY <1>11 DEF Close
<1>12. CASE Tick
  <2>1. hour' \in Hours
    BY <1>12 DEF Tick, Hours
  <2> QED
    BY <1>12, <2>1 DEF Tick
<1>13. CASE Raises \/ Crash
  <2>1. faults' \in 0 .. MaxFaults /\ desk' = Away
    BY <1>13 DEF Raises, Crash
  <2>2. ran' \in BOOLEAN
    BY <1>13 DEF Raises, Crash
  <2>3. UNCHANGED <<flags, book, hour, afterKill>>
    BY <1>13 DEF Raises, Crash
  <2> QED
    BY <1>away, <2>1, <2>2, <2>3
<1>14. CASE TelegramAnswers \/ UNCHANGED vars
  BY <1>14 DEF TelegramAnswers, vars
<1> QED
  BY <1>1, <1>2, <1>3, <1>4, <1>5, <1>6, <1>7, <1>8, <1>9, <1>10, <1>11,
     <1>12, <1>13, <1>14, <1>15 DEF Next, Work
-----------------------------------------------------------------------------

\* No call of the plan has an outcome: it would be of this date, and a call is
\* never graded on its date.
LEMMA PlanIsUngraded ==
  ASSUME BookInv, NEW e \in Proposed
  PROVE  outcomes[e.id] = 0
<1>1. e.id \in Keys /\ e.id[1] = Day[hour]
  BY ProposedId
<1>2. outcomes[e.id] \in Nat /\ hour \in Hours
  BY <1>1 DEF BookInv, TypeOK
<1>3. CASE outcomes[e.id] > 0
  <2>1. /\ rec[e.id].issued \in 1 .. hour /\ Day[rec[e.id].issued] = Day[hour]
        /\ hour - rec[e.id].issued >= Horizon
    BY <1>1, <1>3 DEF BookInv, OutcomesAreLate
  <2>2. rec[e.id].issued \in Hours
    BY <1>2, <2>1, BoundsAssumption DEF Hours
  <2>3. hour - rec[e.id].issued < Horizon
    BY <1>2, <2>1, <2>2, HorizonAssumption
  <2> QED
    BY <1>2, <2>1, <2>2, <2>3, BoundsAssumption DEF Hours
<1> QED
  BY <1>2, <1>3

\* Only MarkLive makes a call live, and only Close grades one.
LEMMA BookStep ==
  ASSUME BookInv, [Next]_vars, NEW k \in Keys
  PROVE  \/ rec'[k] = rec[k] /\ outcomes'[k] = outcomes[k]
         \/ /\ SaveRec /\ k = Current.id
            /\ rec[k].state = "absent" /\ outcomes'[k] = outcomes[k]
            /\ rec'[k] = [state |-> "candidate", issued |-> hour]
         \/ /\ MarkLive /\ k = Current.id /\ outcomes'[k] = outcomes[k]
            /\ rec'[k].state = "live" /\ rec'[k].issued = rec[k].issued
         \/ /\ Close(k) /\ outcomes'[k] = 1
            /\ rec'[k].state = "closed" /\ rec'[k].issued = rec[k].issued
<1> USE DEF BookInv, TypeOK
<1>1. CASE SaveRec
  BY <1>1, EvalAtHand, ProposedId DEF SaveRec
<1>2. CASE MarkLive
  BY <1>2, CurrentCall DEF MarkLive
<1>3. ASSUME NEW j \in Keys, Close(j)
      PROVE  \/ rec'[k] = rec[k] /\ outcomes'[k] = outcomes[k]
             \/ /\ Close(k) /\ outcomes'[k] = 1
                /\ rec'[k].state = "closed" /\ rec'[k].issued = rec[k].issued
  BY <1>3 DEF Close
<1>4. CASE UNCHANGED book
  BY <1>4 DEF book
<1> QED
  BY <1>1, <1>2, <1>3, <1>4
  DEF Next, Work, vars, Kill, Unkill, SetPause, StartRun, Judge, ReadPause,
      SaveSuppressed, PassOver, Broadcast, TelegramAnswers, MarkSent, EndRun,
      Tick, Raises, Crash

\* Time goes on only while nobody is at the desk.
LEMMA HourStep ==
  ASSUME BookInv, [Next]_vars
  PROVE  hour' = hour \/ (hour' = hour + 1 /\ desk = Away /\ desk' = Away)
  BY DEF Next, Work, vars, clock, Kill, Unkill, SetPause, StartRun, Judge,
         ReadPause, SaveSuppressed, SaveRec, PassOver, Broadcast,
         TelegramAnswers, MarkSent, MarkLive, EndRun, Close, Tick, Raises, Crash

\* Rows keep the date of their ids, outcomes come late and are never undone.
LEMMA NextOutcomesAreLate == BookInv /\ [Next]_vars => OutcomesAreLate'
<1> SUFFICES ASSUME BookInv, [Next]_vars, NEW k \in Keys
             PROVE  /\ rec'[k].state # "absent" =>
                         /\ rec'[k].issued \in 1 .. hour'
                         /\ Day[rec'[k].issued] = k[1]
                    /\ outcomes'[k] > 0 =>
                         /\ outcomes'[k] = 1 /\ rec'[k].state = "closed"
                         /\ hour' - rec'[k].issued >= Horizon
  BY DEF OutcomesAreLate
<1>1. /\ hour \in Nat \ {0} /\ hour' \in {hour, hour + 1}
      /\ Horizon \in Nat /\ outcomes[k] \in Nat
      /\ rec[k].state # "absent" => /\ rec[k].issued \in 1 .. hour
                                    /\ Day[rec[k].issued] = k[1]
      /\ outcomes[k] > 0 => /\ outcomes[k] = 1 /\ rec[k].state = "closed"
                            /\ hour - rec[k].issued >= Horizon
      /\ rec[k].issued \in Nat
  BY HourStep, BoundsAssumption DEF BookInv, TypeOK, OutcomesAreLate, Hours
<1>2. CASE rec'[k] = rec[k] /\ outcomes'[k] = outcomes[k]
  BY <1>1, <1>2
<1>3. CASE /\ SaveRec /\ k = Current.id
           /\ rec[k].state = "absent" /\ outcomes'[k] = outcomes[k]
           /\ rec'[k] = [state |-> "candidate", issued |-> hour]
  <2>1. k[1] = Day[hour] /\ hour' = hour
    BY <1>3, EvalAtHand, ProposedId DEF SaveRec, clock
  <2> QED
    BY <1>1, <1>3, <2>1
<1>4. CASE /\ MarkLive /\ k = Current.id /\ outcomes'[k] = outcomes[k]
           /\ rec'[k].state = "live" /\ rec'[k].issued = rec[k].issued
  <2>1. rec[k].state # "absent" /\ outcomes[k] = 0 /\ hour' = hour
    BY <1>4, CurrentCall, PlanIsUngraded
    DEF MarkLive, clock, BookInv, CallAtHand
  <2> QED
    BY <1>1, <1>4, <2>1
<1>5. CASE /\ Close(k) /\ outcomes'[k] = 1
           /\ rec'[k].state = "closed" /\ rec'[k].issued = rec[k].issued
  <2>1. /\ rec[k].state = "live" /\ hour - rec[k].issued >= Horizon
        /\ hour' = hour
    BY <1>5 DEF Close, Due, clock
  <2> QED
    BY <1>1, <1>5, <2>1
<1> QED
  BY <1>2, <1>3, <1>4, <1>5, BookStep

\* What a step makes live is the call at hand.
LEMMA LiveStep ==
  ASSUME BookInv, [Next]_vars
  PROVE  LiveSymbols' \subseteq
           LiveSymbols \cup (IF MarkLive THEN {Current.symbol} ELSE {})
<1> SUFFICES ASSUME NEW k \in Keys, rec'[k].state = "live"
             PROVE  \/ k[2] \in LiveSymbols
                    \/ MarkLive /\ k[2] = Current.symbol
  BY DEF LiveSymbols
<1>1. rec[k].state = "live" => k[2] \in LiveSymbols
  BY DEF LiveSymbols
<1>2. MarkLive /\ k = Current.id => k[2] = Current.symbol
  BY CurrentCall DEF MarkLive
<1> QED
  BY <1>1, <1>2, BookStep

\* The book never holds two live calls of a symbol.
LEMMA NextOneLive == BookInv /\ [Next]_vars => OneLiveCallPerSymbol'
<1> SUFFICES ASSUME BookInv, [Next]_vars, NEW j \in Keys, NEW k \in Keys,
                    rec'[j].state = "live", rec'[k].state = "live",
                    j[2] = k[2]
             PROVE  j = k
  BY DEF OneLiveCallPerSymbol
<1>1. ASSUME NEW l \in Keys, rec'[l].state = "live"
      PROVE  rec[l].state = "live" \/ (MarkLive /\ l = Current.id)
  BY <1>1, BookStep
<1>2. ASSUME NEW l \in Keys, rec[l].state = "live", MarkLive
      PROVE  l[2] # Current.id[2]
  <2>1. l[2] \in LiveSymbols
    BY <1>2 DEF LiveSymbols
  <2>2. Current \in Proposed /\ Current.id[2] = Current.symbol
    BY <1>2, CurrentCall DEF MarkLive
  <2> QED
    BY <2>1, <2>2 DEF BookInv, PlanIsSound
<1>3. rec[j].state = "live" /\ rec[k].state = "live" => j = k
  BY DEF BookInv, OneLiveCallPerSymbol
<1> QED
  BY <1>1, <1>2, <1>3
-----------------------------------------------------------------------------

\* The ways in which a step leaves the plan: none of it, all of it, all but the
\* evaluation at hand, or one evaluation more.
LEMMA PlanStep ==
  ASSUME BookInv, [Next]_vars
  PROVE  \/ desk'.evals = <<>>
         \/ /\ desk'.evals = desk.evals /\ hour' = hour /\ ~MarkLive
            /\ desk'.pc = "gates" => desk.pc = "gates" /\ desk'.seq = desk.seq
         \/ NextEval /\ desk.evals # <<>> /\ hour' = hour
         \/ Judge
<1> USE DEF BookInv, TypeOK, clock
<1>1. CASE StartRun
  <2>1. ASSUME NEW ranked, desk' = [Away EXCEPT !.pc = "gates", !.ranked = ranked]
        PROVE  desk'.evals = <<>>
    BY <2>1 DEF Away
  <2>2. Away.evals = <<>>
    BY DEF Away
  <2> QED
    BY <1>1, <2>1, <2>2 DEF StartRun
<1>2. CASE ReadPause \/ SaveRec \/ MarkSent
  BY <1>2 DEF ReadPause, SaveRec, MarkSent, MarkLive, Away, N!MarkSent, N!Idle,
              CallAtHand
<1>3. CASE SaveSuppressed \/ PassOver \/ Broadcast \/ MarkLive
  BY <1>3, CurrentCall
  DEF SaveSuppressed, PassOver, Broadcast, MarkLive
<1>4. CASE EndRun \/ Raises \/ Crash
  BY <1>4 DEF EndRun, Raises, Crash, Away
<1>5. CASE UNCHANGED <<desk, hour>>
  BY <1>5 DEF MarkLive, NextEval
<1>6. CASE Tick
  BY <1>6 DEF Tick, Away
<1> QED
  BY <1>1, <1>2, <1>3, <1>4, <1>5, <1>6
  DEF Next, Work, vars, Kill, Unkill, SetPause, TelegramAnswers, Close

\* The next symbol of the ranking has become a call of the plan.
LEMMA NewCall ==
  ASSUME BookInv, Judge
  PROVE  \E e \in Evals :
           /\ desk'.evals = Append(desk.evals, e)
           /\ desk'.pc = "gates" /\ UNCHANGED <<hour, rec>>
           /\ desk'.seq = IF e.passed THEN desk.seq + 1 ELSE desk.seq
           /\ e.passed =>
                /\ Passes(e.symbol) /\ desk.seq + 1 \in 1 .. MaxCalls
                /\ e.id = CallId(hour, e.symbol, desk.seq + 1)
<1>1. Head(desk.ranked) \in Symbols /\ desk.seq + 1 \in 1 .. MaxCalls
  BY HeadAndTail, BoundsAssumption DEF Judge, BookInv, TypeOK
<1>2. /\ [symbol |-> Head(desk.ranked), passed |-> FALSE, id |-> NoKey] \in Evals
      /\ [symbol |-> Head(desk.ranked), passed |-> TRUE,
          id |-> CallId(hour, Head(desk.ranked), desk.seq + 1)] \in Evals
  BY <1>1, KeyParts DEF Evals, BookInv, TypeOK
<1>3. ASSUME NEW e \in Evals, desk' = Judged(e)
      PROVE  /\ desk'.evals = Append(desk.evals, e)
             /\ desk'.pc = "gates"
             /\ desk'.seq = IF e.passed THEN desk.seq + 1 ELSE desk.seq
  BY <1>3 DEF Judged, Judge, BookInv, TypeOK
<1>4. UNCHANGED <<hour, rec>>
  BY DEF Judge, clock, book
<1>5. CASE desk' = Judged([symbol |-> Head(desk.ranked), passed |-> FALSE,
                           id |-> NoKey])
  BY <1>2, <1>3, <1>4, <1>5
<1>6. CASE /\ Passes(Head(desk.ranked))
           /\ desk' = Judged([symbol |-> Head(desk.ranked), passed |-> TRUE,
                              id |-> CallId(hour, Head(desk.ranked),
                                            desk.seq + 1)])
  BY <1>1, <1>2, <1>3, <1>4, <1>6
<1> QED
  BY <1>5, <1>6 DEF Judge

\* Without evaluations there is no plan.
LEMMA NoPlan ==
  ASSUME desk'.evals = <<>>
  PROVE  Proposed' = {} /\ DOMAIN desk'.evals = {}
  BY DEF Proposed, ToSet

\* The rest of a plan is sound when the plan was.
LEMMA NextPlanIsSound == BookInv /\ [Next]_vars => PlanIsSound'
<1> SUFFICES ASSUME BookInv, [Next]_vars
             PROVE  PlanIsSound'
  OBVIOUS
<1>1. CASE desk'.evals = <<>>
  BY <1>1, NoPlan DEF PlanIsSound
<1>2. CASE /\ desk'.evals = desk.evals /\ hour' = hour /\ ~MarkLive
           /\ desk'.pc = "gates" => desk.pc = "gates" /\ desk'.seq = desk.seq
  <2>1. Proposed' = Proposed /\ LiveSymbols' \subseteq LiveSymbols
    BY <1>2, LiveStep DEF Proposed
  <2> QED
    BY <1>2, <2>1 DEF BookInv, PlanIsSound, CallId
<1>3. CASE NextEval /\ desk.evals # <<>> /\ hour' = hour
  <2>1. desk'.evals = Tail(desk.evals) /\ desk'.pc = "save"
    BY <1>3 DEF NextEval, BookInv, TypeOK
  <2>2. Proposed' \subseteq Proposed
    BY <1>3, <2>1, EvalAtHand DEF Proposed
  <2>3. \A i \in DOMAIN desk'.evals :
          /\ i \in Nat \ {0} /\ i + 1 \in DOMAIN desk.evals
          /\ desk'.evals[i] = desk.evals[i + 1]
    BY <1>3, <2>1, EvalAtHand
  <2>4. ASSUME NEW i \in DOMAIN desk'.evals, NEW j \in DOMAIN desk'.evals,
               desk'.evals[i].passed, desk'.evals[j].passed, i < j
        PROVE  /\ desk'.evals[i].id[3] < desk'.evals[j].id[3]
               /\ desk'.evals[i].symbol # desk'.evals[j].symbol
    <3>1. i + 1 < j + 1
      BY <2>3, <2>4
    <3> QED
      BY <2>3, <2>4, <3>1 DEF BookInv, PlanIsSound
  <2>5. ASSUME NEW e \in Proposed'
        PROVE  e.symbol \notin LiveSymbols'
    <3>1. CASE MarkLive
      <4>1. PICK i \in DOMAIN desk'.evals : e = desk'.evals[i] /\ e.passed
        BY DEF Proposed, ToSet
      <4>2. /\ e = desk.evals[i + 1] /\ i + 1 \in DOMAIN desk.evals
            /\ 1 \in DOMAIN desk.evals /\ 1 < i + 1
            /\ Current = desk.evals[1] /\ Current.passed
        BY <1>3, <2>3, <3>1, <4>1, EvalAtHand, CurrentCall
        DEF MarkLive, Proposed
      <4>3. e.symbol # Current.symbol
        BY <4>1, <4>2 DEF BookInv, PlanIsSound
      <4> QED
        BY <2>2, <4>3, LiveStep DEF BookInv, PlanIsSound
    <3>2. CASE ~MarkLive
      BY <2>2, <3>2, LiveStep DEF BookInv, PlanIsSound
    <3> QED
      BY <3>1, <3>2
  <2> QED
    BY <1>3, <2>1, <2>2, <2>4, <2>5 DEF BookInv, PlanIsSound, CallId
<1>4. CASE Judge
  <2>1. PICK e \in Evals :
          /\ desk'.evals = Append(desk.evals, e)
          /\ desk'.pc = "gates" /\ UNCHANGED <<hour, rec>>
          /\ desk'.seq = IF e.passed THEN desk.seq + 1 ELSE desk.seq
          /\ e.passed =>
               /\ Passes(e.symbol) /\ desk.seq + 1 \in 1 .. MaxCalls
               /\ e.id = CallId(hour, e.symbol, desk.seq + 1)
    BY <1>4, NewCall
  <2>2. /\ Len(desk.evals) \in Nat /\ DOMAIN desk.evals = 1 .. Len(desk.evals)
        /\ DOMAIN desk'.evals = 1 .. Len(desk.evals) + 1
        /\ \A i \in DOMAIN desk.evals : desk'.evals[i] = desk.evals[i]
        /\ desk'.evals[Len(desk.evals) + 1] = e
        /\ ToSet(desk'.evals) = ToSet(desk.evals) \cup {e}
    BY <2>1, AppendOne DEF BookInv, TypeOK
  <2>3. /\ Proposed' = Proposed \cup (IF e.passed THEN {e} ELSE {})
        /\ LiveSymbols' = LiveSymbols /\ desk.pc = "gates"
        /\ desk.seq \in Nat
    BY <1>4, <2>1, <2>2 DEF Proposed, LiveSymbols, Judge, BookInv, TypeOK
  <2>4. \A d \in Proposed : d.id[3] <= desk.seq /\ d.id[3] \in Nat
    BY <2>3, ProposedId DEF BookInv, PlanIsSound
  <2>5. e.passed => /\ e.id[3] = desk.seq + 1 /\ e.symbol \notin LiveSymbols
                    /\ \A d \in Proposed : d.symbol # e.symbol
    BY <2>1, KeyParts DEF Passes, Evals, BookInv, TypeOK
  <2>6. \A d \in Proposed' :
          /\ \E n \in 1 .. MaxCalls : d.id = CallId(hour, d.symbol, n)
          /\ d.id[3] <= desk'.seq
          /\ d.symbol \notin LiveSymbols'
    BY <2>1, <2>3, <2>4, <2>5 DEF BookInv, PlanIsSound
  <2>7. ASSUME NEW i \in DOMAIN desk'.evals, NEW j \in DOMAIN desk'.evals,
               desk'.evals[i].passed, desk'.evals[j].passed, i < j
        PROVE  /\ desk'.evals[i].id[3] < desk'.evals[j].id[3]
               /\ desk'.evals[i].symbol # desk'.evals[j].symbol
    <3>1. i \in DOMAIN desk.evals /\ desk'.evals[i] = desk.evals[i]
          /\ desk.evals[i] \in Proposed
      BY <2>2, <2>7 DEF Proposed, ToSet
    <3>2. CASE j \in DOMAIN desk.evals
      BY <2>2, <2>7, <3>1, <3>2 DEF BookInv, PlanIsSound
    <3>3. CASE j \notin DOMAIN desk.evals
      <4>1. desk'.evals[j] = e /\ e.passed
        BY <2>2, <2>7, <3>3
      <4> QED
        BY <2>3, <2>4, <2>5, <3>1, <4>1
    <3> QED
      BY <3>2, <3>3
  <2> QED
    BY <2>1, <2>6, <2>7 DEF PlanIsSound, CallId
<1> QED
  BY <1>1, <1>2, <1>3, <1>4, PlanStep

\* The desk goes step by step with the call at hand.
LEMMA NextCallAtHand == BookInv /\ [Next]_vars => CallAtHand'
<1> SUFFICES ASSUME BookInv, [Next]_vars
             PROVE  CallAtHand'
  OBVIOUS
<1> USE DEF BookInv, TypeOK, N!TypeOK, CallAtHand
<1>1. CASE SaveRec
  <2>1. /\ desk.evals # <<>> /\ Current.passed /\ Current.id \in Keys
        /\ call["desk"] = N!Idle
    BY <1>1, EvalAtHand, ProposedId DEF SaveRec
  <2>2. /\ rec'[Current.id].state # "absent" /\ Current' = Current
        /\ desk'.evals = desk.evals /\ call' = call
        /\ desk'.pc \in {"live", "broadcast", "pass"}
        /\ desk'.pc = "live" => paper
    BY <1>1, <2>1 DEF SaveRec, Current, ledger
  <2> QED
    BY <1>1, <2>1, <2>2 DEF SaveRec, flags
<1>2. CASE Broadcast
  <2>1. CASE N!ClaimSend("desk", Current.id) /\ desk' = [desk EXCEPT !.pc = "sending"]
    BY <1>2, <2>1 DEF Broadcast, N!ClaimSend, Current, book
  <2>2. CASE NextEval /\ UNCHANGED ledger
    BY <1>2, <2>2 DEF Broadcast, NextEval, ledger
  <2> QED
    BY <1>2, <2>1, <2>2 DEF Broadcast
<1>3. CASE TelegramAnswers
  BY <1>3
  DEF TelegramAnswers, N!SendMarkdown, N!ParseError, N!SendPlain, N!Idle,
      Current, book, flags
<1>4. CASE MarkSent
  <2>1. desk.pc = "sending" /\ Current.id \in Keys
    BY <1>4, CurrentCall DEF MarkSent, N!MarkSent, N!Idle
  <2>2. /\ claims'[Current.id] = "sent" /\ call'["desk"] = N!Idle
        /\ Current' = Current /\ desk'.evals = desk.evals
        /\ desk'.pc = "live"
    BY <1>4, <2>1 DEF MarkSent, N!MarkSent, Current
  <2> QED
    BY <1>4, <2>1, <2>2 DEF MarkSent, book
<1>5. CASE SaveSuppressed \/ PassOver \/ MarkLive
  BY <1>5 DEF SaveSuppressed, PassOver, MarkLive, NextEval, ledger
<1>6. CASE StartRun
  <2>1. desk'.pc \in {"idle", "gates"}
    BY <1>6 DEF StartRun, Away
  <2> QED
    BY <1>6, <2>1 DEF StartRun, ledger, Away
<1>7. CASE Judge \/ ReadPause
  <2>1. desk'.pc \in {"gates", "save"}
    BY <1>7, NewCall DEF ReadPause, Away
  <2> QED
    BY <1>7, <2>1 DEF Judge, ReadPause, ledger
<1>8. CASE EndRun \/ Tick
  BY <1>8 DEF EndRun, Tick, ledger, Away
<1>9. CASE Raises \/ Crash
  <2>1. call'["desk"] = N!Idle /\ desk' = Away
    BY <1>9 DEF Raises, Crash, N!SendRaises, N!MarkRaises, N!Crash, ledger
  <2> QED
    BY <2>1 DEF Away
<1>10. ASSUME NEW k \in Keys, Close(k)
       PROVE  CallAtHand'
  BY <1>10 DEF Close, Away, ledger
<1>11. CASE Kill \/ Unkill \/ \E mode \in PauseModes : SetPause(mode)
  BY <1>11 DEF Kill, Unkill, SetPause, book, ledger, Current
<1>12. CASE UNCHANGED vars
  BY <1>12 DEF vars, flags, book, ledger, Current
<1> QED
  BY <1>1, <1>2, <1>3, <1>4, <1>5, <1>6, <1>7, <1>8, <1>9, <1>10, <1>11,
     <1>12 DEF Next, Work

\* Claims since a kill and the numbers of the run go up together.
LEMMA NextKillIsCounted == BookInv /\ [Next]_vars => KillIsCounted'
<1> SUFFICES ASSUME BookInv, [Next]_vars
             PROVE  KillIsCounted'
  OBVIOUS
<1>types. /\ afterKill \in Nat /\ MaxCalls \in Nat
          /\ \A i \in DOMAIN desk.evals : i \in Nat \ {0}
          /\ \A i \in DOMAIN desk.evals : desk.evals[i].passed =>
               desk.evals[i].id[3] \in 1 .. MaxCalls
  <2>1. DOMAIN desk.evals = 1 .. Len(desk.evals) /\ Len(desk.evals) \in Nat
    BY LenProperties DEF BookInv, TypeOK
  <2>2. ASSUME NEW i \in DOMAIN desk.evals, desk.evals[i].passed
        PROVE  desk.evals[i] \in Proposed
    BY <2>2 DEF Proposed, ToSet
  <2> QED
    BY <2>1, <2>2, ProposedId, BoundsAssumption DEF BookInv, TypeOK
<1>old. KillIsCounted
  BY DEF BookInv
<1>1. CASE Kill \/ Unkill
  <2>1. afterKill' = 0 /\ UNCHANGED desk
    BY <1>1 DEF Kill, Unkill
  <2> QED
    BY <2>1, <1>types DEF KillIsCounted
<1>2. CASE StartRun
  <2>1. killed' = killed /\ afterKill' = afterKill
    BY <1>2 DEF StartRun, flags
  <2>2. CASE UNCHANGED desk
    BY <1>old, <2>1, <2>2 DEF KillIsCounted
  <2>3. CASE desk' # desk
    <3>1. PICK ranked : desk' = [Away EXCEPT !.pc = "gates", !.ranked = ranked]
      BY <1>2, <2>3 DEF StartRun
    <3>2. desk'.evals = <<>> /\ ~killed
      BY <1>2, <2>3, <3>1 DEF StartRun, MayStart, Away
    <3> QED
      BY <1>old, <2>1, <3>2, NoPlan DEF KillIsCounted
  <2> QED
    BY <2>2, <2>3
<1>3. CASE Judge
  <2>1. PICK e \in Evals :
          /\ desk'.evals = Append(desk.evals, e)
          /\ e.passed =>
               /\ desk.seq + 1 \in 1 .. MaxCalls
               /\ e.id = CallId(hour, e.symbol, desk.seq + 1)
    BY <1>3, NewCall
  <2>2. /\ DOMAIN desk'.evals = 1 .. Len(desk.evals) + 1
        /\ DOMAIN desk.evals = 1 .. Len(desk.evals) /\ Len(desk.evals) \in Nat
        /\ \A i \in DOMAIN desk.evals : desk'.evals[i] = desk.evals[i]
        /\ desk'.evals[Len(desk.evals) + 1] = e
    BY <2>1, AppendOne DEF BookInv, TypeOK
  <2>3. e.passed => e.id[3] \in 1 .. MaxCalls
    BY <2>1, KeyParts DEF Evals, BookInv, TypeOK
  <2>4. afterKill' = 0 /\ killed' = killed
    BY <1>3, <1>old DEF Judge, flags, KillIsCounted
  <2>5. ASSUME NEW i \in DOMAIN desk'.evals, desk'.evals[i].passed
        PROVE  0 < desk'.evals[i].id[3]
    BY <1>types, <2>2, <2>3, <2>5
  <2> QED
    BY <2>4, <2>5, <1>types DEF KillIsCounted
<1>4. CASE ReadPause
  <2>1. desk'.evals = desk.evals /\ desk'.pc = "save"
    BY <1>4 DEF ReadPause, Away
  <2>2. afterKill' = 0 /\ afterKill = 0
    BY <1>4, <1>old DEF ReadPause, KillIsCounted
  <2> QED
    BY <1>types, <2>1, <2>2 DEF KillIsCounted
<1>5. CASE Broadcast /\ N!ClaimSend("desk", Current.id)
  <2>1. /\ desk.pc = "broadcast" /\ desk' = [desk EXCEPT !.pc = "sending"]
        /\ afterKill' = IF killed THEN afterKill + 1 ELSE afterKill
        /\ killed' = killed
    <3>1. ~NextEval \/ N!Claimable(Current.id)
      BY <1>5 DEF N!ClaimSend
    <3> QED
      BY <1>5, <3>1 DEF Broadcast, flags, N!ClaimSend
  <2>2. desk'.evals = desk.evals /\ desk'.pc = "sending"
    BY <2>1 DEF BookInv, TypeOK
  <2>3. /\ Current = desk.evals[1] /\ 1 \in DOMAIN desk.evals
        /\ Current.passed
    BY <2>1, EvalAtHand, CurrentCall DEF Proposed
  <2>4. ASSUME NEW i \in DOMAIN desk.evals, desk.evals[i].passed
        PROVE  /\ afterKill < desk.evals[i].id[3]
               /\ i # 1 => desk.evals[1].id[3] < desk.evals[i].id[3]
    BY <1>old, <1>types, <2>1, <2>3, <2>4
    DEF KillIsCounted, BookInv, PlanIsSound
  <2>5. ~killed' => afterKill' = 0
    BY <1>old, <2>1 DEF KillIsCounted
  <2>6. ASSUME NEW i \in DOMAIN desk.evals, desk.evals[i].passed
        PROVE  \/ afterKill' < desk.evals[i].id[3]
               \/ i = 1 /\ afterKill' = desk.evals[i].id[3]
    BY <1>types, <2>1, <2>3, <2>4, <2>6
  <2>7. afterKill' <= MaxCalls
    BY <1>types, <2>1, <2>3, <2>4
  <2> QED
    BY <2>2, <2>5, <2>6, <2>7 DEF KillIsCounted
<1>6. ASSUME NextEval, desk.evals # <<>>, UNCHANGED <<killed, afterKill>>
      PROVE  KillIsCounted'
  <2>1. desk'.evals = Tail(desk.evals) /\ desk'.pc = "save"
    BY <1>6 DEF NextEval, BookInv, TypeOK
  <2>2. ASSUME NEW i \in DOMAIN desk'.evals, desk'.evals[i].passed
        PROVE  afterKill < desk'.evals[i].id[3]
    <3>1. /\ i + 1 \in DOMAIN desk.evals /\ i + 1 # 1
          /\ desk'.evals[i] = desk.evals[i + 1]
      BY <1>6, <2>1, EvalAtHand
    <3> QED
      BY <1>old, <2>2, <3>1 DEF KillIsCounted
  <2> QED
    BY <1>6, <1>old, <2>1, <2>2 DEF KillIsCounted
<1>7. CASE \/ SaveSuppressed \/ PassOver \/ MarkLive
           \/ Broadcast /\ ~N!ClaimSend("desk", Current.id)
  BY <1>6, <1>7, CurrentCall
  DEF SaveSuppressed, PassOver, MarkLive, Broadcast, flags
<1>8. CASE SaveRec \/ MarkSent
  <2>1. /\ desk'.evals = desk.evals /\ UNCHANGED <<killed, afterKill>>
        /\ desk.pc # "gates" /\ desk'.pc # "gates"
        /\ desk.pc = "sending" => desk'.pc = "live"
        /\ desk.pc # "live"
    BY <1>8 DEF SaveRec, MarkSent, flags, BookInv, TypeOK, CallAtHand,
                N!MarkSent, N!Idle
  <2> QED
    BY <1>old, <2>1 DEF KillIsCounted
<1>9. CASE EndRun \/ Raises \/ Crash \/ Tick
  <2>1. desk' = Away /\ UNCHANGED <<killed, afterKill>>
    BY <1>9 DEF EndRun, Raises, Crash, Tick, flags
  <2>2. desk'.evals = <<>> /\ desk'.pc = "idle"
    BY <2>1 DEF Away
  <2> QED
    BY <1>old, <2>1, <2>2, NoPlan DEF KillIsCounted
<1>10. CASE UNCHANGED <<desk, killed, afterKill>>
  BY <1>old, <1>10 DEF KillIsCounted
<1> QED
  BY <1>1, <1>2, <1>3, <1>4, <1>5, <1>7, <1>8, <1>9, <1>10
  DEF Next, Work, SetPause, TelegramAnswers, Close, vars, flags
-----------------------------------------------------------------------------

\* The book is sound in every state: well-typed, one live call per symbol,
\* through pauses, failed runs and restarts.
THEOREM BookIsSound == Spec => []BookInv
<1>1. BookInv /\ [Next]_vars => BookInv'
  BY NextTypeOK, StepOfNotifier, LedgerStep, NextOneLive, NextOutcomesAreLate,
     NextPlanIsSound, NextCallAtHand, NextKillIsCounted DEF BookInv
<1> QED
  BY <1>1, InitBookInv, PTL DEF Spec

\* A kill lets at most the calls of one run out, whenever it comes.
THEOREM KillStops == Spec => []KillStopsTheNextRun
<1>1. BookInv => KillStopsTheNextRun
  BY DEF BookInv, KillIsCounted, KillStopsTheNextRun
<1> QED
  BY <1>1, BookIsSound, PTL

\* A live or graded call has its one message in the channel, recorded as sent.
THEOREM LiveIsPublic == Spec => []LiveCallIsPublic
<1>1. Init => LiveCallIsPublic
  BY DEF Init, LiveCallIsPublic
<1>2. BookInv /\ LiveCallIsPublic /\ [Next]_vars => LiveCallIsPublic'
  <2> SUFFICES ASSUME BookInv, LiveCallIsPublic, [Next]_vars, ~paper',
                      NEW k \in Keys, rec'[k].state \in {"live", "closed"}
               PROVE  claims'[k] = "sent" /\ delivered'[k] = 1
    BY DEF LiveCallIsPublic
  <2>1. N!IInv' /\ (claims[k] = "sent" => claims'[k] = "sent")
    BY StepOfNotifier, LedgerStep DEF BookInv
  <2>2. paper' = paper
    BY DEF Next, Work, vars, flags, Kill, Unkill, SetPause, StartRun, Judge,
           ReadPause, SaveSuppressed, SaveRec, PassOver, Broadcast,
           TelegramAnswers, MarkSent, MarkLive, EndRun, Close, Tick, Raises,
           Crash
  <2>3. claims[k] = "sent"
    <3>1. CASE rec[k].state \in {"live", "closed"}
      BY <2>2, <3>1 DEF LiveCallIsPublic
    <3>2. CASE MarkLive /\ k = Current.id
      BY <2>2, <3>2 DEF MarkLive, BookInv, CallAtHand
    <3>3. CASE Close(k)
      BY <2>2, <3>3 DEF Close, Due, LiveCallIsPublic
    <3> QED
      BY <3>1, <3>2, <3>3, BookStep
  <2> QED
    BY <2>1, <2>3 DEF N!IInv, N!SentWasDelivered
<1> QED
  BY <1>1, <1>2, BookIsSound, PTL DEF Spec

\* No step takes a graded call out of its final state.
THEOREM ClosedStaysClosed == Spec => ClosedForGood
<1>1. BookInv /\ [Next]_vars =>
        [\A k \in Keys : outcomes[k] = 1 => rec'[k].state = "closed"]_vars
  <2> SUFFICES ASSUME BookInv, [Next]_vars, NEW k \in Keys, outcomes[k] = 1
               PROVE  rec'[k].state = "closed"
    OBVIOUS
  <2>1. rec[k].state = "closed"
    BY DEF BookInv, OutcomesAreLate
  <2>2. ~(MarkLive /\ k = Current.id)
    BY CurrentCall, PlanIsUngraded DEF MarkLive
  <2> QED
    BY <2>1, <2>2, BookStep
<1> QED
  BY <1>1, BookIsSound, PTL DEF Spec, ClosedForGood

\* The narratives of a plan are different.
PlanIsSpread ==
  \A i, j \in DOMAIN desk.evals :
    /\ desk.evals[i].passed /\ desk.evals[j].passed /\ i < j
    /\ Narrative[desk.evals[i].symbol] = Narrative[desk.evals[j].symbol]
    => Narrative[desk.evals[i].symbol] = NoNarrative

\* A plan of different symbols, numbers and narratives is spread.
LEMMA SpreadPlan ==
  ASSUME BookInv, PlanIsSpread
  PROVE  RunIsSpread
<1> SUFFICES ASSUME NEW i \in DOMAIN desk.evals, NEW j \in DOMAIN desk.evals,
                    desk.evals[i].passed, desk.evals[j].passed, i # j
             PROVE  /\ desk.evals[i].symbol # desk.evals[j].symbol
                    /\ desk.evals[i].id # desk.evals[j].id
                    /\ Narrative[desk.evals[i].symbol] =
                         Narrative[desk.evals[j].symbol]
                         => Narrative[desk.evals[i].symbol] = NoNarrative
  BY DEF RunIsSpread
<1>1. i < j \/ j < i
  BY LenProperties DEF BookInv, TypeOK
<1>2. desk.evals[i] \in Proposed /\ desk.evals[j] \in Proposed
  BY DEF Proposed, ToSet
<1>3. desk.evals[i].id[3] \in Nat /\ desk.evals[j].id[3] \in Nat
  BY <1>2, ProposedId
<1>4. /\ desk.evals[i].symbol # desk.evals[j].symbol
      /\ desk.evals[i].id[3] # desk.evals[j].id[3]
  BY <1>1, <1>3 DEF BookInv, PlanIsSound
<1> QED
  BY <1>1, <1>4 DEF PlanIsSpread

\* A run proposes each symbol and each narrative once, whatever the ranking.
THEOREM RunsAreSpread == Spec => []RunIsSpread
<1>1. Init => PlanIsSpread
  BY DEF Init, Away, PlanIsSpread
<1>2. BookInv /\ PlanIsSpread /\ [Next]_vars => PlanIsSpread'
  <2> SUFFICES ASSUME BookInv, PlanIsSpread, [Next]_vars
               PROVE  PlanIsSpread'
    OBVIOUS
  <2>1. CASE desk'.evals = <<>>
    BY <2>1, NoPlan DEF PlanIsSpread
  <2>2. CASE desk'.evals = desk.evals
    BY <2>2 DEF PlanIsSpread
  <2>3. CASE NextEval /\ desk.evals # <<>>
    <3>1. \A i \in DOMAIN desk'.evals :
            /\ i \in Nat \ {0} /\ i + 1 \in DOMAIN desk.evals
            /\ desk'.evals[i] = desk.evals[i + 1]
      BY <2>3, EvalAtHand DEF NextEval, BookInv, TypeOK
    <3>2. \A i, j \in DOMAIN desk'.evals : i < j => i + 1 < j + 1
      BY <3>1
    <3> QED
      BY <3>1, <3>2 DEF PlanIsSpread
  <2>4. CASE Judge
    <3>1. PICK e \in Evals :
            /\ desk'.evals = Append(desk.evals, e)
            /\ e.passed => Passes(e.symbol)
      BY <2>4, NewCall
    <3>2. /\ Len(desk.evals) \in Nat /\ DOMAIN desk.evals = 1 .. Len(desk.evals)
          /\ DOMAIN desk'.evals = 1 .. Len(desk.evals) + 1
          /\ \A i \in DOMAIN desk.evals : desk'.evals[i] = desk.evals[i]
          /\ desk'.evals[Len(desk.evals) + 1] = e
      BY <3>1, AppendOne DEF BookInv, TypeOK
    <3>3. ASSUME NEW i \in DOMAIN desk'.evals, NEW j \in DOMAIN desk'.evals,
                 desk'.evals[i].passed, desk'.evals[j].passed, i < j,
                 Narrative[desk'.evals[i].symbol] =
                   Narrative[desk'.evals[j].symbol]
          PROVE  Narrative[desk'.evals[i].symbol] = NoNarrative
      <4>1. i \in DOMAIN desk.evals /\ desk'.evals[i] = desk.evals[i]
            /\ desk.evals[i] \in Proposed
        BY <3>2, <3>3 DEF Proposed, ToSet
      <4>2. CASE j \in DOMAIN desk.evals
        BY <3>2, <3>3, <4>1, <4>2 DEF PlanIsSpread
      <4>3. CASE j \notin DOMAIN desk.evals
        <5>1. desk'.evals[j] = e /\ e.passed
          BY <3>2, <3>3, <4>3
        <5> QED
          BY <3>1, <3>3, <4>1, <5>1 DEF Passes, SelectedNarratives
      <4> QED
        BY <4>2, <4>3
    <3> QED
      BY <3>3 DEF PlanIsSpread
  <2> QED
    BY <2>1, <2>2, <2>3, <2>4, PlanStep
<1>3. BookInv /\ PlanIsSpread => RunIsSpread
  BY SpreadPlan
<1> QED
  BY <1>1, <1>2, <1>3, BookIsSound, PTL DEF Spec

\* The desk uses the notifier as the notifier asks to be used.
THEOREM DeskUsesNotifier == Spec => N!Spec
<1>1. Init => N!Init
  BY DEF Init
<1>2. BookInv /\ [Next]_vars => [N!Next]_(N!vars)
  BY StepOfNotifier DEF ledger, N!vars
<1> QED
  BY <1>1, <1>2, BookIsSound, PTL DEF Spec, N!Spec
=============================================================================
