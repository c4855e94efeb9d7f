--------------------------- MODULE CallScanProofs ---------------------------
(***************************************************************************)
(* Proofs about CallScan, for any posts, symbols, readings, batch size and *)
(* number of faults.                                                       *)
(*                                                                         *)
(* ScanInv is inductive as it stands.  The cursor rows of a batch are      *)
(* written long after its posts were read, so ScannedIsComplete needs      *)
(* ReadIsKept, a promise the run keeps from one post to the next; and a    *)
(* message goes out for the call at hand, so AnnouncedIsTracked needs      *)
(* CallAtHand.                                                             *)
(***************************************************************************)
EXTENDS CallScan, SequenceTheorems, FiniteSetTheorems, TLAPS

-----------------------------------------------------------------------------
(* Sequences                                                               *)

\* The elements of a sequence.
LEMMA ElementsOfSeq ==
  ASSUME NEW S, NEW s \in Seq(S)
  PROVE  ToSet(s) \subseteq S
  BY LenProperties, ElementOfSeq DEF ToSet

\* The first element of a sequence, and what the rest of it holds.
LEMMA HeadAndTail ==
  ASSUME NEW S, NEW s \in Seq(S), s # <<>>
  PROVE  /\ Head(s) \in S
         /\ Tail(s) \in Seq(S)
         /\ ToSet(s) = {Head(s)} \cup ToSet(Tail(s))
<1>1. PICK h \in S, t \in Seq(S) : h = Head(s) /\ t = Tail(s)
  BY HeadTailProperties
<1>2. <<h>> \in Seq(S) /\ Len(<<h>>) = 1 /\ <<h>>[1] = h /\ Range(<<h>>) = {h}
  BY DEF Range
<1>3. PICK one \in Seq(S) : one = <<h>>
  BY <1>2
<1>4. s = one \o t
  <2>1. one \o t \in Seq(S) /\ Len(one \o t) = Len(s)
    BY <1>1, <1>2, <1>3, HeadTailProperties, ConcatProperties, LenProperties
  <2>2. \A i \in 1 .. Len(s) : s[i] = (one \o t)[i]
    BY <1>1, <1>2, <1>3, HeadTailProperties, ConcatProperties, LenProperties
  <2> QED
    BY <2>1, <2>2, SeqEqual
<1>5. Range(s) = {h} \cup Range(t)
  <2>1. Range(one \o t) = Range(one) \cup Range(t)
    BY RangeConcatenation
  <2> QED
    BY <1>2, <1>3, <1>4, <2>1
<1> QED
  BY <1>1, <1>5 DEF ToSet, Range

-----------------------------------------------------------------------------

NP == INSTANCE NotifierProofs WITH Senders <- {"scan"}

\* What is proved of the notifier holds of the ledger the scan works on.
LEMMA LedgerStep == N!IInv /\ [N!Next]_ledger => N!IInv'
  BY NP!NextIInv, NoKeyAssumption
  DEF ledger, NP!vars, NP!IInv, N!IInv, NP!TypeOK, N!TypeOK,
      NP!CallHasKey, N!CallHasKey, NP!ClaimIsExclusive, N!ClaimIsExclusive,
      NP!NotYetShown, N!NotYetShown, NP!AtMostOneMessage, N!AtMostOneMessage,
      NP!SentWasDelivered, N!SentWasDelivered, NP!Idle, N!Idle,
      NP!Next, N!Next, NP!Progress, N!Progress, NP!Crash, N!Crash,
      NP!ClaimSend, N!ClaimSend, NP!ClaimAnswerLost, N!ClaimAnswerLost,
      NP!Claimable, N!Claimable, NP!SendMarkdown, N!SendMarkdown,
      NP!ParseError, N!ParseError, NP!SendPlain, N!SendPlain,
      NP!SendRaises, N!SendRaises, NP!ClaimAfterRaise, N!ClaimAfterRaise,
      NP!MarkSent, N!MarkSent, NP!MarkRaises, N!MarkRaises,
      NP!InChannel, N!InChannel

\* An empty ledger is a good one.
LEMMA LedgerInit == N!Init => N!IInv
  BY NP!InitIInv, NoKeyAssumption
  DEF NP!IInv, N!IInv, NP!TypeOK, N!TypeOK,
      NP!CallHasKey, N!CallHasKey, NP!ClaimIsExclusive, N!ClaimIsExclusive,
      NP!NotYetShown, N!NotYetShown, NP!AtMostOneMessage, N!AtMostOneMessage,
      NP!SentWasDelivered, N!SentWasDelivered, NP!Idle, N!Idle,
      NP!Init, N!Init

\* The post at hand, while there is one.
LEMMA PostAtHand ==
  ASSUME ScanInv, scan.batch # <<>>
  PROVE  Post \in posted /\ Post \in Posts /\ Tail(scan.batch) \in Seq(posted)
  BY HeadAndTail DEF ScanInv, TypeOK, Post

\* The call at hand, while there is one.
LEMMA CallIsAtHand ==
  ASSUME ScanInv, scan.batch # <<>>, scan.found # <<>>
  PROVE  /\ Key \in Keys /\ Key = <<Post, Head(scan.found)>>
         /\ Tail(scan.found) \in Seq(Symbols)
         /\ ToSet(scan.found) = {Head(scan.found)} \cup ToSet(Tail(scan.found))
<1>1. Head(scan.found) \in Symbols
  BY HeadAndTail DEF ScanInv, TypeOK
<1> QED
  BY <1>1, PostAtHand, HeadAndTail DEF ScanInv, TypeOK, Key, Keys

-----------------------------------------------------------------------------
\* What the scan does to the ledger are the steps of one notifier call.
LEMMA StepOfNotifier == ScanInv /\ [Next]_vars => [N!Next]_ledger
<1> SUFFICES ASSUME ScanInv, Next, ~UNCHANGED ledger
             PROVE  N!Next
  BY DEF vars
<1> USE DEF ScanInv
<1>1. CASE Notify
  <2>1. Key \in Keys /\ N!ClaimSend("scan", Key)
    BY <1>1, CallIsAtHand DEF Notify, CallAtHand
  <2> QED
    BY <2>1 DEF N!Next
<1>2. CASE TelegramAnswers
  BY <1>2 DEF TelegramAnswers, N!Next, N!Progress
<1>3. CASE MarkSent
  BY <1>3 DEF MarkSent, N!Next, N!Progress
<1>4. CASE Raises
  BY <1>4 DEF Raises, N!Next, N!Progress
<1>5. CASE Crash
  BY <1>5 DEF Crash, N!Next
<1> QED
  BY <1>1, <1>2, <1>3, <1>4, <1>5
  DEF Next, Work, Store, StartScan, Extract, ExtractRaises, ExtractFailsOnce,
      SaveCall, NextPost, MarkScanned, CloseCall
\* The scan starts with empty tables and nothing at hand.
LEMMA InitScanInv == Init => ScanInv
  BY LedgerInit, EmptySeq, BoundsAssumption
  DEF Init, Resting, ScanInv, TypeOK, N!IInv, N!Init, AnnouncedIsTracked,
      ScannedIsComplete, CallAtHand, ReadIsKept

\* A batch is a sequence of stored posts.
LEMMA BatchOfPosts ==
  ASSUME ScanInv, NEW batch \in [1 .. Cardinality(Unscanned) -> Unscanned]
  PROVE  batch \in Seq(posted)
<1>1. Unscanned \subseteq posted /\ IsFiniteSet(Unscanned)
  BY FS_Subset, PostsAssumption DEF ScanInv, TypeOK, Unscanned
<1>2. Cardinality(Unscanned) \in Nat
  BY <1>1, FS_CardinalityType
<1>3. batch \in Seq(Unscanned)
  BY <1>2, SeqDef
<1> QED
  BY <1>1, <1>3, SeqMonotonic

\* A call that has a row keeps one.
LEMMA CallsStay ==
  ASSUME ScanInv, [Next]_vars, NEW k \in Keys, calls[k] # "none"
  PROVE  calls'[k] # "none"
  BY DEF ScanInv, TypeOK, Next, Work, vars, Store, StartScan, Extract,
         ExtractRaises, ExtractFailsOnce, SaveCall, Notify, TelegramAnswers,
         MarkSent, NextPost, MarkScanned, Raises, Crash, CloseCall

\* Every step leaves the tables and the scan well-typed.
LEMMA NextTypeOK == ScanInv /\ [Next]_vars => TypeOK'
<1> SUFFICES ASSUME ScanInv, [Next]_vars
             PROVE  TypeOK'
  OBVIOUS
<1>ledger. N!TypeOK'
  BY StepOfNotifier, LedgerStep DEF ScanInv, N!IInv
<1> USE <1>ledger, BoundsAssumption DEF ScanInv, TypeOK, CallAtHand
<1>1. ASSUME NEW p \in Posts, Store(p)
      PROVE  TypeOK'
  <2>1. scan.batch \in Seq(posted')
    BY <1>1, SeqMonotonic DEF Store
  <2> QED
    BY <1>1, <2>1 DEF Store
<1>2. CASE StartScan
  <2>1. PICK batch \in Seq(posted) :
          scan' = [Resting EXCEPT !.pc = "extract", !.batch = batch]
    BY <1>2, BatchOfPosts DEF StartScan
  <2> QED
    BY <1>2, <2>1, EmptySeq DEF StartScan, Resting
<1>3. CASE Extract
  <2>1. PICK r \in Extractions[Post] :
          scan' = [scan EXCEPT !.pc = "save", !.found = r,
                               !.ids = @ \cup {Post}]
    BY <1>3 DEF Extract
  <2>2. Post \in posted /\ r \in Seq(Symbols)
    BY <1>3, PostAtHand, ExtractionsAssumption DEF Extract
  <2>3. scan' \in [pc : {"save"}, batch : Seq(posted), found : Seq(Symbols),
                   ids : SUBSET posted]
    BY <2>1, <2>2
  <2> QED
    BY <1>3, <2>3 DEF Extract
<1>4. CASE ExtractRaises \/ ExtractFailsOnce
  <2>1. Tail(scan.batch) \in Seq(posted)
    BY <1>4, PostAtHand DEF ExtractRaises, ExtractFailsOnce
  <2>2. scan' = [scan EXCEPT !.batch = Tail(scan.batch)]
    BY <1>4 DEF ExtractRaises, ExtractFailsOnce, SkipPost
  <2>3. faults' \in 0 .. MaxFaults
    BY <1>4 DEF ExtractRaises, ExtractFailsOnce
  <2> QED
    BY <1>4, <2>1, <2>2, <2>3 DEF ExtractRaises, ExtractFailsOnce
<1>5. CASE SaveCall
  <2>1. Key \in Keys /\ Tail(scan.found) \in Seq(Symbols)
    BY <1>5, CallIsAtHand DEF SaveCall
  <2> QED
    BY <1>5, <2>1 DEF SaveCall, NextCall
<1>6. CASE Notify \/ MarkSent
  <2>1. scan.pc \in {"notify", "sending"}
    BY <1>6 DEF Notify, MarkSent, N!MarkSent, N!Idle
  <2>2. Tail(scan.found) \in Seq(Symbols)
    BY <2>1, CallIsAtHand
  <2> QED
    BY <1>6, <2>2 DEF Notify, MarkSent, NextCall
<1>7. CASE NextPost
  BY <1>7, PostAtHand DEF NextPost
<1>8. CASE MarkScanned
  BY <1>8, EmptySeq DEF MarkScanned, Resting
<1>9. CASE Raises \/ Crash
  <2>1. faults' \in 0 .. MaxFaults
    BY <1>9 DEF Raises, Crash
  <2>2. scan' = Resting /\ UNCHANGED <<posted, calls, scanned>>
    BY <1>9 DEF Raises, Crash, Abandon
  <2> QED
    BY <2>1, <2>2, EmptySeq DEF Resting
<1>10. ASSUME NEW k \in Keys, CloseCall(k)
       PROVE  TypeOK'
  BY <1>10 DEF CloseCall
<1>11. CASE TelegramAnswers \/ UNCHANGED vars
  BY <1>11 DEF TelegramAnswers, vars
<1> QED
  BY <1>1, <1>2, <1>3, <1>4, <1>5, <1>6, <1>7, <1>8, <1>9, <1>10, <1>11
  DEF Next, Work

\* What is announced is the call at hand, and that one has its row.
LEMMA NextAnnounced == ScanInv /\ [Next]_vars => AnnouncedIsTracked'
<1> SUFFICES ASSUME ScanInv, [Next]_vars, NEW k \in Keys, claims'[k] # "none"
             PROVE  calls'[k] # "none"
  BY DEF AnnouncedIsTracked
<1>1. CASE claims[k] # "none"
  BY <1>1, CallsStay DEF ScanInv, AnnouncedIsTracked
<1>2. CASE claims[k] = "none" /\ Notify /\ N!ClaimSend("scan", Key)
  <2>1. Key \in Keys /\ k = Key
    BY <1>2, CallIsAtHand
    DEF Notify, ScanInv, TypeOK, N!TypeOK, CallAtHand, N!ClaimSend
  <2> QED
    BY <1>2, <2>1 DEF Notify, ScanInv, CallAtHand
<1>3. CASE claims[k] = "none" /\ ~(Notify /\ N!ClaimSend("scan", Key))
  <2> USE DEF ScanInv, N!IInv, N!TypeOK, N!ClaimIsExclusive, N!CallHasKey,
              N!Idle
  <2>1. CASE N!MarkSent("scan")
    BY <1>3, <2>1 DEF N!MarkSent
  <2>2. CASE N!SendRaises("scan")
    BY <1>3, <2>2 DEF N!SendRaises, N!ClaimAfterRaise
  <2>3. CASE UNCHANGED claims
    BY <1>3, <2>3
  <2> QED
    BY <1>3, <2>1, <2>2, <2>3
    DEF Next, Work, vars, ledger, Store, StartScan, Extract, ExtractRaises,
        ExtractFailsOnce, SaveCall, Notify, TelegramAnswers, MarkSent,
        NextPost, MarkScanned, Raises, Crash, CloseCall, N!SendMarkdown,
        N!ParseError, N!SendPlain, N!MarkRaises, N!Crash
<1> QED
  BY <1>1, <1>2, <1>3

\* The cursor rows of the batch are written when every post of it has its calls.
LEMMA NextScanned == ScanInv /\ [Next]_vars => ScannedIsComplete'
<1> SUFFICES ASSUME ScanInv, [Next]_vars, NEW p \in scanned'
             PROVE  \E r \in Extractions[p] :
                      \A s \in ToSet(r) : calls'[<<p, s>>] # "none"
  BY DEF ScannedIsComplete
<1>1. PICK r \in Extractions[p] :
        p \in Posts /\ \A s \in ToSet(r) : calls[<<p, s>>] # "none"
  <2>1. CASE p \in scanned
    BY <2>1 DEF ScanInv, TypeOK, ScannedIsComplete
  <2>2. CASE p \notin scanned
    <3>1. MarkScanned /\ p \in scan.ids
      BY <2>2
      DEF Next, Work, vars, Store, StartScan, Extract, ExtractRaises,
          ExtractFailsOnce, SaveCall, Notify, TelegramAnswers, MarkSent,
          NextPost, MarkScanned, Raises, Crash, Abandon, CloseCall
    <3> QED
      BY <3>1 DEF ScanInv, TypeOK, ReadIsKept, MarkScanned
  <2> QED
    BY <2>1, <2>2
<1>2. \A s \in ToSet(r) : <<p, s>> \in Keys
  <2>1. r \in Seq(Symbols)
    BY <1>1, ExtractionsAssumption
  <2> QED
    BY <1>1, <2>1, ElementsOfSeq DEF Keys
<1> QED
  BY <1>1, <1>2, CallsStay
\* A call at hand is saved before its message is claimed, and the scan leaves
\* the notifier before it goes on.
LEMMA NextCallAtHand == ScanInv /\ [Next]_vars => CallAtHand'
<1> SUFFICES ASSUME ScanInv, [Next]_vars
             PROVE  CallAtHand'
  OBVIOUS
<1> USE DEF CallAtHand
<1>1. CASE SaveCall
  <2>1. Key \in Keys
    BY <1>1, CallIsAtHand DEF SaveCall, ScanInv
  <2> QED
    BY <1>1, <2>1
    DEF SaveCall, NextCall, ScanInv, TypeOK, ledger, Key, Post
<1>2. CASE Notify
  BY <1>2 DEF Notify, NextCall, ScanInv, TypeOK, ledger, Key, Post
<1>3. CASE TelegramAnswers
  BY <1>3
  DEF TelegramAnswers, ScanInv, N!SendMarkdown, N!ParseError, N!SendPlain,
      N!Idle, Key, Post
<1>4. CASE MarkSent
  BY <1>4 DEF MarkSent, NextCall, N!MarkSent, ScanInv, TypeOK, N!TypeOK,
              N!Idle
<1>5. CASE StartScan \/ Extract \/ ExtractRaises \/ ExtractFailsOnce \/ NextPost
  BY <1>5
  DEF StartScan, Extract, ExtractRaises, ExtractFailsOnce, SkipPost, NextPost,
      ScanInv, TypeOK, Resting, ledger
<1>6. CASE MarkScanned
  BY <1>6 DEF MarkScanned, ScanInv, Resting, ledger
<1>7. CASE Raises \/ Crash
  <2>1. scan' = Resting /\ call'["scan"] = N!Idle
    BY <1>7
    DEF Raises, Crash, Abandon, N!SendRaises, N!MarkRaises, N!Crash, ScanInv,
        TypeOK, N!TypeOK, ledger
  <2> QED
    BY <2>1 DEF Resting
<1>8. CASE UNCHANGED <<scan, ledger>>
  <2>1. scan.pc \in {"notify", "sending"} => Key \in Keys
    BY CallIsAtHand DEF ScanInv
  <2> QED
    BY <1>8, <2>1, CallsStay DEF ScanInv, ledger, Key, Post
<1> QED
  BY <1>1, <1>2, <1>3, <1>4, <1>5, <1>6, <1>7, <1>8
  DEF Next, Work, vars, Store, CloseCall

\* A call of a reading of a post, once it has a row, keeps it.
LEMMA ReadCallsStay ==
  ASSUME ScanInv, [Next]_vars, NEW p \in Posts, NEW r \in Extractions[p],
         NEW s \in ToSet(r), calls[<<p, s>>] # "none"
  PROVE  calls'[<<p, s>>] # "none"
<1>1. s \in Symbols
  BY ExtractionsAssumption, ElementsOfSeq
<1> QED
  BY <1>1, CallsStay DEF Keys

\* Reading a post, saving a call of it and going on keep the promise about all
\* the posts of the run.
LEMMA NextReadIsKept == ScanInv /\ [Next]_vars => ReadIsKept'
<1> SUFFICES ASSUME ScanInv, [Next]_vars
             PROVE  ReadIsKept'
  OBVIOUS
<1> DEFINE Done(p, r) == \A s \in ToSet(r) : calls'[<<p, s>>] # "none"
           Kept(p, r) == \A s \in ToSet(r) :
                           \/ calls'[<<p, s>>] # "none"
                           \/ p = Post /\ s \in ToSet(scan.found)
<1>1. scan.ids \subseteq Posts
  BY DEF ScanInv, TypeOK
<1>2. \A p \in scan.ids : \E r \in Extractions[p] : Kept(p, r)
  <2> TAKE p \in scan.ids
  <2>1. PICK r \in Extractions[p] : \A s \in ToSet(r) :
          \/ calls[<<p, s>>] # "none"
          \/ scan.pc # "extract" /\ p = Post /\ s \in ToSet(scan.found)
    BY DEF ScanInv, ReadIsKept
  <2> QED
    BY <1>1, <2>1, ReadCallsStay
<1>3. ASSUME scan.pc = "extract" \/ scan.found = <<>>
      PROVE  \A p \in scan.ids : \E r \in Extractions[p] : Done(p, r)
  <2> TAKE p \in scan.ids
  <2>1. PICK r \in Extractions[p] : \A s \in ToSet(r) :
          \/ calls[<<p, s>>] # "none"
          \/ scan.pc # "extract" /\ p = Post /\ s \in ToSet(scan.found)
    BY DEF ScanInv, ReadIsKept
  <2>2. \A s \in ToSet(r) : calls[<<p, s>>] # "none"
    BY <1>3, <2>1 DEF ToSet
  <2> QED
    BY <1>1, <2>1, <2>2, ReadCallsStay
<1>4. CASE scan'.ids = {}
  BY <1>4 DEF ReadIsKept
<1>5. CASE Extract
  <2>1. PICK r \in Extractions[Post] :
          scan' = [scan EXCEPT !.pc = "save", !.found = r,
                               !.ids = @ \cup {Post}]
    BY <1>5 DEF Extract
  <2>2. /\ Post' = Post /\ scan'.found = r /\ scan'.pc = "save"
        /\ scan'.ids = scan.ids \cup {Post}
    BY <2>1 DEF Post, ScanInv, TypeOK
  <2>3. \A p \in scan.ids : \E q \in Extractions[p] : Done(p, q)
    BY <1>3, <1>5 DEF Extract
  <2> QED
    BY <2>1, <2>2, <2>3 DEF ReadIsKept
<1>6. ASSUME scan'.ids = scan.ids, scan.pc = "extract" \/ scan.found = <<>>
      PROVE  ReadIsKept'
  BY <1>3, <1>6 DEF ReadIsKept
<1>7. ASSUME UNCHANGED <<scan.ids, scan.batch, scan.found>>,
             scan'.pc # "extract"
      PROVE  ReadIsKept'
  <2>1. Post' = Post
    BY <1>7 DEF Post
  <2> QED
    BY <1>2, <1>7, <2>1 DEF ReadIsKept
<1>8. ASSUME scan.pc \in {"save", "notify", "sending"}, scan.found # <<>>,
             calls'[Key] # "none", NextCall
      PROVE  ReadIsKept'
  <2>1. scan.batch # <<>>
    BY <1>8 DEF ScanInv, CallAtHand
  <2>2. /\ Key = <<Post, Head(scan.found)>>
        /\ ToSet(scan.found) = {Head(scan.found)} \cup ToSet(Tail(scan.found))
    BY <1>8, <2>1, CallIsAtHand
  <2>3. /\ Post' = Post /\ scan'.pc = "save" /\ scan'.ids = scan.ids
        /\ scan'.found = Tail(scan.found)
    BY <1>8 DEF NextCall, Post, ScanInv, TypeOK
  <2>4. ASSUME NEW p \in scan.ids, NEW r \in Extractions[p], Kept(p, r),
               NEW s \in ToSet(r)
        PROVE  \/ calls'[<<p, s>>] # "none"
               \/ p = Post /\ s \in ToSet(scan'.found)
    <3>1. CASE p = Post /\ s = Head(scan.found)
      BY <1>8, <2>2, <3>1
    <3>2. CASE ~(p = Post /\ s = Head(scan.found))
      BY <2>2, <2>3, <2>4, <3>2
    <3> QED
      BY <3>1, <3>2
  <2> QED
    BY <1>2, <2>3, <2>4 DEF ReadIsKept
<1>9. CASE UNCHANGED scan
  BY <1>3, <1>7, <1>9 DEF ReadIsKept
<1>10. CASE SaveCall
  <2>1. scan.batch # <<>> /\ scan.found # <<>> /\ scan.pc = "save"
    BY <1>10 DEF SaveCall, ScanInv, CallAtHand
  <2>2. Key \in Keys
    BY <2>1, CallIsAtHand
  <2>3. calls'[Key] # "none"
    BY <1>10, <2>2 DEF SaveCall, Saved, ScanInv, TypeOK
  <2>4. CASE NextCall
    BY <1>8, <2>1, <2>3, <2>4
  <2>5. CASE scan' = [scan EXCEPT !.pc = "notify"]
    BY <1>7, <2>5 DEF ScanInv, TypeOK
  <2> QED
    BY <1>10, <2>4, <2>5 DEF SaveCall
<1>11. CASE Notify \/ MarkSent
  <2>1. scan.pc \in {"notify", "sending"}
    BY <1>11 DEF Notify, MarkSent, N!MarkSent, N!Idle, ScanInv, CallAtHand
  <2>2. scan.batch # <<>> /\ scan.found # <<>> /\ calls[Key] # "none"
    BY <2>1 DEF ScanInv, CallAtHand
  <2>3. calls'[Key] # "none"
    BY <2>2, CallIsAtHand, CallsStay
  <2>4. CASE NextCall
    BY <1>8, <2>1, <2>2, <2>3, <2>4
  <2>5. CASE scan' = [scan EXCEPT !.pc = "sending"]
    BY <1>7, <2>5 DEF ScanInv, TypeOK
  <2> QED
    BY <1>11, <2>4, <2>5 DEF Notify, MarkSent
<1>12. CASE ExtractRaises \/ ExtractFailsOnce \/ NextPost
  BY <1>6, <1>12
  DEF ExtractRaises, ExtractFailsOnce, SkipPost, NextPost, ScanInv, TypeOK
<1>13. CASE MarkScanned \/ Raises \/ Crash
  BY <1>4, <1>13 DEF MarkScanned, Raises, Crash, Abandon, Resting
<1>14. CASE StartScan
  <2>1. PICK batch : scan' = [Resting EXCEPT !.pc = "extract", !.batch = batch]
    BY <1>14 DEF StartScan
  <2> QED
    BY <1>4, <2>1 DEF Resting
<1> QED
  BY <1>5, <1>9, <1>10, <1>11, <1>12, <1>13, <1>14
  DEF Next, Work, vars, Store, TelegramAnswers, CloseCall

-----------------------------------------------------------------------------
\* The scan keeps its promises in every state of every run, whatever fails.
THEOREM ScanIsSound == Spec => []ScanInv
<1>1. ScanInv /\ [Next]_vars => ScanInv'
  BY NextTypeOK, StepOfNotifier, LedgerStep, NextAnnounced, NextScanned,
     NextCallAtHand, NextReadIsKept DEF ScanInv
<1> QED
  BY <1>1, InitScanInv, PTL DEF Spec

\* A call is never announced twice, however often its post is scanned.
THEOREM AnnouncedOnce == Spec => []N!AtMostOneMessage
  BY ScanIsSound, PTL DEF ScanInv, N!IInv

\* No step of the scan opens a graded call again.
THEOREM GradedStaysGraded == Spec => GradedForGood
<1>1. ScanInv /\ [Next]_vars =>
        [\A k \in Keys : calls[k] = "closed" => calls'[k] = "closed"]_vars
  <2> SUFFICES ASSUME ScanInv, Next, NEW k \in Keys, calls[k] = "closed"
               PROVE  calls'[k] = "closed"
    OBVIOUS
  <2> USE DEF ScanInv, TypeOK
  <2>1. CASE SaveCall
    <3>1. Key \in Keys
      BY <2>1, CallIsAtHand DEF SaveCall, CallAtHand
    <3> QED
      BY <2>1, <3>1 DEF SaveCall, Saved
  <2>2. ASSUME NEW j \in Keys, CloseCall(j)
        PROVE  calls'[k] = "closed"
    BY <2>2 DEF CloseCall
  <2> QED
    BY <2>1, <2>2
    DEF Next, Work, Store, StartScan, Extract, ExtractRaises, ExtractFailsOnce,
        Notify, TelegramAnswers, MarkSent, NextPost, MarkScanned, Raises, Crash
<1> QED
  BY <1>1, ScanIsSound, PTL DEF Spec, GradedForGood

\* The scan uses the notifier as the notifier asks to be used: what its runs do
\* to the ledger and the channel is a behaviour of Notifier.
THEOREM ScanUsesNotifier == Spec => N!Spec
<1>1. Init => N!Init
  BY DEF Init
<1>2. ScanInv /\ [Next]_vars => [N!Next]_(N!vars)
  BY StepOfNotifier DEF ledger, N!vars
<1> QED
  BY <1>1, <1>2, ScanIsSound, PTL DEF Spec, N!Spec
=============================================================================
