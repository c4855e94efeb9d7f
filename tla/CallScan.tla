------------------------------ MODULE CallScan ------------------------------
(***************************************************************************)
(* run_call_scan: the rolling scan of stored posts for explicit calls.     *)
(*                                                                         *)
(* A run takes the oldest posts without a cursor row, reads each with the  *)
(* extractor, saves and announces the calls it finds, and writes the       *)
(* cursor rows of the whole batch at its end.  The scheduler runs it next  *)
(* to the outcome job, which closes calls; never both at once.             *)
(***************************************************************************)
EXTENDS Naturals, FiniteSets, SequencesExt

CONSTANTS
  Posts,         \* post ids, numbers
  Symbols,
  Extractions,   \* Extractions[p]: the symbols of the confident calls, as the
                 \* extractor may read them
  Poison,        \* the posts on which the extractor always raises
  Batch,         \* posts in a run (40)
  MaxFaults,     \* bound: exceptions and crashes in a behaviour
  NoKey

ASSUME PostsAssumption == Posts \subseteq Nat /\ IsFiniteSet(Posts)
ASSUME ExtractionsAssumption == Extractions \in [Posts -> SUBSET Seq(Symbols)]
ASSUME BoundsAssumption == Batch \in Nat \ {0} /\ MaxFaults \in Nat

\* Unique on (post_id, symbol); the message has the key XCALL:<post>:<symbol>.
Keys == Posts \X Symbols

ASSUME NoKeyAssumption == NoKey \notin Keys

VARIABLES
  posted,               \* the posts with ticker_mentions rows
  calls,                \* explicit_calls: "none", "open" or "closed"
  scanned,              \* call_scan_cursor
  claims, delivered,    \* the notifier's ledger and the channel
  call, scan,           \* the scan's notifier call; where the scan is
  faults

ledger == <<claims, delivered, call>>
vars == <<posted, calls, scanned, ledger, scan, faults>>

N == INSTANCE Notifier WITH Senders <- {"scan"}

Resting == [pc |-> "idle", batch |-> <<>>, found |-> <<>>, ids |-> {}]

TypeOK ==
  /\ N!TypeOK
  /\ posted \subseteq Posts /\ scanned \subseteq posted
  /\ calls \in [Keys -> {"none", "open", "closed"}]
  /\ scan \in [pc : {"idle", "extract", "save", "notify", "sending"},
               batch : Seq(posted), found : Seq(Symbols), ids : SUBSET posted]
  /\ faults \in 0 .. MaxFaults

Init ==
  /\ N!Init
  /\ posted = {} /\ scanned = {}
  /\ calls = [k \in Keys |-> "none"]
  /\ scan = Resting
  /\ faults = 0

-----------------------------------------------------------------------------
\* process_post stores the mentions of a post.
Store(p) ==
  /\ p \notin posted
  /\ posted' = posted \cup {p}
  /\ UNCHANGED <<calls, scanned, ledger, scan, faults>>

\* unscanned_posts: at most Batch of the posts without a cursor row, those of
\* the lowest ids.
Unscanned ==
  {p \in posted \ scanned :
     Cardinality({q \in posted \ scanned : q < p}) < Batch}

StartScan ==
  /\ scan = Resting
  /\ Unscanned # {}
  /\ \E batch \in [1 .. Cardinality(Unscanned) -> Unscanned] :
       /\ \A i, j \in DOMAIN batch : i < j => batch[i] < batch[j]
       /\ scan' = [Resting EXCEPT !.pc = "extract", !.batch = batch]
  /\ UNCHANGED <<posted, calls, scanned, ledger, faults>>

\* The post at hand, and the call of it at hand.
Post == Head(scan.batch)
Key == <<Post, Head(scan.found)>>

Extract ==
  /\ scan.pc = "extract" /\ scan.batch # <<>>
  /\ Post \notin Poison
  /\ \E r \in Extractions[Post] :
       scan' = [scan EXCEPT !.pc = "save", !.found = r, !.ids = @ \cup {Post}]
  /\ UNCHANGED <<posted, calls, scanned, ledger, faults>>

\* Mutant of SkipPost: the first post that fails ends the batch.
SkipBatch == scan' = [scan EXCEPT !.batch = <<>>]

\* The extractor raises: this post is left for the next run.
SkipPost == scan' = [scan EXCEPT !.batch = Tail(@)]

ExtractRaises ==
  /\ scan.pc = "extract" /\ scan.batch # <<>>
  /\ Post \in Poison
  /\ SkipPost
  /\ UNCHANGED <<posted, calls, scanned, ledger, faults>>

\* The budget is used up, or the request fails, for once.
ExtractFailsOnce ==
  /\ scan.pc = "extract" /\ scan.batch # <<>>
  /\ Post \notin Poison
  /\ faults < MaxFaults
  /\ faults' = faults + 1
  /\ SkipPost
  /\ UNCHANGED <<posted, calls, scanned, ledger>>

NextCall == scan' = [scan EXCEPT !.pc = "save", !.found = Tail(@)]

\* Mutant of Saved: a call that was closed may be stated again.
SavedAndOpen(k) == calls[k] = "open"

\* save_call: a row of the post and the symbol, whatever its status, is kept.
Saved(k) == calls[k] # "none"

SaveCall ==
  /\ scan.pc = "save" /\ scan.found # <<>>
  /\ \/ /\ Saved(Key)
        /\ NextCall
        /\ UNCHANGED calls
     \/ /\ ~Saved(Key)
        /\ calls' = [calls EXCEPT ![Key] = "open"]
        /\ scan' = [scan EXCEPT !.pc = "notify"]
  /\ UNCHANGED <<posted, scanned, ledger, faults>>

\* broadcast_text, for a call this run has saved.
Notify ==
  /\ scan.pc = "notify"
  /\ \/ /\ N!ClaimSend("scan", Key)
        /\ scan' = [scan EXCEPT !.pc = "sending"]
     \/ /\ ~N!Claimable(Key)
        /\ NextCall
        /\ UNCHANGED ledger
  /\ UNCHANGED <<posted, calls, scanned, faults>>

TelegramAnswers ==
  /\ N!SendMarkdown("scan") \/ N!ParseError("scan") \/ N!SendPlain("scan")
  /\ UNCHANGED <<posted, calls, scanned, scan, faults>>

MarkSent ==
  /\ N!MarkSent("scan")
  /\ NextCall
  /\ UNCHANGED <<posted, calls, scanned, faults>>

NextPost ==
  /\ scan.pc = "save" /\ scan.found = <<>>
  /\ scan' = [scan EXCEPT !.pc = "extract", !.batch = Tail(@)]
  /\ UNCHANGED <<posted, calls, scanned, ledger, faults>>

\* mark_scanned: one commit for the batch.
MarkScanned ==
  /\ scan.pc = "extract" /\ scan.batch = <<>>
  /\ scanned' = scanned \cup scan.ids
  /\ scan' = Resting
  /\ UNCHANGED <<posted, calls, ledger, faults>>

-----------------------------------------------------------------------------
\* Mutant of Abandon: the cursor rows are written in a finally clause.
AbandonButMark ==
  /\ scanned' = scanned \cup scan.ids
  /\ scan' = Resting

\* The job ends where it is: what it saved and sent stays, its cursor rows are
\* not written.
Abandon ==
  /\ scan' = Resting
  /\ UNCHANGED scanned

\* save_call, mark_scanned or the notifier raises.
Raises ==
  /\ scan # Resting
  /\ faults < MaxFaults
  /\ faults' = faults + 1
  /\ \/ call["scan"] = N!Idle /\ UNCHANGED ledger
     \/ N!SendRaises("scan")
     \/ N!MarkRaises("scan")
  /\ Abandon
  /\ UNCHANGED <<posted, calls>>

Crash ==
  /\ scan # Resting
  /\ faults < MaxFaults
  /\ faults' = faults + 1
  /\ N!Crash
  /\ Abandon
  /\ UNCHANGED <<posted, calls>>

\* The outcome job grades an open call.
CloseCall(k) ==
  /\ scan = Resting
  /\ calls[k] = "open"
  /\ calls' = [calls EXCEPT ![k] = "closed"]
  /\ UNCHANGED <<posted, scanned, ledger, scan, faults>>

Work ==
  \/ StartScan \/ Extract \/ ExtractRaises \/ SaveCall \/ Notify
  \/ TelegramAnswers \/ MarkSent \/ NextPost \/ MarkScanned

Next ==
  \/ \E p \in Posts : Store(p)
  \/ Work \/ ExtractFailsOnce \/ Raises \/ Crash
  \/ \E k \in Keys : CloseCall(k)

Spec == Init /\ [][Next]_vars

\* The scheduler starts the scan again and again, and a run goes on.
FairSpec == Spec /\ WF_vars(Work)

-----------------------------------------------------------------------------
\* What the channel is told is "Tracked for the scoreboard" has a row, wherever
\* the scan was interrupted.
AnnouncedIsTracked == \A k \in Keys : claims[k] # "none" => calls[k] # "none"

\* A cursor row hides a post from the scan for good, so it may only be there
\* when every call of one reading of the post is saved.
ScannedIsComplete ==
  \A p \in scanned : \E r \in Extractions[p] :
    \A s \in ToSet(r) : calls[<<p, s>>] # "none"

\* A run has a post at hand from the reading to the last call of it, a call at
\* hand that is saved from its INSERT to the end of its message, and is inside
\* the notifier only to send that one.
CallAtHand ==
  /\ scan.pc \in {"save", "notify", "sending"} => scan.batch # <<>>
  /\ scan.pc \in {"notify", "sending"} =>
       scan.found # <<>> /\ calls[Key] # "none"
  /\ scan.pc # "sending" => call["scan"] = N!Idle

\* Every post of the run that was read has the calls of that reading saved, but
\* for the calls still at hand.
ReadIsKept ==
  \A p \in scan.ids : \E r \in Extractions[p] : \A s \in ToSet(r) :
    \/ calls[<<p, s>>] # "none"
    \/ scan.pc # "extract" /\ p = Post /\ s \in ToSet(scan.found)

\* Calls, cursor and ledger are well-typed; what is announced is tracked; what is
\* marked as scanned is complete.  The rest of it makes that inductive: a cursor
\* row is written for what the run remembers of posts it read long before.
ScanInv ==
  /\ TypeOK /\ N!IInv
  /\ AnnouncedIsTracked /\ ScannedIsComplete
  /\ CallAtHand /\ ReadIsKept

\* A graded call is not opened again by a scan of the same post.
GradedForGood ==
  [][\A k \in Keys : calls[k] = "closed" => calls'[k] = "closed"]_vars

\* A post that can be read is scanned in the end, past all the posts that
\* cannot, past failures and crashes.  It takes a batch the unreadable posts do
\* not fill.
EveryPostIsScanned ==
  \A p \in Posts \ Poison : p \in posted ~> p \in scanned
=============================================================================
