------------------------------ MODULE Notifier ------------------------------
(***************************************************************************)
(* AlertNotifier and the sent_messages ledger: claim, send, record.        *)
(*                                                                         *)
(* Every message to the channel goes through one of send_alert,            *)
(* send_reversal, broadcast_call and broadcast_text, and all four have the *)
(* shape modelled here.  Senders are the coroutines of the worker process  *)
(* that may be inside one of these calls at the same time (the process     *)
(* loop, the channel-post listener, the scheduler).  One action is one     *)
(* await that changes something: a ledger commit or a Telegram request.    *)
(* The ledger and the channel survive a crash; the calls do not.           *)
(***************************************************************************)
EXTENDS Naturals

CONSTANTS Senders, Keys, NoKey

ASSUME NoKeyAssumption == NoKey \notin Keys

VARIABLES claims,       \* sent_messages: the row of each key, "none" if absent
          delivered,    \* how often the channel shows the message of each key
          call          \* the notifier call each sender is in

vars == <<claims, delivered, call>>

Idle == [pc |-> "idle", key |-> NoKey]

TypeOK ==
  /\ claims \in [Keys -> {"none", "pending", "sent"}]
  /\ delivered \in [Keys -> Nat]
  /\ call \in [Senders -> [pc : {"idle", "claimed", "plain", "accepted"},
                           key : Keys \cup {NoKey}]]

Init ==
  /\ claims = [k \in Keys |-> "none"]
  /\ delivered = [k \in Keys |-> 0]
  /\ call = [s \in Senders |-> Idle]

-----------------------------------------------------------------------------
\* Mutant of Claimable: only a row marked sent counts as taken.
ClaimableUnlessSent(k) == claims[k] # "sent"

\* The unique constraint on idempotency_key: a row in any status refuses the
\* INSERT.
Claimable(k) == claims[k] = "none"

\* claim_send: the INSERT of a pending row and its commit.
ClaimSend(s, k) ==
  /\ call[s] = Idle
  /\ Claimable(k)
  /\ claims' = [claims EXCEPT ![k] = "pending"]
  /\ call' = [call EXCEPT ![s] = [pc |-> "claimed", key |-> k]]
  /\ UNCHANGED delivered

\* claim_send raises although the INSERT was committed (the connection drops
\* before the answer): the call is over, the row stays.
ClaimAnswerLost(s, k) ==
  /\ call[s] = Idle
  /\ Claimable(k)
  /\ claims' = [claims EXCEPT ![k] = "pending"]
  /\ UNCHANGED <<delivered, call>>

InChannel(k) == [delivered EXCEPT ![k] = @ + 1]

\* _safe_send: Telegram accepts the MarkdownV2 text.
SendMarkdown(s) ==
  /\ call[s].pc = "claimed"
  /\ delivered' = InChannel(call[s].key)
  /\ call' = [call EXCEPT ![s].pc = "accepted"]
  /\ UNCHANGED claims

\* _safe_send: "can't parse entities" - Telegram refused the text, so nothing
\* was shown and the plain text is sent instead.
ParseError(s) ==
  /\ call[s].pc = "claimed"
  /\ call' = [call EXCEPT ![s].pc = "plain"]
  /\ UNCHANGED <<claims, delivered>>

\* Mutant of SendPlain: the fallback goes out with the parse mode it fled from.
PlainAsMarkdown(s) ==
  /\ call[s].pc = "plain"
  /\ call' = [call EXCEPT ![s].pc = "claimed"]
  /\ UNCHANGED <<claims, delivered>>

SendPlain(s) ==
  /\ call[s].pc = "plain"
  /\ delivered' = InChannel(call[s].key)
  /\ call' = [call EXCEPT ![s].pc = "accepted"]
  /\ UNCHANGED claims

\* Mutants of ClaimAfterRaise: the claim is released for a retry; it gets a
\* status of its own.
ClaimReleased(k) == "none"
ClaimMarkedFailed(k) == "failed"

\* Any other exception between the claim and Telegram's answer: a read for the
\* text of the alert fails, the request is refused, or it times out - and then
\* the channel may show the message all the same.  The exception leaves the
\* notifier; the pending row stays, so nobody ever sends this key again.
ClaimAfterRaise(k) == claims[k]

SendRaises(s) ==
  /\ call[s].pc \in {"claimed", "plain"}
  /\ delivered' \in {delivered, InChannel(call[s].key)}
  /\ claims' = [claims EXCEPT ![call[s].key] = ClaimAfterRaise(call[s].key)]
  /\ call' = [call EXCEPT ![s] = Idle]

\* mark_sent: pending -> sent, with the message id.
MarkSent(s) ==
  /\ call[s].pc = "accepted"
  /\ claims' = [claims EXCEPT ![call[s].key] = "sent"]
  /\ call' = [call EXCEPT ![s] = Idle]
  /\ UNCHANGED delivered

\* mark_sent raises: the message is in the channel, the row stays pending.
MarkRaises(s) ==
  /\ call[s].pc = "accepted"
  /\ call' = [call EXCEPT ![s] = Idle]
  /\ UNCHANGED <<claims, delivered>>

\* The worker process dies, or is cancelled, and starts again.
Crash ==
  /\ call' = [s \in Senders |-> Idle]
  /\ UNCHANGED <<claims, delivered>>

-----------------------------------------------------------------------------
\* What a call in progress does next.
Progress(s) ==
  \/ SendMarkdown(s) \/ ParseError(s) \/ SendPlain(s) \/ SendRaises(s)
  \/ MarkSent(s) \/ MarkRaises(s)

Next ==
  \/ \E s \in Senders, k \in Keys : ClaimSend(s, k) \/ ClaimAnswerLost(s, k)
  \/ \E s \in Senders : Progress(s)
  \/ Crash

Spec == Init /\ [][Next]_vars

\* An await of a running coroutine returns or raises: requests and commits have
\* timeouts.  Nothing forces a new call, a crash, or a request to succeed.
FairSpec == Spec /\ \A s \in Senders : WF_vars(Progress(s))

-----------------------------------------------------------------------------
InFlight(k) == \E s \in Senders : call[s].key = k

\* No key is ever shown twice in the channel, whichever senders race for it,
\* however often a post is seen again, wherever the process dies
\* (telegram_bot.py:232 "Claim BEFORE sending (INV-1)").
AtMostOneMessage == \A k \in Keys : delivered[k] <= 1

\* The ledger never claims more than happened: a row marked sent stands for a
\* message that is in the channel.
SentWasDelivered == \A k \in Keys : claims[k] = "sent" => delivered[k] = 1

\* Two coroutines are never in a call for the same key, and the row of a call
\* in progress is pending: the claim is a lock that no crash releases.
ClaimIsExclusive ==
  /\ \A s, t \in Senders :
       call[s].key = call[t].key /\ call[s] # Idle => s = t
  /\ \A s \in Senders : call[s] # Idle => claims[call[s].key] = "pending"

\* The invariant that makes AtMostOneMessage inductive: nothing is in the
\* channel without a row, and nothing is there yet while its call may send.
NotYetShown ==
  /\ \A k \in Keys : claims[k] = "none" => delivered[k] = 0
  /\ \A s \in Senders :
       call[s].pc \in {"claimed", "plain"} => delivered[call[s].key] = 0
  /\ \A s \in Senders : call[s].pc = "accepted" => delivered[call[s].key] = 1

CallHasKey == \A s \in Senders : call[s].pc # "idle" <=> call[s].key # NoKey

IInv ==
  /\ TypeOK
  /\ CallHasKey
  /\ ClaimIsExclusive
  /\ NotYetShown
  /\ AtMostOneMessage
  /\ SentWasDelivered

\* A ledger row is never removed, and a message once in the channel keeps its
\* row: a key is used up for good by the first claim, whatever became of it.
ClaimsAreForGood ==
  [][\A k \in Keys :
       /\ claims[k] # "none" => claims'[k] # "none"
       /\ claims[k] = "sent" => claims'[k] = "sent"]_vars

\* Every claimed message meets its fate: it is recorded as sent, or its call
\* ends without that (an exception, a crash) - no call hangs on to a key.
ClaimMeetsItsFate ==
  \A k \in Keys :
    claims[k] = "pending" ~> (claims[k] = "sent" \/ ~InFlight(k))

-----------------------------------------------------------------------------
\* The refinement: what the ledger and the calls say about a message.
Outbox ==
  [k \in Keys |->
     IF claims[k] = "none" THEN "unsent"
     ELSE IF delivered[k] > 0 THEN "delivered"
     ELSE IF InFlight(k) THEN "claimed"
     ELSE "lost"]

D == INSTANCE Delivery WITH outbox <- Outbox, messages <- delivered

\* The notifier delivers as Delivery promises, under every race and crash.
DeliverySpec == D!Spec
=============================================================================
