--------------------------- MODULE NotifierProofs ---------------------------
(***************************************************************************)
(* Proofs about Notifier, for any set of senders and any set of keys.      *)
(*                                                                         *)
(* AtMostOneMessage alone is not inductive: a step that sends may start    *)
(* from a state where the message is already in the channel.  IInv rules   *)
(* that out: a call that may still send works on a key nobody else works   *)
(* on (ClaimIsExclusive), and the message is not in the channel yet        *)
(* (NotYetShown).                                                          *)
(***************************************************************************)
EXTENDS Notifier, TLAPS

\* The notifier starts with an empty ledger and no call under way.
LEMMA InitIInv == Init => IInv
  BY NoKeyAssumption
  DEF Init, IInv, TypeOK, CallHasKey, ClaimIsExclusive, NotYetShown,
      AtMostOneMessage, SentWasDelivered, Idle

\* Every step of every sender, and a crash, keeps the ledger and the channel in
\* agreement.
LEMMA NextIInv == IInv /\ [Next]_vars => IInv'
<1> SUFFICES ASSUME IInv, [Next]_vars
             PROVE  IInv'
  OBVIOUS
<1> USE NoKeyAssumption
    DEF IInv, TypeOK, CallHasKey, ClaimIsExclusive, NotYetShown,
        AtMostOneMessage, SentWasDelivered, Idle
<1>1. ASSUME NEW s \in Senders, NEW k \in Keys, ClaimSend(s, k)
      PROVE  IInv'
  BY <1>1 DEF ClaimSend, Claimable
<1>2. ASSUME NEW s \in Senders, NEW k \in Keys, ClaimAnswerLost(s, k)
      PROVE  IInv'
  BY <1>2 DEF ClaimAnswerLost, Claimable
<1>3. ASSUME NEW s \in Senders, SendMarkdown(s)
      PROVE  IInv'
  BY <1>3 DEF SendMarkdown, InChannel
<1>4. ASSUME NEW s \in Senders, ParseError(s)
      PROVE  IInv'
  BY <1>4 DEF ParseError
<1>5. ASSUME NEW s \in Senders, SendPlain(s)
      PROVE  IInv'
  BY <1>5 DEF SendPlain, InChannel
<1>6. ASSUME NEW s \in Senders, SendRaises(s)
      PROVE  IInv'
  BY <1>6 DEF SendRaises, InChannel, ClaimAfterRaise
<1>7. ASSUME NEW s \in Senders, MarkSent(s)
      PROVE  IInv'
  BY <1>7 DEF MarkSent
<1>8. ASSUME NEW s \in Senders, MarkRaises(s)
      PROVE  IInv'
  BY <1>8 DEF MarkRaises
<1>9. CASE Crash
  BY <1>9 DEF Crash
<1>10. CASE UNCHANGED vars
  BY <1>10 DEF vars
<1> QED
  BY <1>1, <1>2, <1>3, <1>4, <1>5, <1>6, <1>7, <1>8, <1>9, <1>10
  DEF Next, Progress

\* The inductive invariant holds in every state of every run of the senders.
THEOREM Invariance == Spec => []IInv
  BY InitIInv, NextIInv, PTL DEF Spec

\* The state of the ledger, the channel and the calls is well-typed.
THEOREM TypeCorrect == Spec => []TypeOK
  BY Invariance, PTL DEF IInv

\* No message appears twice in the channel, for any number of senders, keys,
\* exceptions and restarts.
THEOREM AtMostOnce == Spec => []AtMostOneMessage
  BY Invariance, PTL DEF IInv

\* A row marked sent stands for a message in the channel.
THEOREM LedgerIsTruthful == Spec => []SentWasDelivered
  BY Invariance, PTL DEF IInv

\* A claim excludes every other sender from its key.
THEOREM ClaimExcludes == Spec => []ClaimIsExclusive
  BY Invariance, PTL DEF IInv

\* The row of a key under one step: a claim is not undone, a sent row is final.
KeepsRow(k) ==
  /\ claims[k] # "none" => claims'[k] # "none"
  /\ claims[k] = "sent" => claims'[k] = "sent"

\* MarkSent is the only step that touches an existing row.
LEMMA StepKeepsRows ==
  IInv /\ [Next]_vars => \A k \in Keys : KeepsRow(k)
<1> SUFFICES ASSUME IInv, [Next]_vars
             PROVE  \A k \in Keys : KeepsRow(k)
  OBVIOUS
<1> USE DEF IInv, TypeOK, KeepsRow
<1>1. ASSUME NEW s \in Senders, NEW k \in Keys,
             ClaimSend(s, k) \/ ClaimAnswerLost(s, k)
      PROVE  \A j \in Keys : KeepsRow(j)
  BY <1>1 DEF ClaimSend, ClaimAnswerLost, Claimable
<1>2. ASSUME NEW s \in Senders, Progress(s)
      PROVE  \A k \in Keys : KeepsRow(k)
  <2>1. CASE MarkSent(s)
    BY <2>1 DEF MarkSent
  <2>2. CASE SendRaises(s)
    BY <2>2 DEF SendRaises, ClaimAfterRaise
  <2>3. CASE UNCHANGED claims
    BY <2>3
  <2> QED
    BY <1>2, <2>1, <2>2, <2>3
    DEF Progress, SendMarkdown, ParseError, SendPlain, MarkRaises
<1>3. CASE Crash
  BY <1>3 DEF Crash
<1>4. CASE UNCHANGED vars
  BY <1>4 DEF vars
<1> QED
  BY <1>1, <1>2, <1>3, <1>4 DEF Next

\* A claimed key stays claimed, a sent one stays sent.
THEOREM ClaimsPersist == Spec => ClaimsAreForGood
<1>1. IInv /\ [Next]_vars =>
        [\A k \in Keys : /\ claims[k] # "none" => claims'[k] # "none"
                         /\ claims[k] = "sent" => claims'[k] = "sent"]_vars
  BY StepKeepsRows DEF KeepsRow
<1> QED
  BY <1>1, Invariance, PTL DEF Spec, ClaimsAreForGood

-----------------------------------------------------------------------------
(***************************************************************************)
(* The notifier implements Delivery.  A call in progress is a key the      *)
(* abstract outbox holds as claimed; the moment the call ends without      *)
(* having shown the message, the message is lost.                          *)
(***************************************************************************)

\* An empty ledger and a silent channel are an abstract outbox of unsent keys.
LEMMA InitRefines == Init => D!Init
  BY DEF Init, D!Init, Outbox

\* A key whose row, channel count and callers a step leaves alone keeps its
\* abstract state.
LEMMA OutboxUnchanged ==
  ASSUME NEW k \in Keys,
         claims'[k] = claims[k], delivered'[k] = delivered[k],
         InFlight(k)' <=> InFlight(k)
  PROVE  Outbox'[k] = Outbox[k]
  BY DEF Outbox

\* Every step is a step of Delivery or leaves its variables unchanged.
LEMMA NextRefines == IInv /\ [Next]_vars => [D!Next]_(D!vars)
<1> SUFFICES ASSUME IInv, [Next]_vars
             PROVE  [D!Next]_(D!vars)
  OBVIOUS
<1> USE NoKeyAssumption DEF IInv, TypeOK, CallHasKey, Idle
<1>1. ASSUME NEW s \in Senders, NEW k \in Keys, ClaimSend(s, k)
      PROVE  D!Claim(k)
  <2>1. Outbox[k] = "unsent"
    BY <1>1 DEF ClaimSend, Claimable, Outbox
  <2>2. InFlight(k)'
    BY <1>1 DEF ClaimSend, InFlight
  <2>3. Outbox'[k] = "claimed"
    BY <1>1, <2>2 DEF ClaimSend, Claimable, NotYetShown, Outbox
  <2>4. ASSUME NEW j \in Keys \ {k}
        PROVE  Outbox'[j] = Outbox[j]
    <3>1. InFlight(j)' <=> InFlight(j)
      BY <1>1 DEF ClaimSend, InFlight
    <3> QED
      BY <1>1, <3>1, OutboxUnchanged DEF ClaimSend
  <2> QED
    BY <1>1, <2>1, <2>3, <2>4 DEF ClaimSend, D!Claim, Outbox
<1>2. ASSUME NEW s \in Senders, NEW k \in Keys, ClaimAnswerLost(s, k)
      PROVE  D!Lose({k})
  BY <1>2
  DEF ClaimAnswerLost, Claimable, NotYetShown, ClaimIsExclusive, D!Lose,
      Outbox, InFlight
<1>3. ASSUME NEW s \in Senders, SendMarkdown(s) \/ SendPlain(s)
      PROVE  D!Deliver(call[s].key)
  <2> DEFINE k == call[s].key
  <2>1. k \in Keys /\ claims[k] = "pending" /\ delivered[k] = 0
    BY <1>3 DEF SendMarkdown, SendPlain, ClaimIsExclusive, NotYetShown
  <2>2. /\ claims' = claims
        /\ delivered' = [delivered EXCEPT ![k] = 1]
        /\ \A t \in Senders : call'[t].key = call[t].key
    BY <1>3, <2>1 DEF SendMarkdown, SendPlain, InChannel
  <2>3. Outbox[k] = "claimed" /\ Outbox'[k] = "delivered"
    BY <2>1, <2>2 DEF Outbox, InFlight
  <2>4. ASSUME NEW j \in Keys \ {k}
        PROVE  Outbox'[j] = Outbox[j]
    BY <2>2, OutboxUnchanged DEF InFlight
  <2> QED
    BY <2>1, <2>2, <2>3, <2>4 DEF D!Deliver, Outbox
<1>4. ASSUME NEW s \in Senders, ParseError(s)
      PROVE  UNCHANGED D!vars
  BY <1>4 DEF ParseError, D!vars, Outbox, InFlight
<1>5. ASSUME NEW s \in Senders, SendRaises(s)
      PROVE  D!Deliver(call[s].key) \/ D!Lose({call[s].key})
  BY <1>5
  DEF SendRaises, ClaimAfterRaise, InChannel, ClaimIsExclusive, NotYetShown,
      D!Deliver, D!Lose, Outbox, InFlight
<1>6. ASSUME NEW s \in Senders, MarkSent(s) \/ MarkRaises(s)
      PROVE  UNCHANGED D!vars
  <2> DEFINE k == call[s].key
  <2>1. k \in Keys /\ claims[k] = "pending" /\ delivered[k] = 1
    BY <1>6 DEF MarkSent, MarkRaises, ClaimIsExclusive, NotYetShown
  <2>2. /\ delivered' = delivered
        /\ claims' \in {claims, [claims EXCEPT ![k] = "sent"]}
        /\ call' = [call EXCEPT ![s] = Idle]
    BY <1>6 DEF MarkSent, MarkRaises
  <2>3. Outbox'[k] = Outbox[k]
    BY <2>1, <2>2 DEF Outbox
  <2>4. ASSUME NEW j \in Keys \ {k}
        PROVE  Outbox'[j] = Outbox[j]
    <3>1. InFlight(j)' <=> InFlight(j)
      BY <2>1, <2>2 DEF InFlight
    <3>2. claims'[j] = claims[j]
      BY <2>2
    <3> QED
      BY <2>2, <3>1, <3>2, OutboxUnchanged
  <2>5. Outbox' = Outbox
    BY <2>3, <2>4 DEF Outbox
  <2> QED
    BY <2>2, <2>5 DEF D!vars
<1>7. ASSUME Crash
      PROVE  (\E S \in SUBSET Keys : D!Lose(S)) \/ UNCHANGED D!vars
  <2> DEFINE S == {k \in Keys : Outbox[k] = "claimed"}
  <2>1. claims' = claims /\ delivered' = delivered
    BY <1>7 DEF Crash
  <2>2. \A k \in Keys : ~InFlight(k)'
    BY <1>7 DEF Crash, InFlight
  <2>3. Outbox' = [k \in Keys |-> IF k \in S THEN "lost" ELSE Outbox[k]]
    BY <2>1, <2>2 DEF Outbox
  <2>4. CASE S = {}
    <3>1. \A k \in Keys : Outbox'[k] = Outbox[k]
      BY <2>3, <2>4
    <3>2. Outbox' = Outbox
      BY <3>1 DEF Outbox
    <3> QED
      BY <2>1, <3>2 DEF D!vars
  <2>5. CASE S # {}
    <3>1. D!Lose(S)
      BY <2>1, <2>3, <2>5 DEF D!Lose
    <3> QED
      BY <3>1
  <2> QED
    BY <2>4, <2>5
<1>8. CASE UNCHANGED vars
  BY <1>8 DEF vars, D!vars, Outbox, InFlight
<1>9. ASSUME NEW s \in Senders, call[s].pc # "idle"
      PROVE  call[s].key \in Keys
  BY <1>9
<1>10. ASSUME NEW s \in Senders, Progress(s)
       PROVE  [D!Next]_(D!vars)
  <2>1. call[s].key \in Keys
    BY <1>10, <1>9
    DEF Progress, SendMarkdown, ParseError, SendPlain, SendRaises, MarkSent,
        MarkRaises
  <2> QED
    BY <1>3, <1>4, <1>5, <1>6, <1>10, <2>1 DEF Progress, D!Next
<1>11. ASSUME NEW s \in Senders, NEW k \in Keys,
              ClaimSend(s, k) \/ ClaimAnswerLost(s, k)
       PROVE  D!Next
  <2>1. CASE ClaimSend(s, k)
    BY <1>1, <2>1 DEF D!Next
  <2>2. CASE ClaimAnswerLost(s, k)
    <3>1. D!Lose({k}) /\ {k} \in SUBSET Keys
      BY <1>2, <2>2
    <3> QED
      BY <3>1 DEF D!Next
  <2> QED
    BY <1>11, <2>1, <2>2
<1>12. CASE Crash
  BY <1>7, <1>12 DEF D!Next
<1>13. Next \/ UNCHANGED vars
  OBVIOUS
<1> QED
  BY <1>8, <1>10, <1>11, <1>12, <1>13 DEF Next

\* The claim-before-send ledger keeps the promise of Delivery.
THEOREM Refinement == Spec => DeliverySpec
  BY InitRefines, NextRefines, Invariance, PTL DEF Spec, DeliverySpec, D!Spec
=============================================================================
