------------------------------ MODULE Delivery ------------------------------
(***************************************************************************)
(* What the trading channel is promised, whoever sends and whatever fails: *)
(* a message with a given idempotency key shows up there at most once, and *)
(* a message given up on never shows up at all.  The README's "a missed    *)
(* alert beats a duplicate", as a state machine.  Notifier implements it.  *)
(***************************************************************************)
EXTENDS Naturals

CONSTANT Keys            \* the idempotency keys

VARIABLES outbox,        \* outbox[k]: how far the message with key k has got
          messages       \* messages[k]: how often it appears in the channel

vars == <<outbox, messages>>

TypeOK ==
  /\ outbox \in [Keys -> {"unsent", "claimed", "delivered", "lost"}]
  /\ messages \in [Keys -> Nat]

Init ==
  /\ outbox = [k \in Keys |-> "unsent"]
  /\ messages = [k \in Keys |-> 0]

\* Somebody takes the one right there is to send k.
Claim(k) ==
  /\ outbox[k] = "unsent"
  /\ outbox' = [outbox EXCEPT ![k] = "claimed"]
  /\ UNCHANGED messages

Deliver(k) ==
  /\ outbox[k] = "claimed"
  /\ outbox' = [outbox EXCEPT ![k] = "delivered"]
  /\ messages' = [messages EXCEPT ![k] = @ + 1]

\* A message may be given up any time before it is shown, a crash gives up all
\* those under way; nothing brings it back.
Lose(S) ==
  /\ S # {}
  /\ \A k \in S : outbox[k] \in {"unsent", "claimed"}
  /\ outbox' = [k \in Keys |-> IF k \in S THEN "lost" ELSE outbox[k]]
  /\ UNCHANGED messages

Next ==
  \/ \E k \in Keys : Claim(k) \/ Deliver(k)
  \/ \E S \in SUBSET Keys : Lose(S)

Spec == Init /\ [][Next]_vars
=============================================================================
