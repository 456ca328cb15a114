--------------------------- MODULE DeliveryLedger ---------------------------
(***************************************************************************)
(* What the in-flight registry promises, without tokens, clocks or guards: *)
(* a message that was offered to the flow can be worked on by one ACK item *)
(* at a time, and while it is, nobody offers it again or forgets it; the   *)
(* holder ends its claim by acknowledging the message or by giving it back.*)
(***************************************************************************)
CONSTANTS
  Keys,          \* messages
  Ackers         \* ACK items

VARIABLES
  offered,       \* messages emitted, not claimed, not acknowledged, not forgotten
  holders        \* per message: the ACK items that hold its claim

Init ==
  /\ offered = {}
  /\ holders = [k \in Keys |-> {}]

Offer(k) ==
  /\ holders[k] = {}
  /\ offered' = offered \union {k}
  /\ UNCHANGED holders

\* The retry interval has passed, or the messages are gone from the mailbox.
Forget(ks) ==
  /\ offered' = offered \ ks
  /\ UNCHANGED holders

Claim(k, a) ==
  /\ k \in offered /\ holders[k] = {}
  /\ offered' = offered \ {k}
  /\ holders' = [holders EXCEPT ![k] = {a}]

Release(k, a) ==
  /\ holders[k] = {a}
  /\ offered' = offered \union {k}
  /\ holders' = [holders EXCEPT ![k] = {}]

Acknowledge(k, a) ==
  /\ holders[k] = {a}
  /\ holders' = [holders EXCEPT ![k] = {}]
  /\ UNCHANGED offered

Next ==
  \/ \E k \in Keys : Offer(k)
  \/ \E ks \in SUBSET Keys : Forget(ks)
  \/ \E k \in Keys, a \in Ackers : Claim(k, a) \/ Release(k, a) \/ Acknowledge(k, a)

Spec == Init /\ [][Next]_<<offered, holders>>
=============================================================================
