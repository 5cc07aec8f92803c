---------------------------- MODULE OutboxPromise ----------------------------
(***************************************************************************)
(* The two ends of the Strapi plugin's delivery: the plugin's persistent   *)
(* store and the receiver of its bodies, and what is promised of them.     *)
(***************************************************************************)
EXTENDS Naturals

VARIABLES
  store,     \* Strapi's persistent plugin store: last sequence and outbox
  receiver   \* the last body the receiver took, and whether it saw a gap

(* A later sequence than the last one taken, or exactly that body again.    *)
Acceptable(body) == body.sequence > receiver.body.sequence \/ body = receiver.body

(* Every sequence ever allocated was taken by the receiver or still waits   *)
(* with its body: no restart, refusal or failed write leaves a hole, and no *)
(* body overtakes another ("the receiver never observes sequence 2 before   *)
(* 1").                                                                     *)
NothingAllocatedIsLost ==
  \/ receiver.body.sequence = store.sequence
  \/ /\ receiver.body.sequence + 1 = store.sequence
     /\ \E body \in store.outbox : body.sequence = store.sequence

(* The receiver never has to refuse for its sequence: what the outbox holds *)
(* is the next body, or the last one with the very same bytes.              *)
RetriesAreAccepted == \A body \in store.outbox : Acceptable(body)

(* A flush empties the outbox before anything is added to it, so it never   *)
(* holds more than the last body and the flush has no order to get wrong.   *)
OneBodyWaits == \A body \in store.outbox : body.sequence = store.sequence

(* What waits can be sent as it is and in any order.                        *)
OutboxIsReady == RetriesAreAccepted /\ OneBodyWaits
==============================================================================
