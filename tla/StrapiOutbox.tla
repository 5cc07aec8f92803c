---------------------------- MODULE StrapiOutbox ----------------------------
(***************************************************************************)
(* The Strapi plugin's signed pushes (plugins/strapi/src/server/index.ts). *)
(* Strapi raises lifecycle events concurrently; createOrderedSender chains *)
(* their handlers, so one runs at a time.  A handler re-reads the entry,   *)
(* flushes what the durable outbox still holds, allocates the next         *)
(* sequence, persists the body before it sends it, and removes it once it  *)
(* was accepted.  Every await is a step of its own: the content changes,   *)
(* the receiver refuses or its answer is lost, the store fails, or the     *)
(* process restarts in between.                                            *)
(*                                                                         *)
(* The receiver (external) takes a body with a later sequence than its     *)
(* last, or exactly its last body again, and refuses any other.  It and the *)
(* store, with what is promised of the two, are in OutboxPromise.           *)
(***************************************************************************)
EXTENDS OutboxPromise, Sequences, FiniteSets

CONSTANTS
  Items,       \* entries of one content type
  MaxChanges,  \* bound: lifecycle events
  MaxRefusals, \* bound: deliveries refused, or taken with the answer lost
  MaxFailures  \* bound: store failures and restarts

ASSUME BoundsAssumption ==
  MaxChanges \in Nat /\ MaxRefusals \in Nat /\ MaxFailures \in Nat

VARIABLES
  entries,   \* the version of every entry in Strapi's database, 0 if none
  events,    \* lifecycle events whose handlers wait for their turn
  handler,   \* the running handler
  mirror,    \* the version of every entry according to the bodies it took
  changes, refusals, failures

vars == <<entries, events, handler, store, receiver, mirror, changes, refusals, failures>>

Operations == {"update", "delete"}
Keys == Operations \X Items      \* deliveryKey: the event and the item, no time
Bodies == [sequence: Nat, key: Keys, version: Nat]
Idle == [pc |-> "idle"]
Running == [pc: {"flush", "flushed", "push", "pushed"}, key: Keys,
            version: Nat, retried: BOOLEAN]
NoBody == [sequence |-> 0]

Init ==
  /\ entries = [i \in Items |-> 0]
  /\ events = <<>>
  /\ handler = Idle
  /\ store = [sequence |-> 0, outbox |-> {}]
  /\ receiver = [body |-> NoBody, gap |-> FALSE]
  /\ mirror = [i \in Items |-> 0]
  /\ changes = 0 /\ refusals = 0 /\ failures = 0

-----------------------------------------------------------------------------
(* Strapi stores a change and raises its lifecycle event.                   *)
Change(i, operation) ==
  /\ changes < MaxChanges
  /\ operation = "delete" => entries[i] # 0
  /\ changes' = changes + 1
  /\ entries' = [entries EXCEPT ![i] = IF operation = "delete" THEN 0 ELSE changes + 1]
  /\ events' = Append(events, <<operation, i>>)
  /\ UNCHANGED <<handler, store, receiver, mirror, refusals, failures>>

(* The event cannot be told from a retry of a body that waits.              *)
RetriesCurrent(key) == \E body \in store.outbox : body.key = key

(* The next handler hydrates its entry and reads the sequence state.  The   *)
(* entry may have changed again since; if it is gone, the handler throws.   *)
Begin ==
  /\ handler = Idle /\ events # <<>>
  /\ events' = Tail(events)
  /\ LET key == Head(events)
         version == IF key[1] = "delete" THEN 0 ELSE entries[key[2]]
     IN handler' = IF key[1] # "delete" /\ version = 0 THEN Idle
                   ELSE [pc |-> "flush", key |-> key, version |-> version,
                         retried |-> RetriesCurrent(key)]
  /\ UNCHANGED <<entries, store, receiver, mirror, changes, refusals, failures>>

-----------------------------------------------------------------------------
(* One POST of a body: it is taken and the handler goes on; it is taken but *)
(* the handler does not learn of it; or it is refused.  In the last two the *)
(* handler returns and the body stays in the outbox.                        *)
ReceiverTakes(body) ==
  /\ receiver' = [body |-> body,
                  gap |-> receiver.gap \/ body.sequence > receiver.body.sequence + 1]
  /\ mirror' = [mirror EXCEPT ![body.key[2]] = body.version]

Post(body, next) ==
  /\ \/ /\ Acceptable(body) /\ ReceiverTakes(body)
        /\ handler' = [handler EXCEPT !.pc = next]
        /\ UNCHANGED refusals
     \/ /\ Acceptable(body) /\ ReceiverTakes(body)
        /\ handler' = Idle
        /\ refusals < MaxRefusals /\ refusals' = refusals + 1
     \/ /\ ~Acceptable(body)
        /\ handler' = Idle
        /\ UNCHANGED <<receiver, mirror, refusals>>
     \/ /\ handler' = Idle
        /\ refusals < MaxRefusals /\ refusals' = refusals + 1
        /\ UNCHANGED <<receiver, mirror>>
  /\ UNCHANGED <<entries, events, store, changes, failures>>

Oldest == CHOOSE body \in store.outbox :
            \A other \in store.outbox : body.sequence <= other.sequence

Remove(next) ==
  /\ store' = [store EXCEPT !.outbox = @ \ {receiver.body}]
  /\ handler' = next
  /\ UNCHANGED <<entries, events, receiver, mirror, changes, refusals, failures>>

(* Deliveries left by earlier handlers go first.                            *)
FlushPost ==
  /\ handler.pc = "flush" /\ store.outbox # {}
  /\ Post(Oldest, "flushed")

FlushRemove ==
  /\ handler.pc = "flushed"
  /\ Remove([handler EXCEPT !.pc = "flush"])

(* The event was the retry of a body just flushed: nothing more to do.      *)
FlushedCurrent ==
  /\ handler.pc = "flush" /\ store.outbox = {} /\ handler.retried
  /\ handler' = Idle
  /\ UNCHANGED <<entries, events, store, receiver, mirror, changes, refusals, failures>>

(* Faulty variant: an event does not wait for the outbox to be flushed.     *)
OvertakeOutbox == TRUE
OutboxFlushed == store.outbox = {}

(* Faulty variants: the sequence counts down; a sequence is used again.     *)
PreviousSequence == store.sequence - 1
SameSequence == IF store.sequence = 0 THEN 1 ELSE store.sequence
NextSequence == store.sequence + 1

(* Faulty variant: the sequence is persisted without the body.              *)
SequenceOnly(body) == [sequence |-> body.sequence, outbox |-> store.outbox]
QueuedState(body) == [sequence |-> body.sequence, outbox |-> store.outbox \cup {body}]

(* The sequence is allocated and the whole body persisted.                  *)
Allocate ==
  /\ handler.pc = "flush" /\ ~handler.retried /\ OutboxFlushed
  /\ store' = QueuedState([sequence |-> NextSequence, key |-> handler.key,
                           version |-> handler.version])
  /\ handler' = [handler EXCEPT !.pc = "push"]
  /\ UNCHANGED <<entries, events, receiver, mirror, changes, refusals, failures>>

PushPost ==
  /\ handler.pc = "push"
  /\ Post([sequence |-> store.sequence, key |-> handler.key,
           version |-> handler.version], "pushed")

PushRemove ==
  /\ handler.pc = "pushed"
  /\ Remove(Idle)

(* The store or the connection fails: the handler throws, the next runs.    *)
HandlerThrows ==
  /\ handler # Idle /\ failures < MaxFailures
  /\ handler' = Idle
  /\ failures' = failures + 1
  /\ UNCHANGED <<entries, events, store, receiver, mirror, changes, refusals>>

(* Strapi restarts: events whose handlers had not finished are gone.        *)
Restart ==
  /\ failures < MaxFailures
  /\ handler # Idle \/ events # <<>>
  /\ events' = <<>>
  /\ handler' = Idle
  /\ failures' = failures + 1
  /\ UNCHANGED <<entries, store, receiver, mirror, changes, refusals>>

Handle ==
  Begin \/ FlushPost \/ FlushRemove \/ FlushedCurrent \/ Allocate \/ PushPost \/ PushRemove

Next ==
  \/ \E i \in Items, operation \in Operations : Change(i, operation)
  \/ Handle \/ HandlerThrows \/ Restart

Spec == Init /\ [][Next]_vars

-----------------------------------------------------------------------------
TypeOK ==
  /\ entries \in [Items -> Nat]
  /\ events \in Seq(Keys)
  /\ handler = Idle \/ handler \in Running
  /\ store \in [sequence: Nat, outbox: SUBSET Bodies]
  /\ receiver \in [body: Bodies \cup {NoBody}, gap: BOOLEAN]
  /\ mirror \in [Items -> Nat]
  /\ changes \in Nat /\ refusals \in Nat /\ failures \in Nat

(* Once every handler has run and nothing waits, the receiver has every     *)
(* change or a gap that tells it to repair.                                 *)
UnseenChangeLeavesGap ==
  handler = Idle /\ events = <<>> /\ store.outbox = {} =>
    mirror = entries \/ receiver.gap
=============================================================================
