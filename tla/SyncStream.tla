----------------------------- MODULE SyncStream -----------------------------
(***************************************************************************)
(* One synchronised application: the sync service (external), the          *)
(* Connector's event loop (connect/src/stream-client.ts) and the runtime   *)
(* that persists every event into the Local Store (contfu/src/connect.ts). *)
(*                                                                         *)
(* The service keeps, per item, what it still owes this application.  It   *)
(* sends payloads of item events and snapshot markers; an ITEM_CHANGED     *)
(* carries a sparse patch against the version it last sent on this         *)
(* connection.  The Connector materialises patches against its own cache,  *)
(* the runtime persists the result in one transaction per event, and only  *)
(* when a payload was consumed to its end does the Connector send an ACK,  *)
(* which names no payload: the service counts ACKs.  Connections drop,     *)
(* ACKs get lost, and the application crashes between any two events.      *)
(* On a WebSocket an ACK ends with its connection; over HTTP it is a       *)
(* request of its own, which names the key and no connection either, and   *)
(* may arrive when the next connection is open.                            *)
(*                                                                         *)
(* Collections are fixed here; schema, rename and removal of collections   *)
(* are the subject of the module SyncLifecycle of the plan.                *)
(***************************************************************************)
EXTENDS Naturals, Sequences

CONSTANTS
  Collections,   \* destination collection names
  Ids,           \* item ids, unique within a collection only
  Props,         \* property names of an item
  Values,        \* property values
  Unset,         \* an item does not have the property; null in a patch
  Omitted,       \* a patch does not mention the property
  Absent,        \* no (live) item
  Unscoped,      \* the scope of a legacy SNAPSHOT_START without collections
  InitialSources,  \* what the application may have replicated before
  BatchSize,     \* most events in a payload
  MaxChanges,    \* bound: upstream changes and redelivery requests
  MaxFaults,     \* bound: drops, crashes, lost ACKs and target resets
  MaxSnapshots,  \* bound: snapshots the service starts without needing one
  MaxStray,      \* bound: ACK requests of earlier connections on their way
  MaxWire        \* bound: events on the wire

Keys == Collections \X Ids
Items == [Props -> Values \cup {Unset}]
ItemOrAbsent == {Absent} \cup Items
Versions == [Keys -> ItemOrAbsent]
Scopes == {Unscoped} \cup (SUBSET Collections \ {{}})

ASSUME SentinelAssumption ==
  /\ Unset \notin Values /\ Omitted \notin Values /\ Omitted # Unset
  /\ \A item \in Items : item # Absent
  /\ \A scope \in SUBSET Collections : scope # Unscoped
ASSUME InitialAssumption == InitialSources \subseteq Versions
ASSUME BoundAssumption ==
  /\ BatchSize \in Nat /\ MaxChanges \in Nat /\ MaxFaults \in Nat
  /\ MaxSnapshots \in Nat /\ MaxStray \in Nat /\ MaxWire \in Nat

VARIABLES
  \* The sync service.
  source,        \* the version of every item the application should have
  due,           \* what the service owes per item
  sentIn,        \* number of the payload of this connection that carried it
  base,          \* the version last sent on this connection
  payloads,      \* payloads sent on this connection
  acked,         \* ACKs received on this connection
  snapshot,      \* the snapshot in progress on this connection
  ahead,         \* history: an ACK of an earlier connection was counted on this one
  misled,        \* history: items last settled on a connection with such an ACK
  \* The transport.
  phase,         \* the connection as the Connector sees it
  wire,          \* events sent or buffered, not yet consumed
  acks,          \* ACKs on their way to the service
  stray,         \* ACK requests of earlier connections on their way
  \* The application.
  materialized,  \* the Connector's cache of materialised items
  candidates,    \* items a completed snapshot would remove
  ackOwed,       \* a payload was consumed, its ACK not yet sent
  store,         \* live items of the Local Store (the only durable part)
  \* Bounds.
  changes, faults, snapshots

serviceVars == <<source, due, sentIn, base, payloads, acked, snapshot, ahead, misled>>
transportVars == <<phase, wire, acks, stray>>
clientVars == <<materialized, candidates, ackOwed, store>>
boundVars == <<changes, faults, snapshots>>
vars == <<serviceVars, transportVars, clientVars, boundVars>>

-----------------------------------------------------------------------------
(* Sparse item patches (core/src/wire.ts).                                 *)

NoProps == [p \in Props |-> Unset]

(* Faulty variant: a property the patch omits is taken as not set at all.  *)
DropOmittedProps(previous, patch) ==
  [p \in Props |-> IF patch[p] = Omitted THEN Unset ELSE patch[p]]

(* Faulty variant: the patch is stored without being applied.              *)
StorePatchAsProps(previous, patch) == patch

(* An omitted property keeps its value, null removes it.                   *)
PatchProps(previous, patch) ==
  [p \in Props |-> IF patch[p] = Omitted THEN previous[p] ELSE patch[p]]

Materialize(patch, previous) ==
  PatchProps(IF previous = Absent THEN NoProps ELSE previous, patch)

(* A first version is sent whole: it has no key for a property not set.    *)
DiffPatch(previous, next) ==
  [p \in Props |->
     IF next[p] = (IF previous = Absent THEN Unset ELSE previous[p])
     THEN Omitted ELSE next[p]]

-----------------------------------------------------------------------------
(* Events.  A patch is represented by the versions it was computed from:   *)
(* "before" is the service's baseline when it built the event.             *)

ItemEvents ==
  {e \in [kind: {"changed", "deleted"}, key: Keys, item: ItemOrAbsent,
          before: Versions, payload: Nat, last: BOOLEAN] :
     e.kind = "deleted" <=> e.item = Absent}
MarkerEvents == [kind: {"start", "end"}, scope: Scopes,
                 before: Versions, payload: Nat, last: {TRUE}]
Events == ItemEvents \cup MarkerEvents

Covers(scope, key) == scope = Unscoped \/ key[1] \in scope
ClearScope(versions, scope) ==
  [k \in Keys |-> IF Covers(scope, k) THEN Absent ELSE versions[k]]
NothingSent == [k \in Keys |-> Absent]

(* The baseline after an event was sent or consumed.                       *)
After(e) ==
  CASE e.kind \in {"changed", "deleted"} -> [e.before EXCEPT ![e.key] = e.item]
    [] e.kind = "start" -> ClearScope(e.before, e.scope)
    [] OTHER -> e.before

(* The events of w were built one after the other, the first against first. *)
Chain(first, w) ==
  \A i \in DOMAIN w : w[i].before = IF i = 1 THEN first ELSE After(w[i - 1])

NoSnapshot == [open |-> FALSE, scope |-> Unscoped, todo |-> {}]

-----------------------------------------------------------------------------
(* The sync service.  It is not part of the repository: these actions say  *)
(* what the Connector and the runtime rely on.                             *)

SourceChange(k, item) ==
  /\ changes < MaxChanges
  /\ item # source[k]
  /\ source' = [source EXCEPT ![k] = item]
  /\ due' = [due EXCEPT ![k] = "dirty"]
  /\ sentIn' = [sentIn EXCEPT ![k] = 0]
  /\ changes' = changes + 1
  /\ UNCHANGED <<base, payloads, acked, snapshot, ahead, misled, transportVars,
                 clientVars, faults, snapshots>>

(* A refresh command makes the service send an item again, unchanged.      *)
Redeliver(k) ==
  /\ changes < MaxChanges
  /\ due[k] = "clean"
  /\ due' = [due EXCEPT ![k] = "dirty"]
  /\ changes' = changes + 1
  /\ UNCHANGED <<source, sentIn, base, payloads, acked, snapshot, ahead, misled,
                 transportVars, clientVars, faults, snapshots>>

Batches == {b \in UNION {[1..n -> Keys] : n \in 1..BatchSize} :
              \A i, j \in DOMAIN b : b[i] = b[j] => i = j}
InBatch(b, k) == \E i \in DOMAIN b : b[i] = k

BaseBefore(b, i) ==
  [k \in Keys |-> IF \E j \in 1..(i - 1) : b[j] = k THEN source[k] ELSE base[k]]

BatchEvent(b, i) ==
  [kind |-> IF source[b[i]] = Absent THEN "deleted" ELSE "changed",
   key |-> b[i], item |-> source[b[i]], before |-> BaseBefore(b, i),
   payload |-> payloads + 1, last |-> (i = Len(b))]

SendItems(b) ==
  /\ phase = "open" /\ Len(wire) + Len(b) <= MaxWire
  /\ \A i \in DOMAIN b : due[b[i]] = "dirty"
  /\ wire' = wire \o [i \in DOMAIN b |-> BatchEvent(b, i)]
  /\ base' = BaseBefore(b, Len(b) + 1)
  /\ due' = [k \in Keys |-> IF InBatch(b, k) THEN "sent" ELSE due[k]]
  /\ sentIn' = [k \in Keys |-> IF InBatch(b, k) THEN payloads + 1 ELSE sentIn[k]]
  /\ payloads' = payloads + 1
  /\ snapshot' = [snapshot EXCEPT !.todo = {k \in @ : ~InBatch(b, k)}]
  /\ UNCHANGED <<source, acked, ahead, misled, phase, acks, stray, clientVars, boundVars>>

Forgotten == {k \in Keys : due[k] = "forgotten"}

(* An authoritative snapshot sends every live item of its scope again.     *)
SendSnapshotStart(scope) ==
  LET live == {k \in Keys : Covers(scope, k) /\ source[k] # Absent} IN
  /\ phase = "open" /\ Len(wire) < MaxWire
  /\ IF Forgotten # {} /\ ~snapshot.open /\ scope = Collections
     THEN UNCHANGED snapshots
     ELSE snapshots < MaxSnapshots /\ snapshots' = snapshots + 1
  /\ wire' = Append(wire, [kind |-> "start", scope |-> scope, before |-> base,
                           payload |-> payloads + 1, last |-> TRUE])
  /\ base' = ClearScope(base, scope)
  /\ due' = [k \in Keys |-> IF k \in live THEN "dirty" ELSE due[k]]
  /\ sentIn' = [k \in Keys |-> IF k \in live THEN 0 ELSE sentIn[k]]
  /\ payloads' = payloads + 1
  /\ snapshot' = [open |-> TRUE, scope |-> scope, todo |-> live]
  /\ UNCHANGED <<source, acked, ahead, misled, phase, acks, stray, clientVars,
                 changes, faults>>

(* An item the service has no record of and no version for is delivered by *)
(* the end of a snapshot with an explicit scope.                           *)
SendSnapshotEnd ==
  LET gone == {k \in Forgotten : /\ source[k] = Absent
                                 /\ snapshot.scope # Unscoped /\ Covers(snapshot.scope, k)}
  IN
  /\ phase = "open" /\ Len(wire) < MaxWire
  /\ snapshot.open /\ snapshot.todo = {}
  /\ wire' = Append(wire, [kind |-> "end", scope |-> snapshot.scope, before |-> base,
                           payload |-> payloads + 1, last |-> TRUE])
  /\ payloads' = payloads + 1
  /\ due' = [k \in Keys |-> IF k \in gone THEN "sent" ELSE due[k]]
  /\ sentIn' = [k \in Keys |-> IF k \in gone THEN payloads + 1 ELSE sentIn[k]]
  /\ snapshot' = NoSnapshot
  /\ UNCHANGED <<source, base, acked, ahead, misled, phase, acks, stray, clientVars,
                 boundVars>>

(* An ACK settles the oldest payload not yet settled.  Behind an ACK of an  *)
(* earlier connection, every one settles a payload too many.               *)
CountAck ==
  LET settled == {k \in Keys : due[k] = "sent" /\ sentIn[k] <= acked + 1} IN
  /\ phase = "open" /\ acked < payloads
  /\ acked' = acked + 1
  /\ due' = [k \in Keys |-> IF k \in settled THEN "clean" ELSE due[k]]
  /\ sentIn' = [k \in Keys |-> IF k \in settled THEN 0 ELSE sentIn[k]]
  /\ misled' = IF ahead' THEN misled \cup settled ELSE misled \ settled
  /\ UNCHANGED <<source, base, payloads, snapshot, phase, wire, clientVars, boundVars>>

ReceiveAck ==
  /\ acks > 0 /\ acks' = acks - 1
  /\ ahead' = ahead
  /\ CountAck
  /\ UNCHANGED stray

(* The service cannot tell the ACK of an earlier connection.               *)
ReceiveStrayAck ==
  /\ stray > 0 /\ stray' = stray - 1
  /\ ahead' = TRUE
  /\ CountAck
  /\ UNCHANGED acks

(* ACK requests that outlive their connection; more than the bound are lost. *)
Left(n) == IF stray + n <= MaxStray THEN stray + n ELSE MaxStray

(* What the service keeps of a connection that ended: everything sent and  *)
(* not settled is owed again.                                              *)
Unsettled == [k \in Keys |-> IF due[k] = "sent" THEN "dirty" ELSE due[k]]
ConnectionLost(owed) ==
  /\ due' = owed
  /\ sentIn' = [k \in Keys |-> 0]
  /\ base' = NothingSent
  /\ payloads' = 0
  /\ acked' = 0
  /\ snapshot' = NoSnapshot
  /\ ahead' = FALSE
  /\ acks' = 0 /\ stray' = Left(acks)
  /\ UNCHANGED <<source, misled>>

-----------------------------------------------------------------------------
(* The Connector opens a connection: its cache starts empty.               *)

(* Faulty variant: the cache survives into the next connection.            *)
KeepCacheOnConnect == materialized' = materialized
CacheOnConnect == materialized' = NothingSent

Connect ==
  /\ phase = "waiting"
  /\ phase' = "open"
  /\ CacheOnConnect
  /\ candidates' = {}                          \* STREAM_CONNECTED
  /\ UNCHANGED <<serviceVars, wire, acks, stray, ackOwed, store, boundVars>>

(* The transport closes.  What was received stays buffered, a payload whole *)
(* or not at all, and is still consumed; the rest is lost.                  *)
Received == {0} \cup {n \in DOMAIN wire : wire[n].last}

DropConnection ==
  /\ phase = "open" /\ faults < MaxFaults
  /\ phase' = "closing"
  /\ \E n \in Received : wire' = SubSeq(wire, 1, n)
  /\ ConnectionLost(Unsettled)
  /\ faults' = faults + 1
  /\ UNCHANGED <<clientVars, changes, snapshots>>

(* A full resync of the target fences the stream: the service ends it and   *)
(* remembers nothing of what the application has.                           *)
ResetTarget ==
  /\ phase = "open" /\ faults < MaxFaults
  /\ phase' = "closing"
  /\ \E n \in Received : wire' = SubSeq(wire, 1, n)
  /\ ConnectionLost([k \in Keys |-> "forgotten"])
  /\ faults' = faults + 1
  /\ UNCHANGED <<clientVars, changes, snapshots>>

(* Everything buffered was consumed: STREAM_DISCONNECTED, then back off.    *)
Disconnected ==
  /\ phase = "closing" /\ wire = <<>> /\ ~ackOwed
  /\ phase' = "waiting"
  /\ candidates' = {}
  /\ UNCHANGED <<serviceVars, wire, acks, stray, materialized, ackOwed, store, boundVars>>

(* The application stops and starts again: only the Local Store remains.    *)
Crash ==
  /\ phase # "waiting" /\ faults < MaxFaults
  /\ phase' = "waiting"
  /\ wire' = <<>>
  /\ materialized' = NothingSent
  /\ candidates' = {}
  /\ ackOwed' = FALSE
  /\ IF phase = "open" THEN ConnectionLost(Unsettled) ELSE UNCHANGED <<serviceVars, acks, stray>>
  /\ faults' = faults + 1
  /\ UNCHANGED <<store, changes, snapshots>>

-----------------------------------------------------------------------------
(* The event loop.  One event is materialised, persisted in a transaction   *)
(* and handed to the application before the next one is taken.              *)

(* Faulty variant: an ACK after every event instead of every payload.       *)
AckEveryEvent(e) == ackOwed' = TRUE

Consume(e) == ackOwed' = e.last

Take(kind) ==
  /\ phase \in {"open", "closing"} /\ ~ackOwed
  /\ wire # <<>> /\ Head(wire).kind = kind
  /\ wire' = Tail(wire)
  /\ Consume(Head(wire))
  /\ UNCHANGED <<serviceVars, phase, acks, stray, boundVars>>

(* Faulty variant: an item that arrived is still taken for missing.         *)
KeepCandidate(k) == candidates

(* An item the snapshot mentions is not removed at its end.                 *)
WithoutCandidate(k) == candidates \ {k}

ItemChanged ==
  /\ Take("changed")
  /\ LET e == Head(wire)
         item == Materialize(DiffPatch(e.before[e.key], e.item), materialized[e.key])
     IN /\ materialized' = [materialized EXCEPT ![e.key] = item]
        /\ store' = [store EXCEPT ![e.key] = item]
        /\ candidates' = WithoutCandidate(e.key)

ItemDeleted ==
  /\ Take("deleted")
  /\ LET k == Head(wire).key
     IN /\ materialized' = [materialized EXCEPT ![k] = Absent]
        /\ store' = [store EXCEPT ![k] = Absent]
        /\ candidates' = WithoutCandidate(k)

(* Faulty variant: every stored item is a candidate, whatever the scope.    *)
AllLiveItems(scope) == {k \in Keys : store[k] # Absent}

(* Only an explicit scope is authoritative about what is missing.           *)
SnapshotCandidates(scope) ==
  IF scope = Unscoped THEN {}
  ELSE {k \in Keys : k[1] \in scope /\ store[k] # Absent}

(* Faulty variant: the baselines survive the start of a snapshot.           *)
KeepCacheOnStart(scope) == materialized

ClearMaterialized(scope) == ClearScope(materialized, scope)

SnapshotStart ==
  /\ Take("start")
  /\ materialized' = ClearMaterialized(Head(wire).scope)
  /\ candidates' = SnapshotCandidates(Head(wire).scope)
  /\ UNCHANGED store

(* Faulty variant: nothing is removed at the end of a snapshot.             *)
KeepMissing == store
PruneMissing == [k \in Keys |-> IF k \in candidates THEN Absent ELSE store[k]]

SnapshotEnd ==
  /\ Take("end")
  /\ store' = PruneMissing
  /\ candidates' = {}
  /\ UNCHANGED materialized

(* After a closed connection the ACK of a WebSocket goes nowhere; over HTTP *)
(* it is sent all the same.  A stray ACK that never arrives was lost.       *)
SendAck ==
  /\ ackOwed
  /\ ackOwed' = FALSE
  /\ IF phase = "open" THEN acks' = acks + 1 /\ UNCHANGED stray
     ELSE stray' = Left(1) /\ UNCHANGED acks
  /\ UNCHANGED <<serviceVars, phase, wire, materialized, candidates, store, boundVars>>

LoseAck ==
  /\ ackOwed /\ phase = "open" /\ faults < MaxFaults
  /\ ackOwed' = FALSE
  /\ faults' = faults + 1
  /\ UNCHANGED <<serviceVars, transportVars, materialized, candidates, store,
                 changes, snapshots>>

-----------------------------------------------------------------------------
(* A first connection with an empty Local Store, or a later one.            *)
Init ==
  /\ source \in InitialSources
  /\ \/ store = source /\ due = [k \in Keys |-> "clean"]
     \/ /\ store = NothingSent
        /\ due = [k \in Keys |-> IF source[k] = Absent THEN "clean" ELSE "dirty"]
  /\ sentIn = [k \in Keys |-> 0]
  /\ base = NothingSent
  /\ payloads = 0 /\ acked = 0
  /\ snapshot = NoSnapshot
  /\ ahead = FALSE /\ misled = {}
  /\ phase = "waiting" /\ wire = <<>> /\ acks = 0 /\ stray = 0
  /\ materialized = NothingSent /\ candidates = {} /\ ackOwed = FALSE
  /\ changes = 0 /\ faults = 0 /\ snapshots = 0

Service ==
  \/ \E k \in Keys : Redeliver(k)
  \/ \E k \in Keys, item \in ItemOrAbsent : SourceChange(k, item)
  \/ \E b \in Batches : SendItems(b)
  \/ \E scope \in Scopes : SendSnapshotStart(scope)
  \/ SendSnapshotEnd
  \/ ReceiveAck \/ ReceiveStrayAck
  \/ ResetTarget

EventLoop ==
  \/ Connect
  \/ ItemChanged
  \/ ItemDeleted
  \/ SnapshotStart
  \/ SnapshotEnd
  \/ SendAck
  \/ Disconnected

Failures == DropConnection \/ LoseAck \/ Crash

Next == Service \/ EventLoop \/ Failures

Spec == Init /\ [][Next]_vars

(* The Connector retries until it is connected and consumes what arrives;   *)
(* the service eventually sends what it owes.                               *)
Fairness ==
  /\ WF_vars(EventLoop)
  /\ \A k \in Keys : WF_vars(\E b \in Batches : InBatch(b, k) /\ SendItems(b))
  /\ WF_vars(Forgotten # {} /\ SendSnapshotStart(Collections))
  /\ WF_vars(SendSnapshotEnd)

FairSpec == Spec /\ Fairness

-----------------------------------------------------------------------------
TypeOK ==
  /\ source \in Versions
  /\ due \in [Keys -> {"clean", "dirty", "sent", "forgotten"}]
  /\ sentIn \in [Keys -> Nat]
  /\ base \in Versions
  /\ payloads \in Nat /\ acked \in Nat
  /\ snapshot \in [open: BOOLEAN, scope: Scopes, todo: SUBSET Keys]
  /\ ahead \in BOOLEAN /\ misled \in SUBSET Keys
  /\ phase \in {"waiting", "open", "closing"}
  /\ wire \in Seq(Events)
  /\ acks \in Nat /\ stray \in Nat
  /\ materialized \in Versions
  /\ candidates \in SUBSET Keys
  /\ ackOwed \in BOOLEAN
  /\ store \in Versions
  /\ changes \in Nat /\ faults \in Nat /\ snapshots \in Nat

(* The baseline a patch was computed from is the version the Connector has  *)
(* when it comes to apply it, across snapshots, reconnections and restarts. *)
BaselineAgreement == Chain(materialized, wire)

(* However many ACKs the service has counted or will count on a connection, *)
(* they settle only payloads whose every event was persisted, as long as no *)
(* ACK of an earlier connection came among them: an ACK names no payload,   *)
(* so one too many settles events still in a buffer.                        *)
AcksFollowPersistence ==
  phase = "open" /\ ~ahead =>
    \A i \in DOMAIN wire :
      wire[i].payload > acked + acks + (IF ackOwed THEN 1 ELSE 0)

(* An item sent and not yet acknowledged is stored, or what remains on the  *)
(* wire will store it: its own event, or the end of a snapshot that removes *)
(* it.  No snapshot ends by removing an item the connection delivered.      *)
SentIsInFlightOrStored ==
  \A k \in Keys : due[k] = "sent" =>
    \/ store[k] = source[k]
    \/ \E i \in DOMAIN wire :
         \/ /\ wire[i].kind \in {"changed", "deleted"}
            /\ wire[i].key = k /\ wire[i].item = source[k]
         \/ /\ wire[i].kind = "end" /\ source[k] = Absent
            /\ wire[i].scope # Unscoped /\ Covers(wire[i].scope, k)

(* What was acknowledged is in the Local Store.  It is not, if an ACK ran   *)
(* ahead: the README lists it among the differences from the docs.          *)
ConfirmedIsStored == \A k \in Keys : due[k] = "clean" => store[k] = source[k]

(* The replica a reader of the Local Store may rely on: what the service    *)
(* regards as delivered is stored, unless it was last settled behind an ACK *)
(* of an earlier connection.  No ACK of its own runs ahead of persistence,  *)
(* no lost ACK settles a payload it does not belong to, and no snapshot     *)
(* removes or resurrects a settled item.                                    *)
Settled == {k \in Keys : due[k] = "clean"} \ misled
Abstract == INSTANCE Replica WITH
  ItemVersions <- ItemOrAbsent, upstream <- source, replica <- store,
  settled <- Settled
ImplementsReplica == Abstract!Spec

(* Once changes, faults and snapshots end, the Local Store holds exactly    *)
(* the live items of the source, but for those an ACK of an earlier         *)
(* connection had the service forget about.                                 *)
Converges == <>[](\A k \in Keys \ misled : store[k] = source[k])
=============================================================================
