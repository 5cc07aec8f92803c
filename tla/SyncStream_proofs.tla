-------------------------- MODULE SyncStream_proofs --------------------------
(***************************************************************************)
(* SyncStream for all constants: type correctness, the agreement of the    *)
(* baselines on both ends of a connection, that an ACK follows persistence, *)
(* that what was sent arrives, and that the whole implements Replica.  An  *)
(* ACK may outlive its connection and be counted on a later one: what is   *)
(* settled there from then on (misled) is all that the invariants exempt.  *)
(***************************************************************************)
EXTENDS SyncStream, SequenceTheorems, TLAPS

(* The baseline after everything on the wire was consumed.                  *)
Tip(first, w) == IF w = <<>> THEN first ELSE After(w[Len(w)])

-----------------------------------------------------------------------------
(* Patches.                                                                *)

LEMMA DiffType ==
  ASSUME NEW previous \in ItemOrAbsent, NEW next \in Items
  PROVE  DiffPatch(previous, next) \in [Props -> Values \cup {Unset, Omitted}]
  BY DEF DiffPatch, Items

(* Materialising the patch computed from a baseline against that baseline  *)
(* yields the item: diffWireItemPatch and materializeWireItemPatch.        *)
LEMMA MaterializeInvertsDiff ==
  ASSUME NEW previous \in ItemOrAbsent, NEW next \in Items
  PROVE  Materialize(DiffPatch(previous, next), previous) = next
<1> DEFINE old == IF previous = Absent THEN NoProps ELSE previous
<1>1. old \in Items
  BY DEF ItemOrAbsent, Items, NoProps
<1>2. \A p \in Props : (IF previous = Absent THEN Unset ELSE previous[p]) = old[p]
  BY DEF NoProps
<1>3. \A p \in Props : next[p] # Omitted
  BY SentinelAssumption DEF Items
<1>4. DiffPatch(previous, next) =
        [p \in Props |-> IF next[p] = old[p] THEN Omitted ELSE next[p]]
  BY <1>2 DEF DiffPatch
<1>5. Materialize(DiffPatch(previous, next), previous) =
        PatchProps(old, [p \in Props |-> IF next[p] = old[p] THEN Omitted ELSE next[p]])
  BY <1>4 DEF Materialize
<1>6. PatchProps(old, [p \in Props |-> IF next[p] = old[p] THEN Omitted ELSE next[p]])
        = [p \in Props |-> next[p]]
  BY <1>3 DEF PatchProps
<1>7. [p \in Props |-> next[p]] = next
  BY DEF Items
<1> QED BY <1>5, <1>6, <1>7

-----------------------------------------------------------------------------
(* Events and chains of events.                                            *)

LEMMA AfterType ==
  ASSUME NEW e \in Events
  PROVE  After(e) \in Versions
  BY DEF Events, ItemEvents, MarkerEvents, After, Versions, ItemOrAbsent, ClearScope

LEMMA ChainTail ==
  ASSUME NEW w \in Seq(Events), NEW first, w # <<>>, Chain(first, w)
  PROVE  /\ Head(w) \in Events
         /\ Head(w).before = first
         /\ Tail(w) \in Seq(Events)
         /\ Chain(After(Head(w)), Tail(w))
         /\ Tip(After(Head(w)), Tail(w)) = Tip(first, w)
<1>1. /\ Len(w) \in Nat \ {0} /\ DOMAIN w = 1..Len(w)
      /\ Head(w) = w[1] /\ Head(w) \in Events
  BY EmptySeq, LenProperties, HeadTailProperties
<1>2. /\ Tail(w) \in Seq(Events) /\ Len(Tail(w)) = Len(w) - 1
      /\ \A i \in 1..Len(Tail(w)) : Tail(w)[i] = w[i + 1]
  BY HeadTailProperties
<1>3. DOMAIN Tail(w) = 1..(Len(w) - 1) /\ (Tail(w) = <<>> <=> Len(Tail(w)) = 0)
  BY <1>2, LenProperties, EmptySeq
<1>4. w[1].before = first
  BY <1>1 DEF Chain
<1>5. ASSUME NEW i \in DOMAIN Tail(w)
      PROVE  Tail(w)[i].before = IF i = 1 THEN After(w[1]) ELSE After(Tail(w)[i - 1])
  <2>1. i + 1 \in DOMAIN w /\ i + 1 # 1 /\ (i + 1) - 1 = i
    BY <1>1, <1>3
  <2>2. w[i + 1].before = After(w[i])
    BY <2>1 DEF Chain
  <2>3. i # 1 => i - 1 \in 1..Len(Tail(w)) /\ (i - 1) + 1 = i
    BY <1>1, <1>2, <1>3
  <2> QED BY <1>2, <1>3, <2>2, <2>3
<1>6. Tip(After(w[1]), Tail(w)) = Tip(first, w)
  <2>1. CASE Len(w) = 1
    <3>1. Tail(w) = <<>>
      BY <1>1, <1>2, <1>3, <2>1
    <3> QED BY <2>1, <3>1 DEF Tip
  <2>2. CASE Len(w) # 1
    <3>1. Tail(w) # <<>> /\ Len(Tail(w)) \in 1..Len(Tail(w)) /\ Len(Tail(w)) + 1 = Len(w)
      BY <1>1, <1>2, <1>3, <2>2
    <3> QED BY <1>2, <3>1 DEF Tip
  <2> QED BY <2>1, <2>2
<1> QED BY <1>1, <1>2, <1>4, <1>5, <1>6 DEF Chain

LEMMA ChainConcat ==
  ASSUME NEW w \in Seq(Events), NEW more \in Seq(Events), NEW first,
         Chain(first, w), Chain(Tip(first, w), more)
  PROVE  /\ w \o more \in Seq(Events)
         /\ Chain(first, w \o more)
         /\ Tip(first, w \o more) = Tip(Tip(first, w), more)
<1> DEFINE all == w \o more
<1>1. /\ all \in Seq(Events) /\ Len(all) = Len(w) + Len(more)
      /\ \A i \in 1..(Len(w) + Len(more)) :
           all[i] = IF i <= Len(w) THEN w[i] ELSE more[i - Len(w)]
  BY ConcatProperties
<1>2. /\ Len(w) \in Nat /\ DOMAIN w = 1..Len(w)
      /\ Len(more) \in Nat /\ DOMAIN more = 1..Len(more)
      /\ DOMAIN all = 1..(Len(w) + Len(more))
      /\ (w = <<>> <=> Len(w) = 0) /\ (more = <<>> <=> Len(more) = 0)
  BY <1>1, LenProperties, EmptySeq
<1> HIDE DEF all
<1>3. ASSUME NEW i \in DOMAIN all
      PROVE  all[i].before = IF i = 1 THEN first ELSE After(all[i - 1])
  <2>1. i \in Nat /\ i >= 1
    BY <1>2
  <2>2. CASE i <= Len(w)
    <3>1. i \in DOMAIN w /\ all[i] = w[i] /\ (i # 1 => all[i - 1] = w[i - 1])
      BY <1>1, <1>2, <2>2
    <3> QED BY <3>1 DEF Chain
  <2>3. CASE i = Len(w) + 1
    <3>1. 1 \in DOMAIN more /\ all[i] = more[1]
      BY <1>1, <1>2, <2>3
    <3>2. more[1].before = Tip(first, w)
      BY <3>1 DEF Chain
    <3>3. i # 1 => w # <<>> /\ all[i - 1] = w[Len(w)]
      BY <1>1, <1>2, <2>3
    <3>4. i = 1 => w = <<>>
      BY <1>2, <2>3
    <3> QED BY <3>1, <3>2, <3>3, <3>4 DEF Tip
  <2>4. CASE i > Len(w) + 1
    <3> DEFINE j == i - Len(w)
    <3>1. j \in DOMAIN more /\ j # 1 /\ all[i] = more[j]
      BY <1>1, <1>2, <2>4
    <3>2. i # 1 /\ all[i - 1] = more[j - 1]
      BY <1>1, <1>2, <2>4
    <3> QED BY <3>1, <3>2 DEF Chain
  <2> QED BY <1>2, <2>1, <2>2, <2>3, <2>4
<1>4. Tip(first, all) = Tip(Tip(first, w), more)
  <2>1. CASE more = <<>>
    <3>1. all = w
      BY <2>1, ConcatEmptySeq DEF all
    <3> QED BY <2>1, <3>1 DEF Tip
  <2>2. CASE more # <<>>
    <3>1. all # <<>> /\ all[Len(all)] = more[Len(more)]
      BY <1>1, <1>2, <2>2
    <3> QED BY <2>2, <3>1 DEF Tip
  <2> QED BY <2>1, <2>2
<1> QED BY <1>1, <1>3, <1>4 DEF Chain, all

LEMMA ChainAppend ==
  ASSUME NEW w \in Seq(Events), NEW e \in Events, NEW first,
         Chain(first, w), e.before = Tip(first, w)
  PROVE  /\ Append(w, e) \in Seq(Events)
         /\ Chain(first, Append(w, e))
         /\ Tip(first, Append(w, e)) = After(e)
<1> DEFINE one == <<e>>
<1>1. one \in Seq(Events) /\ Len(one) = 1 /\ one[1] = e /\ one # <<>> /\ DOMAIN one = {1}
  OBVIOUS
<1>3. Append(w, e) = w \o one
  BY AppendIsConcat
<1> HIDE DEF one
<1>2. Chain(Tip(first, w), one)
  BY <1>1 DEF Chain
<1>4. Tip(Tip(first, w), one) = After(e)
  BY <1>1 DEF Tip
<1> QED BY <1>1, <1>2, <1>3, <1>4, ChainConcat

LEMMA ChainPrefix ==
  ASSUME NEW w \in Seq(Events), NEW first, Chain(first, w), NEW n \in Received, wire = w
  PROVE  SubSeq(w, 1, n) \in Seq(Events) /\ Chain(first, SubSeq(w, 1, n))
<1>1. Len(w) \in Nat /\ DOMAIN w = 1..Len(w) /\ n \in 0..Len(w)
  BY LenProperties DEF Received
<1>2. \A i \in 1..n : w[i] \in Events
  BY <1>1, ElementOfSeq
<1> DEFINE s == SubSeq(w, 1, n)
<1>3. /\ s \in Seq(Events)
      /\ Len(s) = IF 1 <= n THEN n - 1 + 1 ELSE 0
      /\ \A i \in 1..(n - 1 + 1) : s[i] = w[1 + i - 1]
  BY <1>1, <1>2, SubSeqProperties
<1>4. Len(s) = n /\ DOMAIN s = 1..n /\ \A i \in 1..n : s[i] = w[i]
  BY <1>1, <1>3, LenProperties
<1> HIDE DEF s
<1>5. \A i \in DOMAIN s : s[i].before = IF i = 1 THEN first ELSE After(s[i - 1])
  BY <1>1, <1>4 DEF Chain
<1> QED BY <1>3, <1>5 DEF Chain, s

-----------------------------------------------------------------------------
(* Type correctness.                                                       *)

LEMMA BatchType ==
  ASSUME TypeOK, NEW b \in Batches
  PROVE  /\ Len(b) \in Nat \ {0} /\ DOMAIN b = 1..Len(b)
         /\ \A i \in DOMAIN b : BatchEvent(b, i) \in ItemEvents
         /\ [i \in DOMAIN b |-> BatchEvent(b, i)] \in Seq(Events)
         /\ BaseBefore(b, Len(b) + 1) \in Versions
<1>1. PICK n \in 1..BatchSize : b \in [1..n -> Keys]
  BY DEF Batches
<1>2. n \in Nat \ {0} /\ Len(b) = n /\ DOMAIN b = 1..n
  BY <1>1, BoundAssumption
<1>3. \A i : BaseBefore(b, i) \in Versions
  BY DEF TypeOK, BaseBefore, Versions
<1>4. ASSUME NEW i \in DOMAIN b PROVE BatchEvent(b, i) \in ItemEvents
  <2>1. b[i] \in Keys /\ source[b[i]] \in ItemOrAbsent
    BY <1>1, <1>2 DEF TypeOK, Versions
  <2>2. payloads + 1 \in Nat
    BY DEF TypeOK
  <2> QED BY <1>3, <2>1, <2>2 DEF BatchEvent, ItemEvents
<1>5. \A i \in DOMAIN b : BatchEvent(b, i) \in Events
  BY <1>4 DEF Events
<1>6. [i \in DOMAIN b |-> BatchEvent(b, i)] \in [1..n -> Events]
  BY <1>2, <1>5
<1>7. [i \in DOMAIN b |-> BatchEvent(b, i)] \in Seq(Events)
  BY <1>2, <1>6, SeqDef
<1> QED BY <1>2, <1>3, <1>4, <1>7

LEMMA InitType == Init => TypeOK
<1> SUFFICES ASSUME Init PROVE TypeOK
  OBVIOUS
<1>1. source \in Versions /\ NothingSent \in Versions
  BY InitialAssumption DEF Init, NothingSent, Versions, ItemOrAbsent
<1>2. due \in [Keys -> {"clean", "dirty", "sent", "forgotten"}]
  BY DEF Init
<1>3. NoSnapshot \in [open: BOOLEAN, scope: Scopes, todo: SUBSET Keys]
  BY DEF NoSnapshot, Scopes
<1>4. store \in Versions /\ base \in Versions /\ materialized \in Versions
  BY <1>1 DEF Init
<1>5. sentIn \in [Keys -> Nat] /\ <<>> \in Seq(Events)
  BY DEF Init
<1> QED BY <1>1, <1>2, <1>3, <1>4, <1>5 DEF Init, TypeOK

(* What an event is once it is taken from the wire.                         *)
LEMMA TakeType ==
  ASSUME TypeOK, NEW kind, Take(kind)
  PROVE  /\ Head(wire) \in Events /\ Head(wire).kind = kind
         /\ wire' \in Seq(Events) /\ ackOwed' \in BOOLEAN
<1>1. wire \in Seq(Events) /\ wire # <<>>
  BY DEF TypeOK, Take
<1>2. Head(wire) \in Events /\ Tail(wire) \in Seq(Events)
  BY <1>1, HeadTailProperties
<1>3. Head(wire).last \in BOOLEAN
  BY <1>2 DEF Events, ItemEvents, MarkerEvents
<1> QED BY <1>2, <1>3 DEF Take, Consume

LEMMA ConnectionLostType ==
  ASSUME TypeOK, NEW owed \in [Keys -> {"clean", "dirty", "sent", "forgotten"}],
         ConnectionLost(owed)
  PROVE  /\ source' = source /\ due' = owed
         /\ sentIn' \in [Keys -> Nat] /\ base' \in Versions
         /\ payloads' = 0 /\ acked' = 0 /\ acks' = 0 /\ stray' \in Nat
         /\ ahead' \in BOOLEAN /\ misled' \in SUBSET Keys
         /\ snapshot' \in [open: BOOLEAN, scope: Scopes, todo: SUBSET Keys]
<1>1. ahead' \in BOOLEAN /\ misled' \in SUBSET Keys
  BY Zenon DEF TypeOK, ConnectionLost
<1>2. stray' \in Nat
  BY BoundAssumption DEF TypeOK, ConnectionLost, Left
<1> QED
  BY <1>1, <1>2
     DEF TypeOK, ConnectionLost, NothingSent, Versions, ItemOrAbsent, NoSnapshot, Scopes

LEMMA ReceivedType ==
  ASSUME TypeOK, NEW n \in Received
  PROVE  SubSeq(wire, 1, n) \in Seq(Events)
<1>1. wire \in Seq(Events) /\ Len(wire) \in Nat /\ DOMAIN wire = 1..Len(wire)
  BY LenProperties DEF TypeOK
<1>2. n \in 0..Len(wire) /\ \A i \in 1..n : wire[i] \in Events
  BY <1>1, ElementOfSeq DEF Received
<1> QED BY <1>2, SubSeqProperties

LEMMA UnsettledType ==
  ASSUME TypeOK
  PROVE  /\ Unsettled \in [Keys -> {"clean", "dirty", "sent", "forgotten"}]
         /\ [k \in Keys |-> "forgotten"] \in [Keys -> {"clean", "dirty", "sent", "forgotten"}]
  BY DEF TypeOK, Unsettled

LEMMA NextType == TypeOK /\ [Next]_vars => TypeOK'
<1> SUFFICES ASSUME TypeOK, [Next]_vars PROVE TypeOK'
  OBVIOUS
<1> USE DEF serviceVars, transportVars, clientVars, boundVars
<1>1. ASSUME NEW k \in Keys, Redeliver(k) PROVE TypeOK'
  BY <1>1 DEF Redeliver, TypeOK
<1>2. ASSUME NEW k \in Keys, NEW item \in ItemOrAbsent, SourceChange(k, item) PROVE TypeOK'
  BY <1>2 DEF SourceChange, TypeOK, Versions
<1>3. ASSUME NEW b \in Batches, SendItems(b) PROVE TypeOK'
  <2>1. wire' \in Seq(Events) /\ base' \in Versions
    BY <1>3, BatchType, ConcatProperties DEF SendItems, TypeOK
  <2>2. due' \in [Keys -> {"clean", "dirty", "sent", "forgotten"}] /\ sentIn' \in [Keys -> Nat]
        /\ payloads' \in Nat
    BY <1>3 DEF SendItems, TypeOK
  <2>3. snapshot' \in [open: BOOLEAN, scope: Scopes, todo: SUBSET Keys]
    BY <1>3 DEF SendItems, TypeOK
  <2> QED BY <1>3, <2>1, <2>2, <2>3 DEF SendItems, TypeOK
<1>4. ASSUME NEW scope \in Scopes, SendSnapshotStart(scope) PROVE TypeOK'
  <2>1. wire' \in Seq(Events)
    <3>1. [kind |-> "start", scope |-> scope, before |-> base,
           payload |-> payloads + 1, last |-> TRUE] \in Events
      BY DEF Events, MarkerEvents, TypeOK
    <3> QED BY <1>4, <3>1, AppendProperties DEF SendSnapshotStart, TypeOK
  <2>2. base' \in Versions
    BY <1>4 DEF SendSnapshotStart, ClearScope, TypeOK, Versions, ItemOrAbsent
  <2>3. due' \in [Keys -> {"clean", "dirty", "sent", "forgotten"}] /\ sentIn' \in [Keys -> Nat]
        /\ payloads' \in Nat /\ snapshots' \in Nat
    BY <1>4 DEF SendSnapshotStart, TypeOK
  <2>4. snapshot' \in [open: BOOLEAN, scope: Scopes, todo: SUBSET Keys]
    BY <1>4 DEF SendSnapshotStart
  <2> QED BY <1>4, <2>1, <2>2, <2>3, <2>4 DEF SendSnapshotStart, TypeOK
<1>5. ASSUME SendSnapshotEnd PROVE TypeOK'
  <2>1. wire' \in Seq(Events)
    <3>1. [kind |-> "end", scope |-> snapshot.scope, before |-> base,
           payload |-> payloads + 1, last |-> TRUE] \in Events
      BY DEF Events, MarkerEvents, TypeOK
    <3> QED BY <1>5, <3>1, AppendProperties DEF SendSnapshotEnd, TypeOK
  <2>2. due' \in [Keys -> {"clean", "dirty", "sent", "forgotten"}] /\ sentIn' \in [Keys -> Nat]
        /\ payloads' \in Nat
    BY <1>5 DEF SendSnapshotEnd, TypeOK
  <2>3. snapshot' \in [open: BOOLEAN, scope: Scopes, todo: SUBSET Keys]
    BY <1>5 DEF SendSnapshotEnd, NoSnapshot, Scopes
  <2> QED BY <1>5, <2>1, <2>2, <2>3 DEF SendSnapshotEnd, TypeOK
<1>6. ASSUME ReceiveAck PROVE TypeOK'
  BY <1>6 DEF ReceiveAck, CountAck, TypeOK
<1>19. ASSUME ReceiveStrayAck PROVE TypeOK'
  <2>1. stray' \in Nat /\ acked' \in Nat /\ ahead' \in BOOLEAN
    BY <1>19 DEF ReceiveStrayAck, CountAck, TypeOK
  <2>2. misled' \in SUBSET Keys
    BY <1>19 DEF ReceiveStrayAck, CountAck, TypeOK
  <2> QED BY <1>19, <2>1, <2>2 DEF ReceiveStrayAck, CountAck, TypeOK
<1>7. ASSUME ResetTarget PROVE TypeOK'
  BY <1>7, UnsettledType, ConnectionLostType, ReceivedType DEF ResetTarget, TypeOK
<1>8. ASSUME Connect PROVE TypeOK'
  BY <1>8 DEF Connect, CacheOnConnect, NothingSent, TypeOK, Versions, ItemOrAbsent
<1>9. ASSUME ItemChanged PROVE TypeOK'
  <2> DEFINE e == Head(wire)
             patch == DiffPatch(e.before[e.key], e.item)
             item == Materialize(patch, materialized[e.key])
  <2>0. e \in Events /\ e.kind = "changed" /\ wire' \in Seq(Events) /\ ackOwed' \in BOOLEAN
    BY <1>9, TakeType DEF ItemChanged
  <2>1. /\ e \in ItemEvents /\ e.item \in Items /\ e.key \in Keys /\ e.before \in Versions
        /\ wire' \in Seq(Events) /\ ackOwed' \in BOOLEAN
    <3> HIDE DEF e
    <3> QED BY <2>0 DEF Events, ItemEvents, MarkerEvents, ItemOrAbsent
  <2>2. patch \in [Props -> Values \cup {Unset, Omitted}]
    BY <2>1, DiffType DEF Versions
  <2>3. materialized[e.key] \in ItemOrAbsent
    BY <2>1 DEF TypeOK, Versions
  <2>4. item \in Items
    BY <2>2, <2>3 DEF Materialize, PatchProps, NoProps, ItemOrAbsent, Items
  <2>5. materialized' \in Versions /\ store' \in Versions
    BY <1>9, <2>1, <2>4 DEF ItemChanged, TypeOK, Versions, ItemOrAbsent
  <2> QED BY <1>9, <2>1, <2>5 DEF ItemChanged, Take, WithoutCandidate, TypeOK
<1>10. ASSUME ItemDeleted PROVE TypeOK'
  <2>1. wire' \in Seq(Events) /\ ackOwed' \in BOOLEAN
    BY <1>10, TakeType DEF ItemDeleted
  <2>2. materialized' \in Versions /\ store' \in Versions
    BY <1>10 DEF ItemDeleted, TypeOK, Versions, ItemOrAbsent
  <2> QED BY <1>10, <2>1, <2>2 DEF ItemDeleted, Take, WithoutCandidate, TypeOK
<1>11. ASSUME SnapshotStart PROVE TypeOK'
  <2>1. wire' \in Seq(Events) /\ ackOwed' \in BOOLEAN
    BY <1>11, TakeType DEF SnapshotStart
  <2>2. materialized' \in Versions /\ candidates' \in SUBSET Keys
    BY <1>11 DEF SnapshotStart, ClearMaterialized, ClearScope, SnapshotCandidates,
                 TypeOK, Versions, ItemOrAbsent
  <2> QED BY <1>11, <2>1, <2>2 DEF SnapshotStart, Take, TypeOK
<1>12. ASSUME SnapshotEnd PROVE TypeOK'
  <2>1. wire' \in Seq(Events) /\ ackOwed' \in BOOLEAN
    BY <1>12, TakeType DEF SnapshotEnd
  <2>2. store' \in Versions
    BY <1>12 DEF SnapshotEnd, PruneMissing, TypeOK, Versions, ItemOrAbsent
  <2> QED BY <1>12, <2>1, <2>2 DEF SnapshotEnd, Take, TypeOK
<1>13. ASSUME SendAck PROVE TypeOK'
  <2>1. ackOwed' \in BOOLEAN
    BY <1>13, Zenon DEF SendAck
  <2>2. acks' \in Nat /\ stray' \in Nat
    BY <1>13, BoundAssumption DEF SendAck, Left, TypeOK
  <2> QED BY <1>13, <2>1, <2>2 DEF SendAck, TypeOK
<1>14. ASSUME Disconnected PROVE TypeOK'
  BY <1>14 DEF Disconnected, TypeOK
<1>15. ASSUME DropConnection PROVE TypeOK'
  <2>1. wire' \in Seq(Events)
    BY <1>15, ReceivedType DEF DropConnection
  <2>2. /\ source' \in Versions /\ due' \in [Keys -> {"clean", "dirty", "sent", "forgotten"}]
        /\ sentIn' \in [Keys -> Nat] /\ base' \in Versions
        /\ payloads' = 0 /\ acked' = 0 /\ acks' = 0 /\ stray' \in Nat
        /\ ahead' \in BOOLEAN /\ misled' \in SUBSET Keys
        /\ snapshot' \in [open: BOOLEAN, scope: Scopes, todo: SUBSET Keys]
    BY <1>15, UnsettledType, ConnectionLostType DEF DropConnection, TypeOK
  <2> QED BY <1>15, <2>1, <2>2 DEF DropConnection, TypeOK
<1>16. ASSUME LoseAck PROVE TypeOK'
  <2>1. ackOwed' \in BOOLEAN
    BY <1>16, Zenon DEF LoseAck
  <2>2. faults' \in Nat
    BY <1>16 DEF LoseAck, TypeOK
  <2> QED BY <1>16, <2>1, <2>2 DEF LoseAck, TypeOK
<1>17. ASSUME Crash PROVE TypeOK'
  <2>1. NothingSent \in Versions /\ <<>> \in Seq(Events)
    BY DEF NothingSent, Versions, ItemOrAbsent
  <2>2. ackOwed' \in BOOLEAN
    BY <1>17, Zenon DEF Crash
  <2>3. faults' \in Nat
    BY <1>17 DEF Crash, TypeOK
  <2>4. /\ source' \in Versions /\ due' \in [Keys -> {"clean", "dirty", "sent", "forgotten"}]
        /\ sentIn' \in [Keys -> Nat] /\ base' \in Versions
        /\ payloads' \in Nat /\ acked' \in Nat /\ acks' \in Nat /\ stray' \in Nat
        /\ ahead' \in BOOLEAN /\ misled' \in SUBSET Keys
        /\ snapshot' \in [open: BOOLEAN, scope: Scopes, todo: SUBSET Keys]
    <3>1. CASE phase = "open"
      BY <1>17, <3>1, UnsettledType, ConnectionLostType DEF Crash, TypeOK
    <3>2. CASE phase # "open"
      BY <1>17, <3>2 DEF Crash, TypeOK
    <3> QED BY <3>1, <3>2
  <2> QED BY <1>17, <2>1, <2>2, <2>3, <2>4 DEF Crash, TypeOK
<1>18. CASE UNCHANGED vars
  BY <1>18 DEF vars, TypeOK
<1> QED
  BY <1>1, <1>2, <1>3, <1>4, <1>5, <1>6, <1>7, <1>8, <1>9, <1>10, <1>11, <1>12, <1>13,
     <1>14, <1>15, <1>16, <1>17, <1>18, <1>19 DEF Next, Service, EventLoop, Failures

(* Every variable keeps its type; in particular a patch, once materialised, *)
(* is an item again.                                                        *)
THEOREM TypeCorrect == Spec => []TypeOK
<1>1. Init => TypeOK
  BY InitType
<1>2. TypeOK /\ [Next]_vars => TypeOK'
  BY NextType
<1> QED BY <1>1, <1>2, PTL DEF Spec

-----------------------------------------------------------------------------
(* Baselines.  On an open connection the service's baseline is the version  *)
(* the Connector will have once it has consumed everything on the wire; a   *)
(* new connection starts with nothing on the wire and nothing on each side. *)
BaseInv ==
  /\ BaselineAgreement
  /\ phase = "open" => base = Tip(materialized, wire)
  /\ phase # "open" => base = NothingSent
  /\ phase = "waiting" => wire = <<>>

LEMMA InitBase == Init => BaseInv
  BY DEF Init, BaseInv, BaselineAgreement, Chain

LEMMA AfterBatchEvent ==
  ASSUME TypeOK, NEW b \in Batches, NEW i \in DOMAIN b
  PROVE  After(BatchEvent(b, i)) = BaseBefore(b, i + 1)
<1>1. b[i] \in Keys /\ i \in Nat \ {0}
  BY BoundAssumption DEF Batches
<1>2. After(BatchEvent(b, i)) = [BaseBefore(b, i) EXCEPT ![b[i]] = source[b[i]]]
  BY DEF After, BatchEvent
<1>3. (i + 1) - 1 = i
  BY <1>1
<1>4. \A k : (\E j \in 1..i : b[j] = k) <=> (k = b[i] \/ \E j \in 1..(i - 1) : b[j] = k)
  BY <1>1
<1>5. [BaseBefore(b, i) EXCEPT ![b[i]] = source[b[i]]]
        = [k \in Keys |-> IF k = b[i] \/ \E j \in 1..(i - 1) : b[j] = k
                          THEN source[k] ELSE base[k]]
  BY <1>1 DEF BaseBefore
<1>6. BaseBefore(b, i + 1)
        = [k \in Keys |-> IF k = b[i] \/ \E j \in 1..(i - 1) : b[j] = k
                          THEN source[k] ELSE base[k]]
  BY <1>3, <1>4 DEF BaseBefore
<1> QED BY <1>2, <1>5, <1>6

LEMMA BatchChain ==
  ASSUME TypeOK, NEW b \in Batches
  PROVE  LET more == [i \in DOMAIN b |-> BatchEvent(b, i)]
         IN  Chain(base, more) /\ Tip(base, more) = BaseBefore(b, Len(b) + 1)
<1> DEFINE more == [i \in DOMAIN b |-> BatchEvent(b, i)]
<1>1. /\ Len(b) \in Nat \ {0} /\ DOMAIN b = 1..Len(b) /\ more \in Seq(Events)
  BY BatchType
<1>2. DOMAIN more = 1..Len(b) /\ \A i \in DOMAIN b : more[i] = BatchEvent(b, i)
  BY <1>1
<1>3. Len(more) = Len(b) /\ more # <<>>
  <2> DEFINE n == Len(b)
             m == Len(more)
  <2>1. m \in Nat /\ 1..m = 1..n
    BY <1>1, <1>2, LenProperties
  <2>2. n \in Nat \ {0}
    BY <1>1
  <2> HIDE DEF n, m
  <2>3. m = n
    <3>1. n \in 1..m
      BY <2>1, <2>2
    <3>2. m >= n /\ m \in 1..n
      BY <2>1, <2>2, <3>1
    <3> QED BY <2>1, <2>2, <3>2
  <2>4. m = n /\ m # 0
    BY <2>2, <2>3
  <2> QED BY <1>1, <2>4, EmptySeq DEF m, n
<1>4. \A i \in DOMAIN b : After(more[i]) = BaseBefore(b, i + 1)
  BY <1>2, AfterBatchEvent
<1>5. \A i \in DOMAIN b : more[i].before = BaseBefore(b, i)
  BY <1>2 DEF BatchEvent
<1> HIDE DEF more
<1>6. BaseBefore(b, 1) = base
  <2>1. \A k : ~ \E j \in 1..(1 - 1) : b[j] = k
    OBVIOUS
  <2>2. BaseBefore(b, 1) = [k \in Keys |-> base[k]]
    BY <2>1 DEF BaseBefore
  <2> QED BY <2>2 DEF TypeOK, Versions
<1>7. \A i \in DOMAIN more : more[i].before = IF i = 1 THEN base ELSE After(more[i - 1])
  <2> TAKE i \in DOMAIN more
  <2>1. CASE i = 1
    BY <1>1, <1>2, <1>5, <1>6, <2>1
  <2>2. CASE i # 1
    <3>1. i - 1 \in DOMAIN b /\ (i - 1) + 1 = i
      BY <1>1, <1>2, <2>2
    <3>2. After(more[i - 1]) = BaseBefore(b, i)
      BY <1>4, <3>1
    <3> QED BY <1>1, <1>2, <1>5, <2>2, <3>2
  <2> QED BY <2>1, <2>2
<1>8. Tip(base, more) = BaseBefore(b, Len(b) + 1)
  BY <1>1, <1>3, <1>4 DEF Tip
<1> QED BY <1>7, <1>8 DEF Chain, more

(* Consuming an event takes the Connector's cache to the next baseline.     *)
LEMMA TakeBase ==
  ASSUME TypeOK, BaseInv, NEW kind, Take(kind),
         Head(wire).before = materialized => materialized' = After(Head(wire))
  PROVE  BaseInv'
<1>1. wire \in Seq(Events) /\ wire # <<>> /\ Chain(materialized, wire)
  BY DEF TypeOK, Take, BaseInv, BaselineAgreement
<1>2. Head(wire).before = materialized
      /\ Chain(After(Head(wire)), Tail(wire))
      /\ Tip(After(Head(wire)), Tail(wire)) = Tip(materialized, wire)
  BY <1>1, ChainTail
<1>3. materialized' = After(Head(wire)) /\ wire' = Tail(wire)
      /\ phase' = phase /\ base' = base /\ phase # "waiting"
  BY <1>2 DEF Take, serviceVars
<1>4. BaselineAgreement'
  BY <1>2, <1>3 DEF BaselineAgreement
<1>5. phase' = "open" => base' = Tip(materialized, wire)'
  BY <1>2, <1>3 DEF BaseInv
<1> QED BY <1>3, <1>4, <1>5 DEF BaseInv, NothingSent

LEMMA LostBase ==
  ASSUME TypeOK, BaseInv, NEW owed, ConnectionLost(owed), NEW n \in Received,
         wire' = SubSeq(wire, 1, n), materialized' = materialized, phase' = "closing"
  PROVE  BaseInv'
<1>1. Chain(materialized, SubSeq(wire, 1, n))
  BY ChainPrefix DEF TypeOK, BaseInv, BaselineAgreement
<1>2. BaselineAgreement'
  BY <1>1 DEF BaselineAgreement
<1> QED BY <1>2 DEF BaseInv, ConnectionLost, NothingSent

LEMMA NextBase == TypeOK /\ BaseInv /\ [Next]_vars => BaseInv'
<1> SUFFICES ASSUME TypeOK, BaseInv, [Next]_vars PROVE BaseInv'
  OBVIOUS
<1> USE DEF serviceVars, transportVars, clientVars, boundVars
<1>0. /\ wire \in Seq(Events) /\ Chain(materialized, wire)
      /\ phase = "open" => base = Tip(materialized, wire)
  BY DEF TypeOK, BaseInv, BaselineAgreement
<1>1. ASSUME UNCHANGED <<wire, materialized, phase, base>> PROVE BaseInv'
  BY <1>1 DEF BaseInv, BaselineAgreement, Chain, Tip, After, ClearScope, Covers, NothingSent
<1>2. ASSUME NEW k \in Keys, Redeliver(k) PROVE BaseInv'
  BY <1>1, <1>2 DEF Redeliver
<1>3. ASSUME NEW k \in Keys, NEW item \in ItemOrAbsent, SourceChange(k, item) PROVE BaseInv'
  BY <1>1, <1>3 DEF SourceChange
<1>4. ASSUME NEW b \in Batches, SendItems(b) PROVE BaseInv'
  <2> DEFINE more == [i \in DOMAIN b |-> BatchEvent(b, i)]
  <2>1. /\ more \in Seq(Events) /\ Chain(base, more)
        /\ Tip(base, more) = BaseBefore(b, Len(b) + 1)
    BY BatchType, BatchChain
  <2>2. /\ wire' = wire \o more /\ base' = BaseBefore(b, Len(b) + 1)
        /\ phase = "open" /\ phase' = "open" /\ materialized' = materialized
    BY <1>4 DEF SendItems
  <2> HIDE DEF more
  <2>3. Chain(materialized, wire') /\ Tip(materialized, wire') = base'
    BY <1>0, <2>1, <2>2, ChainConcat
  <2> QED BY <2>2, <2>3 DEF BaseInv, BaselineAgreement
<1>5. ASSUME NEW scope \in Scopes, SendSnapshotStart(scope) PROVE BaseInv'
  <2> DEFINE e == [kind |-> "start", scope |-> scope, before |-> base,
                   payload |-> payloads + 1, last |-> TRUE]
  <2>1. e \in Events /\ e.before = base /\ After(e) = ClearScope(base, scope)
    BY DEF Events, MarkerEvents, TypeOK, After
  <2>2. /\ wire' = Append(wire, e) /\ base' = ClearScope(base, scope)
        /\ phase = "open" /\ phase' = "open" /\ materialized' = materialized
    BY <1>5 DEF SendSnapshotStart
  <2> HIDE DEF e
  <2>3. Chain(materialized, wire') /\ Tip(materialized, wire') = base'
    BY <1>0, <2>1, <2>2, ChainAppend
  <2> QED BY <2>2, <2>3 DEF BaseInv, BaselineAgreement
<1>6. ASSUME SendSnapshotEnd PROVE BaseInv'
  <2> DEFINE e == [kind |-> "end", scope |-> snapshot.scope, before |-> base,
                   payload |-> payloads + 1, last |-> TRUE]
  <2>1. e \in Events /\ e.before = base /\ After(e) = base
    BY DEF Events, MarkerEvents, TypeOK, After
  <2>2. /\ wire' = Append(wire, e) /\ base' = base
        /\ phase = "open" /\ phase' = "open" /\ materialized' = materialized
    BY <1>6 DEF SendSnapshotEnd
  <2> HIDE DEF e
  <2>3. Chain(materialized, wire') /\ Tip(materialized, wire') = base'
    BY <1>0, <2>1, <2>2, ChainAppend
  <2> QED BY <2>2, <2>3 DEF BaseInv, BaselineAgreement
<1>7. ASSUME ReceiveAck PROVE BaseInv'
  BY <1>1, <1>7 DEF ReceiveAck, CountAck
<1>20. ASSUME ReceiveStrayAck PROVE BaseInv'
  BY <1>1, <1>20 DEF ReceiveStrayAck, CountAck
<1>8. ASSUME ResetTarget PROVE BaseInv'
  BY <1>8, LostBase DEF ResetTarget
<1>9. ASSUME Connect PROVE BaseInv'
  <2>1. /\ wire' = <<>> /\ materialized' = NothingSent /\ base' = NothingSent
        /\ phase' = "open"
    BY <1>9 DEF Connect, CacheOnConnect, BaseInv
  <2> QED BY <2>1 DEF BaseInv, BaselineAgreement, Chain, Tip
<1>10. ASSUME ItemChanged PROVE BaseInv'
  <2> DEFINE e == Head(wire)
  <2>1. e \in Events /\ e.kind = "changed" /\ Take("changed")
    BY <1>10, TakeType DEF ItemChanged
  <2>2. e.item \in Items /\ e.key \in Keys /\ e.before \in Versions
    <3> HIDE DEF e
    <3> QED BY <2>1 DEF Events, ItemEvents, MarkerEvents, ItemOrAbsent
  <2>3. Materialize(DiffPatch(e.before[e.key], e.item), e.before[e.key]) = e.item
    BY <2>2, MaterializeInvertsDiff DEF Versions
  <2>4. e.before = materialized => materialized' = [e.before EXCEPT ![e.key] = e.item]
    BY <1>10, <2>3 DEF ItemChanged
  <2>5. After(e) = [e.before EXCEPT ![e.key] = e.item]
    BY <2>1 DEF After
  <2> QED BY <2>1, <2>4, <2>5, TakeBase
<1>11. ASSUME ItemDeleted PROVE BaseInv'
  <2> DEFINE e == Head(wire)
  <2>1. e \in Events /\ e.kind = "deleted" /\ Take("deleted")
    BY <1>11, TakeType DEF ItemDeleted
  <2>2. e.item = Absent
    <3> HIDE DEF e
    <3> QED BY <2>1 DEF Events, ItemEvents, MarkerEvents
  <2>3. After(e) = [e.before EXCEPT ![e.key] = Absent]
    BY <2>1, <2>2 DEF After
  <2>4. e.before = materialized => materialized' = After(e)
    BY <1>11, <2>3 DEF ItemDeleted
  <2> QED BY <2>1, <2>4, TakeBase
<1>12. ASSUME SnapshotStart PROVE BaseInv'
  <2>1. Head(wire).kind = "start" /\ Take("start")
    BY <1>12 DEF SnapshotStart, Take
  <2>2. Head(wire).before = materialized => materialized' = After(Head(wire))
    BY <1>12, <2>1 DEF SnapshotStart, ClearMaterialized, After
  <2> QED BY <2>1, <2>2, TakeBase
<1>13. ASSUME SnapshotEnd PROVE BaseInv'
  <2>1. Head(wire).kind = "end" /\ Take("end")
    BY <1>13 DEF SnapshotEnd, Take
  <2>2. Head(wire).before = materialized => materialized' = After(Head(wire))
    BY <1>13, <2>1 DEF SnapshotEnd, After
  <2> QED BY <2>1, <2>2, TakeBase
<1>14. ASSUME SendAck PROVE BaseInv'
  BY <1>1, <1>14 DEF SendAck
<1>15. ASSUME Disconnected PROVE BaseInv'
  BY <1>15 DEF Disconnected, BaseInv, BaselineAgreement, Chain, NothingSent
<1>16. ASSUME DropConnection PROVE BaseInv'
  BY <1>16, LostBase DEF DropConnection
<1>17. ASSUME LoseAck PROVE BaseInv'
  BY <1>1, <1>17 DEF LoseAck
<1>18. ASSUME Crash PROVE BaseInv'
  <2>1. /\ wire' = <<>> /\ phase' = "waiting" /\ materialized' = NothingSent
        /\ base' = NothingSent
    BY <1>18 DEF Crash, ConnectionLost, BaseInv
  <2> QED BY <2>1 DEF BaseInv, BaselineAgreement, Chain, NothingSent
<1>19. CASE UNCHANGED vars
  BY <1>1, <1>19 DEF vars
<1> QED
  BY <1>2, <1>3, <1>4, <1>5, <1>6, <1>7, <1>8, <1>9, <1>10, <1>11, <1>12, <1>13,
     <1>14, <1>15, <1>16, <1>17, <1>18, <1>19, <1>20 DEF Next, Service, EventLoop, Failures

(* Whatever drops, crashes, snapshots and redeliveries happen, a patch is   *)
(* applied to the very version it was computed from.                        *)
THEOREM BaselinesAgree == Spec => []BaselineAgreement
<1>1. Init => TypeOK /\ BaseInv
  BY InitType, InitBase
<1>2. (TypeOK /\ BaseInv) /\ [Next]_vars => (TypeOK /\ BaseInv)'
  BY NextType, NextBase
<1>3. BaseInv => BaselineAgreement
  BY DEF BaseInv
<1> QED BY <1>1, <1>2, <1>3, PTL DEF Spec

-----------------------------------------------------------------------------
(* Acknowledgements.  The payloads on the wire are in order and, as long as *)
(* no ACK of an earlier connection was counted, numbered beyond those       *)
(* acknowledged; an event that is not the last of its payload leaves no ACK *)
(* owed.                                                                    *)
Owed == IF ackOwed THEN 1 ELSE 0
Numbered(w) ==
  \A i, j \in DOMAIN w :
    i < j => \/ w[i].payload < w[j].payload
             \/ w[i].payload = w[j].payload /\ ~w[i].last
AckInv ==
  /\ Numbered(wire)
  /\ phase = "open" => \A i \in DOMAIN wire : wire[i].payload <= payloads
  /\ phase = "open" /\ ~ahead =>
       /\ acked + acks + Owed <= payloads
       /\ \A i \in DOMAIN wire : wire[i].payload > acked + acks + Owed
  /\ phase # "open" => acked = 0 /\ acks = 0
  /\ phase = "waiting" => wire = <<>> /\ ~ackOwed

LEMMA InitAck == Init => AckInv
  BY DEF Init, AckInv, Numbered, Owed

LEMMA EventType ==
  ASSUME NEW e \in Events
  PROVE  e.payload \in Nat /\ e.last \in BOOLEAN
  BY DEF Events, ItemEvents, MarkerEvents

(* One payload more on the wire.                                            *)
LEMMA SendAckInv ==
  ASSUME TypeOK, AckInv, NEW more \in Seq(Events), phase = "open",
         \A i \in DOMAIN more : /\ more[i].payload = payloads + 1
                                /\ more[i].last => i = Len(more),
         wire' = wire \o more, payloads' = payloads + 1,
         UNCHANGED <<phase, acked, acks, ackOwed, ahead>>
  PROVE  AckInv'
<1>1. /\ wire \in Seq(Events) /\ payloads \in Nat /\ acked \in Nat /\ acks \in Nat
      /\ Owed \in Nat /\ Owed' = Owed
  BY DEF TypeOK, Owed
<1>2. /\ Len(wire) \in Nat /\ DOMAIN wire = 1..Len(wire)
      /\ Len(more) \in Nat /\ DOMAIN more = 1..Len(more)
      /\ DOMAIN wire' = 1..(Len(wire) + Len(more))
      /\ \A i \in DOMAIN wire' : wire'[i] = IF i <= Len(wire) THEN wire[i] ELSE more[i - Len(wire)]
  <2>1. wire' \in Seq(Events) /\ Len(wire') = Len(wire) + Len(more)
        /\ \A i \in 1..(Len(wire) + Len(more)) :
             wire'[i] = IF i <= Len(wire) THEN wire[i] ELSE more[i - Len(wire)]
    BY <1>1, ConcatProperties
  <2> QED BY <1>1, <2>1, LenProperties
<1>3. \A i \in DOMAIN wire : wire[i].payload \in Nat /\ wire[i].payload <= payloads
                             /\ (~ahead => wire[i].payload > acked + acks + Owed)
  BY <1>1, <1>2, ElementOfSeq, EventType DEF AckInv
<1>4. \A i \in DOMAIN wire' :
        IF i <= Len(wire) THEN i \in DOMAIN wire /\ wire'[i] = wire[i]
        ELSE /\ i - Len(wire) \in DOMAIN more /\ wire'[i] = more[i - Len(wire)]
             /\ wire'[i].payload = payloads + 1
             /\ wire'[i].last => i = Len(wire) + Len(more)
  BY <1>2
<1>5. Numbered(wire')
  <2> SUFFICES ASSUME NEW i \in DOMAIN wire', NEW j \in DOMAIN wire', i < j
               PROVE  \/ wire'[i].payload < wire'[j].payload
                      \/ wire'[i].payload = wire'[j].payload /\ ~wire'[i].last
    BY DEF Numbered
  <2>1. CASE j <= Len(wire)
    BY <1>2, <1>4, <2>1 DEF AckInv, Numbered
  <2>2. CASE i <= Len(wire) /\ ~(j <= Len(wire))
    BY <1>1, <1>2, <1>3, <1>4, <2>2
  <2>3. CASE ~(i <= Len(wire)) /\ ~(j <= Len(wire))
    <3>1. i # Len(wire) + Len(more)
      BY <1>2
    <3> QED BY <1>4, <2>3, <3>1
  <2> QED BY <1>2, <2>1, <2>2, <2>3
<1>6. ~ahead => acked + acks + Owed <= payloads + 1
  BY <1>1 DEF AckInv
<1>7. \A i \in DOMAIN wire' : /\ ~ahead => wire'[i].payload > acked + acks + Owed
                              /\ wire'[i].payload <= payloads + 1
  <2> TAKE i \in DOMAIN wire'
  <2>1. CASE i <= Len(wire)
    BY <1>1, <1>3, <1>4, <2>1
  <2>2. CASE ~(i <= Len(wire))
    BY <1>1, <1>4, <2>2 DEF AckInv
  <2> QED BY <2>1, <2>2
<1> QED BY <1>1, <1>5, <1>6, <1>7 DEF AckInv

LEMMA TakeAck ==
  ASSUME TypeOK, AckInv, NEW kind, Take(kind)
  PROVE  AckInv'
<1>1. /\ wire \in Seq(Events) /\ wire # <<>> /\ acked \in Nat /\ acks \in Nat
      /\ payloads \in Nat /\ Owed = 0
  BY DEF TypeOK, Take, Owed
<1>2. /\ wire' \in Seq(Events) /\ Len(wire') = Len(wire) - 1 /\ Head(wire) = wire[1]
      /\ \A i \in 1..Len(wire') : wire'[i] = wire[i + 1]
  BY <1>1, HeadTailProperties DEF Take
<1>3. Len(wire) \in Nat \ {0} /\ DOMAIN wire = 1..Len(wire) /\ DOMAIN wire' = 1..Len(wire')
  BY <1>1, <1>2, LenProperties, EmptySeq
<1>4. \A i \in DOMAIN wire' : /\ wire'[i] = wire[i + 1] /\ i + 1 \in DOMAIN wire
                              /\ 1 < i + 1 /\ 1 \in DOMAIN wire
  BY <1>2, <1>3
<1>5. \A i \in DOMAIN wire : wire[i].payload \in Nat /\ wire[i].last \in BOOLEAN
  BY <1>1, <1>3, ElementOfSeq, EventType
<1>6. Numbered(wire')
  <2> SUFFICES ASSUME NEW i \in DOMAIN wire', NEW j \in DOMAIN wire', i < j
               PROVE  \/ wire'[i].payload < wire'[j].payload
                      \/ wire'[i].payload = wire'[j].payload /\ ~wire'[i].last
    BY DEF Numbered
  <2>1. i + 1 < j + 1
    BY <1>3
  <2> QED BY <1>4, <2>1 DEF AckInv, Numbered
<1>7. /\ phase' = phase /\ acked' = acked /\ acks' = acks /\ payloads' = payloads
      /\ ahead' = ahead /\ phase # "waiting" /\ (ackOwed' <=> wire[1].last)
  BY <1>2 DEF Take, Consume, serviceVars
<1>8. Owed' = IF wire[1].last THEN 1 ELSE 0
  BY <1>7, Zenon DEF Owed
<1>10. phase = "open" => \A i \in DOMAIN wire' : wire'[i].payload <= payloads
  BY <1>4 DEF AckInv
<1>9. ASSUME phase = "open", ~ahead
      PROVE  /\ acked + acks + Owed' <= payloads
             /\ \A i \in DOMAIN wire' : wire'[i].payload > acked + acks + Owed'
  <2>1. 1 \in DOMAIN wire /\ wire[1].payload > acked + acks /\ wire[1].payload <= payloads
    BY <1>1, <1>3, <1>9 DEF AckInv
  <2>2. ASSUME NEW i \in DOMAIN wire' PROVE wire'[i].payload > acked + acks + Owed'
    <3>1. \/ wire[1].payload < wire'[i].payload
          \/ wire[1].payload = wire'[i].payload /\ ~wire[1].last
      BY <1>4 DEF AckInv, Numbered
    <3>2. wire'[i].payload \in Nat /\ wire[1].payload \in Nat
      BY <1>4, <1>5, <2>1
    <3>3. CASE wire[1].last
      BY <1>1, <1>8, <2>1, <3>1, <3>2, <3>3
    <3>4. CASE ~wire[1].last
      <4>1. wire'[i].payload > acked + acks + Owed
        BY <1>4, <1>9 DEF AckInv
      <4> QED BY <1>1, <1>8, <3>4, <4>1
    <3> QED BY <3>3, <3>4
  <2>4. acked + acks + Owed' <= payloads
    BY <1>1, <1>5, <1>8, <2>1
  <2> QED BY <2>2, <2>4
<1> QED BY <1>6, <1>7, <1>9, <1>10 DEF AckInv

LEMMA LostAck ==
  ASSUME TypeOK, AckInv, NEW owed, ConnectionLost(owed), NEW n \in Received,
         wire' = SubSeq(wire, 1, n), phase' = "closing"
  PROVE  AckInv'
<1>1. wire \in Seq(Events) /\ Len(wire) \in Nat /\ DOMAIN wire = 1..Len(wire)
  BY LenProperties DEF TypeOK
<1>2. n \in 0..Len(wire) /\ \A i \in 1..n : wire[i] \in Events
  BY <1>1, ElementOfSeq DEF Received
<1>3. /\ wire' \in Seq(Events)
      /\ Len(wire') = IF 1 <= n THEN n - 1 + 1 ELSE 0
      /\ \A i \in 1..(n - 1 + 1) : wire'[i] = wire[1 + i - 1]
  BY <1>2, SubSeqProperties
<1>4. DOMAIN wire' = 1..n /\ \A i \in DOMAIN wire' : i \in DOMAIN wire /\ wire'[i] = wire[i]
  BY <1>1, <1>2, <1>3, LenProperties
<1>5. Numbered(wire')
  <2> SUFFICES ASSUME NEW i \in DOMAIN wire', NEW j \in DOMAIN wire', i < j
               PROVE  \/ wire'[i].payload < wire'[j].payload
                      \/ wire'[i].payload = wire'[j].payload /\ ~wire'[i].last
    BY DEF Numbered
  <2>1. /\ i \in DOMAIN wire /\ wire'[i] = wire[i]
        /\ j \in DOMAIN wire /\ wire'[j] = wire[j]
    BY <1>4
  <2> QED BY <2>1 DEF AckInv, Numbered
<1> QED BY <1>5 DEF AckInv, ConnectionLost

LEMMA NextAck == TypeOK /\ AckInv /\ [Next]_vars => AckInv'
<1> SUFFICES ASSUME TypeOK, AckInv, [Next]_vars PROVE AckInv'
  OBVIOUS
<1> USE DEF serviceVars, transportVars, clientVars, boundVars
<1>1. ASSUME UNCHANGED <<wire, phase, payloads, acked, acks, ackOwed, ahead>> PROVE AckInv'
  BY <1>1 DEF AckInv, Numbered, Owed
<1>2. ASSUME NEW k \in Keys, Redeliver(k) PROVE AckInv'
  BY <1>1, <1>2 DEF Redeliver
<1>3. ASSUME NEW k \in Keys, NEW item \in ItemOrAbsent, SourceChange(k, item) PROVE AckInv'
  BY <1>1, <1>3 DEF SourceChange
<1>4. ASSUME NEW b \in Batches, SendItems(b) PROVE AckInv'
  <2> DEFINE more == [i \in DOMAIN b |-> BatchEvent(b, i)]
  <2>1. more \in Seq(Events) /\ DOMAIN more = DOMAIN b /\ DOMAIN b = 1..Len(b)
    BY BatchType
  <2>2. \A i \in DOMAIN more : more[i].payload = payloads + 1 /\ (more[i].last => i = Len(b))
    BY <2>1 DEF BatchEvent
  <2>3. Len(more) = Len(b)
    BY <2>1
  <2>4. /\ wire' = wire \o more /\ payloads' = payloads + 1 /\ phase = "open"
        /\ UNCHANGED <<phase, acked, acks, ackOwed, ahead>>
    BY <1>4 DEF SendItems
  <2> HIDE DEF more
  <2> QED BY <2>1, <2>2, <2>3, <2>4, SendAckInv
<1>5. ASSUME NEW e \in Events, e.payload = payloads + 1, phase = "open",
             wire' = Append(wire, e), payloads' = payloads + 1,
             UNCHANGED <<phase, acked, acks, ackOwed, ahead>>
      PROVE  AckInv'
  <2> DEFINE one == <<e>>
  <2>1. one \in Seq(Events) /\ Len(one) = 1 /\ one[1] = e /\ DOMAIN one = {1}
    OBVIOUS
  <2>2. wire' = wire \o one
    BY <1>5, AppendIsConcat DEF TypeOK
  <2> HIDE DEF one
  <2> QED BY <1>5, <2>1, <2>2, SendAckInv
<1>6. ASSUME NEW scope \in Scopes, SendSnapshotStart(scope) PROVE AckInv'
  <2>1. [kind |-> "start", scope |-> scope, before |-> base,
         payload |-> payloads + 1, last |-> TRUE] \in Events
    BY DEF Events, MarkerEvents, TypeOK
  <2> QED BY <1>5, <1>6, <2>1 DEF SendSnapshotStart
<1>7. ASSUME SendSnapshotEnd PROVE AckInv'
  <2>1. [kind |-> "end", scope |-> snapshot.scope, before |-> base,
         payload |-> payloads + 1, last |-> TRUE] \in Events
    BY DEF Events, MarkerEvents, TypeOK
  <2> QED BY <1>5, <1>7, <2>1 DEF SendSnapshotEnd
<1>8. ASSUME ReceiveAck PROVE AckInv'
  <2>1. /\ acked' + acks' = acked + acks /\ Owed' = Owed /\ acked' + acks' + Owed' = acked + acks + Owed
        /\ UNCHANGED <<wire, phase, payloads, ahead>> /\ phase = "open"
    BY <1>8 DEF ReceiveAck, CountAck, TypeOK, Owed
  <2> QED BY <2>1 DEF AckInv, Numbered
<1>21. ASSUME ReceiveStrayAck PROVE AckInv'
  <2>1. UNCHANGED <<wire, phase, payloads>> /\ phase = "open" /\ ahead'
    BY <1>21 DEF ReceiveStrayAck, CountAck
  <2> QED BY <2>1 DEF AckInv, Numbered
<1>9. ASSUME ResetTarget PROVE AckInv'
  BY <1>9, LostAck DEF ResetTarget
<1>10. ASSUME Connect PROVE AckInv'
  <2>1. wire' = <<>> /\ ackOwed' = ackOwed /\ ~ackOwed /\ acked' = 0 /\ acks' = 0
        /\ payloads' = payloads /\ phase' = "open"
    BY <1>10 DEF Connect, AckInv
  <2>2. Owed' = 0
    BY <2>1 DEF Owed
  <2> QED BY <2>1, <2>2 DEF AckInv, Numbered, TypeOK
<1>11. ASSUME ItemChanged PROVE AckInv'
  BY <1>11, TakeAck DEF ItemChanged
<1>12. ASSUME ItemDeleted PROVE AckInv'
  BY <1>12, TakeAck DEF ItemDeleted
<1>13. ASSUME SnapshotStart PROVE AckInv'
  BY <1>13, TakeAck DEF SnapshotStart
<1>14. ASSUME SnapshotEnd PROVE AckInv'
  BY <1>14, TakeAck DEF SnapshotEnd
<1>15. ASSUME SendAck PROVE AckInv'
  <2>1. Owed = 1 /\ Owed' = 0 /\ phase # "waiting"
    BY <1>15 DEF SendAck, Owed, AckInv
  <2>2. CASE phase = "open"
    <3>1. acks' = acks + 1 /\ UNCHANGED <<wire, phase, payloads, acked, ahead>>
      BY <1>15, <2>2 DEF SendAck
    <3>2. acked' + acks' + Owed' = acked + acks + Owed
      BY <2>1, <3>1 DEF TypeOK
    <3> QED BY <2>2, <3>1, <3>2 DEF AckInv, Numbered
  <2>3. CASE phase # "open"
    BY <1>15, <2>1, <2>3 DEF SendAck, AckInv, Numbered
  <2> QED BY <2>2, <2>3
<1>16. ASSUME Disconnected PROVE AckInv'
  BY <1>16 DEF Disconnected, AckInv, Numbered
<1>17. ASSUME DropConnection PROVE AckInv'
  BY <1>17, LostAck DEF DropConnection
<1>18. ASSUME LoseAck PROVE AckInv'
  <2>1. Owed = 1 /\ Owed' = 0 /\ phase = "open"
        /\ UNCHANGED <<wire, phase, payloads, acked, acks, ahead>>
    BY <1>18 DEF LoseAck, Owed
  <2>2. acked' + acks' + Owed' < acked + acks + Owed
    BY <2>1 DEF TypeOK
  <2>3. \A i \in DOMAIN wire : wire[i].payload \in Nat
    BY LenProperties, ElementOfSeq, EventType DEF TypeOK
  <2> QED BY <2>1, <2>2, <2>3 DEF AckInv, Numbered, TypeOK
<1>19. ASSUME Crash PROVE AckInv'
  <2>1. wire' = <<>> /\ phase' = "waiting" /\ ~ackOwed' /\ acked' = 0 /\ acks' = 0
    BY <1>19 DEF Crash, ConnectionLost, AckInv
  <2> QED BY <2>1 DEF AckInv, Numbered
<1>20. CASE UNCHANGED vars
  BY <1>1, <1>20 DEF vars
<1> QED
  BY <1>2, <1>3, <1>4, <1>6, <1>7, <1>8, <1>9, <1>10, <1>11, <1>12, <1>13, <1>14,
     <1>15, <1>16, <1>17, <1>18, <1>19, <1>20, <1>21
     DEF Next, Service, EventLoop, Failures

(* No ACK that is counted, under way or owed settles a payload of which an  *)
(* event is still to be persisted, unless one of an earlier connection came *)
(* before it.                                                               *)
THEOREM AcksFollow == Spec => []AcksFollowPersistence
<1>1. Init => TypeOK /\ AckInv
  BY InitType, InitAck
<1>2. (TypeOK /\ AckInv) /\ [Next]_vars => (TypeOK /\ AckInv)'
  BY NextType, NextAck
<1>3. AckInv => AcksFollowPersistence
  BY DEF AckInv, AcksFollowPersistence, Owed
<1> QED BY <1>1, <1>2, <1>3, PTL DEF Spec

-----------------------------------------------------------------------------
(* What the wire still does to an item.                                     *)

ItemPlaces(w, k) == {i \in DOMAIN w : w[i].kind \in {"changed", "deleted"} /\ w[i].key = k}
MarkerPlaces(w) == {i \in DOMAIN w : w[i].kind \in {"start", "end"}}
StartsFor(e, k) == e.kind = "start" /\ Covers(e.scope, k)
EndsFor(e, k) == e.kind = "end" /\ e.scope # Unscoped /\ Covers(e.scope, k)

(* The source's version is stored and stays stored: no event of the item is *)
(* on its way, and no snapshot that would take it for missing.              *)
Delivered(k) ==
  /\ store[k] = source[k]
  /\ ItemPlaces(wire, k) = {}
  /\ source[k] # Absent => /\ k \notin candidates
                           /\ \A i \in DOMAIN wire : ~StartsFor(wire[i], k)

(* The last event of the item on the wire carries the source's version, and *)
(* no snapshot that would take it for missing starts behind it.             *)
OnItsWay(k) ==
  \E i \in ItemPlaces(wire, k) :
    /\ wire[i].item = source[k] /\ wire[i].payload <= sentIn[k]
    /\ \A j \in ItemPlaces(wire, k) : j <= i
    /\ source[k] # Absent => \A j \in DOMAIN wire : j > i => ~StartsFor(wire[j], k)

(* A snapshot over k is open when place j is reached: its start is the last *)
(* marker before, or was consumed and made k a candidate.                   *)
Opened(k, j) ==
  \/ \E m \in DOMAIN wire :
       /\ m < j /\ StartsFor(wire[m], k) /\ wire[m].scope # Unscoped
       /\ \A n \in MarkerPlaces(wire) : n <= m \/ n >= j
  \/ /\ \A n \in MarkerPlaces(wire) : n >= j
     /\ k \in candidates \/ store[k] = Absent

(* An item that is gone is not on the wire, and the end of a snapshot that  *)
(* removes it is.                                                           *)
WillBePruned(k) ==
  /\ source[k] = Absent /\ ItemPlaces(wire, k) = {}
  /\ \E j \in DOMAIN wire : EndsFor(wire[j], k) /\ wire[j].payload <= sentIn[k] /\ Opened(k, j)

Arrives(k) == Delivered(k) \/ OnItsWay(k) \/ WillBePruned(k)

CleanInv == \A k \in Settled : Delivered(k)
SentInv == \A k \in Keys : due[k] = "sent" => phase = "open" /\ Arrives(k)

(* What the service has no record of was not sent on this connection, and   *)
(* the end of an open snapshot over it would remove it.                     *)
ForgottenInv ==
  \A k \in Forgotten : phase = "open" =>
    /\ ItemPlaces(wire, k) = {}
    /\ snapshot.open /\ snapshot.scope # Unscoped /\ Covers(snapshot.scope, k)
         => Opened(k, Len(wire) + 1)

DeliveryInv == CleanInv /\ SentInv /\ ForgottenInv /\ (phase # "open" => ~snapshot.open)

LEMMA InitDelivery == Init => DeliveryInv
<1> SUFFICES ASSUME Init PROVE DeliveryInv
  OBVIOUS
<1>1. /\ wire = <<>> /\ candidates = {} /\ phase = "waiting" /\ ~snapshot.open
      /\ \A k \in Keys : due[k] \in {"clean", "dirty"} /\ (due[k] = "clean" => store[k] = source[k])
  BY DEF Init, NoSnapshot, NothingSent
<1>2. \A k : ItemPlaces(wire, k) = {}
  BY <1>1 DEF ItemPlaces
<1> QED BY <1>1, <1>2 DEF DeliveryInv, CleanInv, Settled, SentInv, ForgottenInv, Forgotten, Delivered

-----------------------------------------------------------------------------
(* Events put at the end of the wire.                                       *)

LEMMA WireConcat ==
  ASSUME TypeOK, NEW more \in Seq(Events), wire' = wire \o more
  PROVE  /\ Len(wire) \in Nat /\ DOMAIN wire = 1 .. Len(wire)
         /\ Len(more) \in Nat /\ DOMAIN more = 1 .. Len(more)
         /\ Len(wire') = Len(wire) + Len(more) /\ DOMAIN wire' = 1 .. Len(wire) + Len(more)
         /\ \A i \in DOMAIN wire : i \in DOMAIN wire' /\ wire'[i] = wire[i]
         /\ \A i \in DOMAIN wire' :
              \/ i \in DOMAIN wire
              \/ i > Len(wire) /\ i - Len(wire) \in DOMAIN more /\ wire'[i] = more[i - Len(wire)]
<1>1. wire \in Seq(Events)
  BY DEF TypeOK
<1>2. /\ wire' \in Seq(Events) /\ Len(wire') = Len(wire) + Len(more)
      /\ \A i \in 1 .. (Len(wire) + Len(more)) :
           wire'[i] = IF i <= Len(wire) THEN wire[i] ELSE more[i - Len(wire)]
  BY <1>1, ConcatProperties
<1> QED BY <1>1, <1>2, LenProperties

(* A snapshot that is open at place j is open at place l, if no marker comes *)
(* between.                                                                 *)
LEMMA OpenedConcat ==
  ASSUME TypeOK, NEW more \in Seq(Events), wire' = wire \o more,
         UNCHANGED <<candidates, store>>, NEW k, NEW j \in Nat, NEW l \in Nat, j <= l,
         \A n \in MarkerPlaces(wire') : (n \in DOMAIN wire /\ n < j) \/ n >= l,
         Opened(k, j)
  PROVE  Opened(k, l)'
<1>1. \A n \in MarkerPlaces(wire') : (n \in MarkerPlaces(wire) /\ n < j) \/ n >= l
  BY WireConcat DEF MarkerPlaces
<1>2. CASE \E m \in DOMAIN wire :
             /\ m < j /\ StartsFor(wire[m], k) /\ wire[m].scope # Unscoped
             /\ \A n \in MarkerPlaces(wire) : n <= m \/ n >= j
  <2>1. PICK m \in DOMAIN wire :
          /\ m < j /\ StartsFor(wire[m], k) /\ wire[m].scope # Unscoped
          /\ \A n \in MarkerPlaces(wire) : n <= m \/ n >= j
    BY <1>2
  <2>2. m \in DOMAIN wire' /\ wire'[m] = wire[m] /\ m \in Nat
    BY WireConcat
  <2>3. \A n \in MarkerPlaces(wire) : n \in Nat
    BY WireConcat DEF MarkerPlaces
  <2>4. \A n \in MarkerPlaces(wire') : n <= m \/ n >= l
    BY <1>1, <2>1, <2>3
  <2>5. StartsFor(wire'[m], k) /\ wire'[m].scope # Unscoped /\ m < l
    BY <2>1, <2>2 DEF StartsFor, Covers
  <2> QED BY <2>2, <2>4, <2>5 DEF Opened, StartsFor, Covers
<1>3. CASE /\ \A n \in MarkerPlaces(wire) : n >= j
           /\ k \in candidates \/ store[k] = Absent
  <2>1. \A n \in MarkerPlaces(wire) : n \in Nat
    BY WireConcat DEF MarkerPlaces
  <2>2. \A n \in MarkerPlaces(wire') : n >= l
    BY <1>1, <1>3, <2>1
  <2> QED BY <1>3, <2>2 DEF Opened
<1> QED BY <1>2, <1>3 DEF Opened

LEMMA PlacesConcat ==
  ASSUME TypeOK, NEW more \in Seq(Events), wire' = wire \o more, NEW k,
         \A i \in DOMAIN more : more[i].kind \in {"changed", "deleted"} => more[i].key # k
  PROVE  ItemPlaces(wire', k) = ItemPlaces(wire, k)
<1>1. \A i \in DOMAIN wire' : i \in DOMAIN wire \/ i \notin ItemPlaces(wire', k)
  BY WireConcat DEF ItemPlaces
<1> QED BY <1>1, WireConcat DEF ItemPlaces

(* Events that neither carry the item nor start a snapshot that would miss  *)
(* it leave it as it was.                                                   *)
LEMMA ConcatKeeps ==
  ASSUME TypeOK, NEW more \in Seq(Events), wire' = wire \o more,
         UNCHANGED <<candidates, store, source>>, NEW k, sentIn'[k] = sentIn[k],
         \A i \in DOMAIN more :
           /\ more[i].kind \in {"changed", "deleted"} => more[i].key # k
           /\ source[k] # Absent => ~StartsFor(more[i], k)
  PROVE  /\ Delivered(k) => Delivered(k)'
         /\ Arrives(k) => Arrives(k)'
<1>1. ItemPlaces(wire', k) = ItemPlaces(wire, k)
  BY PlacesConcat
<1>2. \A i \in DOMAIN wire : i \in DOMAIN wire' /\ wire'[i] = wire[i] /\ i \in Nat
  BY WireConcat
<1>3. source[k] # Absent =>
        \A i \in DOMAIN wire' : StartsFor(wire'[i], k) => i \in DOMAIN wire /\ StartsFor(wire[i], k)
  BY WireConcat DEF StartsFor, Covers
<1>4. ASSUME Delivered(k) PROVE Delivered(k)'
  BY <1>1, <1>3, <1>4 DEF Delivered, StartsFor, Covers
<1>5. ASSUME OnItsWay(k) PROVE OnItsWay(k)'
  <2>1. PICK i \in ItemPlaces(wire, k) :
          /\ wire[i].item = source[k] /\ wire[i].payload <= sentIn[k]
          /\ \A j \in ItemPlaces(wire, k) : j <= i
          /\ source[k] # Absent => \A j \in DOMAIN wire : j > i => ~StartsFor(wire[j], k)
    BY <1>5 DEF OnItsWay
  <2>2. wire'[i] = wire[i] /\ i \in ItemPlaces(wire', k)
    BY <1>1, <1>2 DEF ItemPlaces
  <2>3. source[k] # Absent => \A j \in DOMAIN wire' : j > i => ~StartsFor(wire'[j], k)
    BY <1>3, <2>1
  <2> QED BY <1>1, <2>1, <2>2, <2>3 DEF OnItsWay, StartsFor, Covers
<1>6. ASSUME WillBePruned(k) PROVE WillBePruned(k)'
  <2>1. PICK j \in DOMAIN wire : EndsFor(wire[j], k) /\ wire[j].payload <= sentIn[k] /\ Opened(k, j)
    BY <1>6 DEF WillBePruned
  <2>2. j \in DOMAIN wire' /\ wire'[j] = wire[j] /\ j \in Nat
    BY <1>2
  <2>3. \A n \in MarkerPlaces(wire') : (n \in DOMAIN wire /\ n < j) \/ n >= j
    BY <2>2, WireConcat DEF MarkerPlaces
  <2>4. Opened(k, j)'
    <3>1. candidates' = candidates /\ store' = store /\ j <= j /\ Opened(k, j)
      BY <2>1, <2>2
    <3> QED BY <2>2, <2>3, <3>1, OpenedConcat
  <2> QED BY <1>1, <1>6, <2>1, <2>2, <2>4 DEF WillBePruned, EndsFor, Covers
<1> QED BY <1>4, <1>5, <1>6 DEF Arrives

-----------------------------------------------------------------------------
(* The first event taken from the wire.                                     *)

LEMMA WireTail ==
  ASSUME TypeOK, NEW kind, Take(kind)
  PROVE  /\ Len(wire) \in Nat \ {0} /\ DOMAIN wire = 1 .. Len(wire) /\ 1 \in DOMAIN wire
         /\ Head(wire) = wire[1] /\ wire[1] \in Events /\ wire[1].kind = kind
         /\ Len(wire') = Len(wire) - 1 /\ DOMAIN wire' = 1 .. Len(wire) - 1
         /\ \A i \in DOMAIN wire' : i + 1 \in DOMAIN wire /\ wire'[i] = wire[i + 1]
         /\ \A i \in DOMAIN wire : i # 1 => i - 1 \in DOMAIN wire' /\ wire'[i - 1] = wire[i]
<1>1. wire \in Seq(Events) /\ wire # <<>> /\ wire' = Tail(wire) /\ Head(wire).kind = kind
  BY DEF TypeOK, Take
<1>2. /\ Tail(wire) \in Seq(Events) /\ Len(Tail(wire)) = Len(wire) - 1
      /\ \A i \in 1 .. Len(Tail(wire)) : Tail(wire)[i] = wire[i + 1]
      /\ Head(wire) \in Events /\ Head(wire) = wire[1]
  BY <1>1, HeadTailProperties
<1>3. Len(wire) \in Nat \ {0} /\ DOMAIN wire = 1 .. Len(wire)
  BY <1>1, LenProperties, EmptySeq
<1>4. DOMAIN Tail(wire) = 1 .. Len(wire) - 1
  BY <1>2, LenProperties
<1> QED BY <1>1, <1>2, <1>3, <1>4

(* A snapshot open at a place behind the first event is open one place      *)
(* earlier once that is taken.                                              *)
LEMMA OpenedTail ==
  ASSUME TypeOK, NEW kind, Take(kind), NEW k \in Keys, NEW j \in Nat, j > 1, Opened(k, j),
         kind = "start" => candidates' = SnapshotCandidates(wire[1].scope) /\ store' = store,
         kind \in {"changed", "deleted"} =>
           /\ k \in candidates => k \in candidates'
           /\ store[k] = Absent => store'[k] = Absent,
         kind \in {"changed", "deleted", "start", "end"}
  PROVE  Opened(k, j - 1)'
<1>1. \A n \in MarkerPlaces(wire') : n \in Nat /\ n + 1 \in MarkerPlaces(wire)
  BY WireTail DEF MarkerPlaces
<1>2. CASE \E m \in DOMAIN wire :
             /\ m < j /\ StartsFor(wire[m], k) /\ wire[m].scope # Unscoped
             /\ \A n \in MarkerPlaces(wire) : n <= m \/ n >= j
  <2>1. PICK m \in DOMAIN wire :
          /\ m < j /\ StartsFor(wire[m], k) /\ wire[m].scope # Unscoped
          /\ \A n \in MarkerPlaces(wire) : n <= m \/ n >= j
    BY <1>2
  <2>2. m \in Nat /\ m >= 1
    BY WireTail
  <2>3. CASE m = 1
    <3>1. \A n \in MarkerPlaces(wire') : n >= j - 1
      <4>1. \A n \in MarkerPlaces(wire') : n \in Nat /\ n >= 1 /\ n + 1 \in MarkerPlaces(wire)
        BY <1>1, WireTail DEF MarkerPlaces
      <4>2. \A n \in MarkerPlaces(wire) : n <= 1 \/ n >= j
        BY <2>1, <2>3
      <4> QED BY <4>1, <4>2
    <3>2. kind = "start"
      BY <2>1, <2>3, WireTail DEF StartsFor
    <3>3. k \in candidates' \/ store'[k] = Absent
      BY <2>1, <2>3, <3>2 DEF StartsFor, Covers, SnapshotCandidates
    <3> QED BY <3>1, <3>3 DEF Opened
  <2>4. CASE m # 1
    <3>1. m - 1 \in DOMAIN wire' /\ wire'[m - 1] = wire[m] /\ m - 1 < j - 1
      BY <2>1, <2>2, <2>4, WireTail
    <3>2. \A n \in MarkerPlaces(wire') : n <= m - 1 \/ n >= j - 1
      BY <1>1, <2>1, <2>2
    <3>3. StartsFor(wire'[m - 1], k) /\ wire'[m - 1].scope # Unscoped
      BY <2>1, <3>1
    <3> QED BY <3>1, <3>2, <3>3 DEF Opened, StartsFor, Covers
  <2> QED BY <2>3, <2>4
<1>3. CASE /\ \A n \in MarkerPlaces(wire) : n >= j
           /\ k \in candidates \/ store[k] = Absent
  <2>1. 1 \notin MarkerPlaces(wire)
    BY <1>3
  <2>2. kind \in {"changed", "deleted"}
    BY <2>1, WireTail DEF MarkerPlaces
  <2>3. \A n \in MarkerPlaces(wire') : n >= j - 1
    <3>1. \A n \in MarkerPlaces(wire') : n \in Nat /\ n + 1 >= j
      BY <1>1, <1>3
    <3> QED BY <3>1
  <2> QED BY <1>3, <2>2, <2>3 DEF Opened
<1> QED BY <1>2, <1>3 DEF Opened

(* What is behind the first event stays on its way.                         *)
LEMMA TailKeeps ==
  ASSUME TypeOK, NEW kind, Take(kind), NEW k \in Keys,
         kind \in {"changed", "deleted", "start", "end"}
  PROVE  /\ ItemPlaces(wire, k) = {} => ItemPlaces(wire', k) = {}
         /\ (\A i \in DOMAIN wire : ~StartsFor(wire[i], k))
              => \A i \in DOMAIN wire' : ~StartsFor(wire'[i], k)
         /\ OnItsWay(k) =>
              \/ OnItsWay(k)'
              \/ /\ 1 \in ItemPlaces(wire, k) /\ wire[1].item = source[k]
                 /\ ItemPlaces(wire', k) = {}
                 /\ source[k] # Absent => \A i \in DOMAIN wire' : ~StartsFor(wire'[i], k)
<1>1. \A i \in ItemPlaces(wire', k) : i \in Nat /\ i >= 1 /\ i + 1 \in ItemPlaces(wire, k)
  BY WireTail DEF ItemPlaces
<1>2. \A i \in DOMAIN wire' : i \in Nat /\ i >= 1 /\ i + 1 \in DOMAIN wire /\ wire'[i] = wire[i + 1]
  BY WireTail
<1>3. ASSUME OnItsWay(k)
      PROVE  \/ OnItsWay(k)'
             \/ /\ 1 \in ItemPlaces(wire, k) /\ wire[1].item = source[k]
                /\ ItemPlaces(wire', k) = {}
                /\ source[k] # Absent => \A i \in DOMAIN wire' : ~StartsFor(wire'[i], k)
  <2>1. PICK i \in ItemPlaces(wire, k) :
          /\ wire[i].item = source[k] /\ wire[i].payload <= sentIn[k]
          /\ \A j \in ItemPlaces(wire, k) : j <= i
          /\ source[k] # Absent => \A j \in DOMAIN wire : j > i => ~StartsFor(wire[j], k)
    BY <1>3 DEF OnItsWay
  <2>2. i \in Nat /\ i >= 1
    BY WireTail DEF ItemPlaces
  <2>3. CASE i = 1
    <3>1. \A j \in ItemPlaces(wire', k) : j \in Nat /\ j >= 1 /\ j + 1 <= 1
      BY <1>1, <2>1, <2>3
    <3>3. ItemPlaces(wire', k) = {}
      BY <3>1
    <3>2. source[k] # Absent => \A j \in DOMAIN wire' : ~StartsFor(wire'[j], k)
      BY <1>2, <2>1, <2>3
    <3> QED BY <2>1, <2>3, <3>2, <3>3
  <2>4. CASE i # 1
    <3>1. i - 1 \in ItemPlaces(wire', k) /\ wire'[i - 1] = wire[i]
      BY <2>4, WireTail DEF ItemPlaces
    <3>2. \A j \in ItemPlaces(wire', k) : j <= i - 1
      BY <1>1, <2>1, <2>2
    <3>3. source[k] # Absent => \A j \in DOMAIN wire' : j > i - 1 => ~StartsFor(wire'[j], k)
      BY <1>2, <2>1, <2>2
    <3>4. source' = source /\ sentIn' = sentIn
      BY DEF Take, serviceVars
    <3> QED BY <2>1, <3>1, <3>2, <3>3, <3>4 DEF OnItsWay, StartsFor, Covers
  <2> QED BY <2>3, <2>4
<1> QED BY <1>1, <1>2, <1>3

(* The end of a snapshot that is not the first event stays on the wire.     *)
LEMMA PrunedTail ==
  ASSUME TypeOK, NEW kind, Take(kind), NEW k \in Keys, WillBePruned(k),
         kind = "start" => candidates' = SnapshotCandidates(wire[1].scope) /\ store' = store,
         kind \in {"changed", "deleted"} =>
           /\ k \in candidates => k \in candidates'
           /\ store[k] = Absent => store'[k] = Absent,
         kind \in {"changed", "deleted", "start", "end"}
  PROVE  WillBePruned(k)' \/ (kind = "end" /\ (k \in candidates \/ store[k] = Absent))
<1>1. PICK j \in DOMAIN wire : EndsFor(wire[j], k) /\ wire[j].payload <= sentIn[k] /\ Opened(k, j)
  BY DEF WillBePruned
<1>2. j \in Nat /\ j >= 1
  BY WireTail
<1>3. CASE j = 1
  <2>1. \A m \in DOMAIN wire : ~(m < j)
    BY <1>3, WireTail
  <2> QED BY <1>1, <1>3, <2>1, WireTail DEF Opened, EndsFor
<1>4. CASE j # 1
  <2>1. j - 1 \in DOMAIN wire' /\ wire'[j - 1] = wire[j]
    BY <1>4, WireTail
  <2>2. Opened(k, j - 1)'
    BY <1>1, <1>2, <1>4, OpenedTail
  <2>3. ItemPlaces(wire', k) = {}
    BY TailKeeps DEF WillBePruned
  <2>4. source' = source /\ sentIn' = sentIn
    BY DEF Take, serviceVars
  <2> QED BY <1>1, <2>1, <2>2, <2>3, <2>4 DEF WillBePruned, EndsFor, Covers
<1> QED BY <1>3, <1>4

-----------------------------------------------------------------------------
(* The steps, one by one.                                                   *)

LEMMA SameDelivery ==
  ASSUME DeliveryInv,
         UNCHANGED <<source, sentIn, snapshot, misled, phase, wire, candidates, store>>,
         \A k \in Keys : due'[k] = due[k] \/ due'[k] = "dirty"
  PROVE  DeliveryInv'
<1>1. \A k : ItemPlaces(wire, k)' = ItemPlaces(wire, k)
  BY DEF ItemPlaces
<1>2. MarkerPlaces(wire)' = MarkerPlaces(wire)
  BY DEF MarkerPlaces
<1>3. \A k : Delivered(k)' = Delivered(k)
  BY <1>1 DEF Delivered, StartsFor, Covers
<1>4. \A k, j : Opened(k, j)' <=> Opened(k, j)
  BY <1>2 DEF Opened, StartsFor, Covers
<1>5. \A k : Arrives(k)' <=> Arrives(k)
  BY <1>1, <1>3, <1>4 DEF Arrives, OnItsWay, WillBePruned, StartsFor, EndsFor, Covers
<1>6. CleanInv'
  BY <1>3 DEF DeliveryInv, CleanInv, Settled
<1>7. SentInv'
  BY <1>5 DEF DeliveryInv, SentInv
<1>8. ForgottenInv'
  BY <1>1, <1>4 DEF DeliveryInv, ForgottenInv, Forgotten, Covers
<1> QED BY <1>6, <1>7, <1>8 DEF DeliveryInv

(* A new version is owed from now on, the others are as they were.          *)
LEMMA ChangeDelivery ==
  ASSUME TypeOK, DeliveryInv, NEW c \in Keys, NEW item \in ItemOrAbsent, SourceChange(c, item)
  PROVE  DeliveryInv'
<1>1. /\ UNCHANGED <<snapshot, misled, phase, wire, candidates, store>>
      /\ due'[c] = "dirty"
      /\ \A k \in Keys : k # c => /\ source'[k] = source[k] /\ due'[k] = due[k]
                                  /\ sentIn'[k] = sentIn[k]
  BY DEF SourceChange, TypeOK, Versions, transportVars, clientVars
<1>2. \A k : ItemPlaces(wire, k)' = ItemPlaces(wire, k)
  BY <1>1 DEF ItemPlaces
<1>3. MarkerPlaces(wire)' = MarkerPlaces(wire)
  BY <1>1 DEF MarkerPlaces
<1>4. \A k, j : Opened(k, j)' <=> Opened(k, j)
  BY <1>1, <1>3 DEF Opened, StartsFor, Covers
<1>5. \A k \in Keys : k # c => (Delivered(k)' <=> Delivered(k))
  BY <1>1, <1>2 DEF Delivered, StartsFor, Covers
<1>6. \A k \in Keys : k # c => (Arrives(k)' <=> Arrives(k))
  BY <1>1, <1>2, <1>4, <1>5 DEF Arrives, OnItsWay, WillBePruned, StartsFor, EndsFor, Covers
<1>7. CleanInv'
  BY <1>1, <1>5 DEF DeliveryInv, CleanInv, Settled
<1>8. SentInv'
  BY <1>1, <1>6 DEF DeliveryInv, SentInv
<1>9. ForgottenInv'
  BY <1>1, <1>2, <1>4 DEF DeliveryInv, ForgottenInv, Forgotten, Covers
<1> QED BY <1>1, <1>7, <1>8, <1>9 DEF DeliveryInv

LEMMA SendDelivery ==
  ASSUME TypeOK, DeliveryInv, NEW b \in Batches, SendItems(b)
  PROVE  DeliveryInv'
<1> DEFINE more == [i \in DOMAIN b |-> BatchEvent(b, i)]
<1>1. /\ more \in Seq(Events) /\ DOMAIN more = 1 .. Len(b) /\ Len(b) \in Nat \ {0}
      /\ DOMAIN b = 1 .. Len(b)
      /\ \A i \in DOMAIN b : b[i] \in Keys
  BY BatchType DEF Batches
<1>2. \A i \in DOMAIN more :
        /\ more[i].kind \in {"changed", "deleted"} /\ more[i].key = b[i]
        /\ more[i].item = source[b[i]] /\ more[i].payload = payloads + 1
  BY <1>1 DEF BatchEvent
<1>3. /\ wire' = wire \o more /\ phase = "open"
      /\ UNCHANGED <<source, misled, phase, candidates, store>>
      /\ \A i \in DOMAIN b : due[b[i]] = "dirty"
  BY DEF SendItems, clientVars
<1>4. \A k \in Keys : /\ due'[k] = IF InBatch(b, k) THEN "sent" ELSE due[k]
                      /\ sentIn'[k] = IF InBatch(b, k) THEN payloads + 1 ELSE sentIn[k]
  BY DEF SendItems
<1>5. snapshot'.open <=> snapshot.open
  BY DEF SendItems, TypeOK
<1>6. snapshot'.scope = snapshot.scope
  BY DEF SendItems, TypeOK
<1> HIDE DEF more
<1>7. Len(more) = Len(b)
  BY <1>1, LenProperties
<1>8. ASSUME NEW k \in Keys, ~InBatch(b, k)
      PROVE  /\ Delivered(k) => Delivered(k)'
             /\ Arrives(k) => Arrives(k)'
             /\ ItemPlaces(wire', k) = ItemPlaces(wire, k)
  <2>1. \A i \in DOMAIN more : /\ more[i].kind \in {"changed", "deleted"} => more[i].key # k
                               /\ ~StartsFor(more[i], k)
    BY <1>1, <1>2, <1>8 DEF InBatch, StartsFor
  <2>2. sentIn'[k] = sentIn[k]
    BY <1>4, <1>8
  <2> QED BY <1>1, <1>3, <2>1, <2>2, ConcatKeeps, PlacesConcat
<1>9. ASSUME NEW k \in Keys, InBatch(b, k) PROVE OnItsWay(k)'
  <2>1. PICK i \in DOMAIN b : b[i] = k
    BY <1>9 DEF InBatch
  <2> DEFINE places == {j \in DOMAIN more : more[j].key = k}
  <2>2. i \in places
    BY <1>1, <2>1, <1>2
  <2>3. \A j \in DOMAIN b : b[j] = k => j = i
    BY <2>1 DEF Batches
  <2>4. \A j \in places : j = i
    BY <1>1, <1>2, <2>3
  <2> DEFINE last == Len(wire) + i
  <2>5. /\ last \in DOMAIN wire' /\ last > Len(wire) /\ last \notin DOMAIN wire
        /\ last - Len(wire) = i /\ Len(wire) \in Nat /\ last \in Nat
    BY <1>1, <1>3, <2>1, WireConcat
  <2>6. wire'[last] = more[i]
    <3> HIDE DEF last
    <3> QED BY <1>1, <1>3, <2>5, WireConcat
  <2>7. ASSUME NEW j \in ItemPlaces(wire', k) PROVE j <= last
    <3>1. \/ j \in 1 .. Len(wire)
          \/ j > Len(wire) /\ j - Len(wire) \in DOMAIN more /\ wire'[j] = more[j - Len(wire)]
      BY <1>1, <1>3, <2>7, WireConcat DEF ItemPlaces
    <3>2. CASE j \in 1 .. Len(wire)
      BY <2>5, <3>2
    <3>3. CASE j > Len(wire) /\ j - Len(wire) \in DOMAIN more /\ wire'[j] = more[j - Len(wire)]
      <4>1. more[j - Len(wire)].key = k
        BY <2>7, <3>3 DEF ItemPlaces
      <4>2. j - Len(wire) = i
        BY <2>4, <3>3, <4>1
      <4>3. j \in Int
        BY <1>1, <1>3, WireConcat DEF ItemPlaces
      <4> QED BY <2>5, <4>2, <4>3
    <3> QED BY <3>1, <3>2, <3>3
  <2>8. ASSUME NEW j \in DOMAIN wire', j > last PROVE ~StartsFor(wire'[j], k)
    <3>1. j - Len(wire) \in DOMAIN more /\ wire'[j] = more[j - Len(wire)]
      BY <1>1, <1>3, <2>5, <2>8, WireConcat
    <3> QED BY <1>2, <3>1 DEF StartsFor
  <2>9. wire'[last].item = source'[k] /\ wire'[last].payload <= sentIn'[k]
    <3> HIDE DEF last
    <3>1. i \in DOMAIN more
      BY <1>1, <2>1
    <3>2. sentIn'[k] = payloads + 1 /\ more[i].payload = payloads + 1 /\ payloads \in Nat
      BY <1>2, <1>4, <1>9, <3>1 DEF TypeOK
    <3> QED BY <1>2, <1>3, <2>1, <2>6, <3>1, <3>2
  <2>10. last \in ItemPlaces(wire', k)
    <3> HIDE DEF last
    <3> QED BY <1>1, <1>2, <2>1, <2>5, <2>6 DEF ItemPlaces
  <2> HIDE DEF last
  <2> QED BY <2>7, <2>8, <2>9, <2>10 DEF OnItsWay, StartsFor, Covers
<1>10. CleanInv'
  BY <1>3, <1>4, <1>8 DEF DeliveryInv, CleanInv, Settled
<1>11. SentInv'
  BY <1>3, <1>4, <1>8, <1>9 DEF DeliveryInv, SentInv, Arrives
<1>12. ForgottenInv'
  <2> SUFFICES ASSUME NEW k \in Forgotten'
               PROVE  /\ ItemPlaces(wire', k) = {}
                      /\ snapshot'.open /\ snapshot'.scope # Unscoped /\ Covers(snapshot'.scope, k)
                           => Opened(k, Len(wire) + 1)'
    BY DEF ForgottenInv, Covers
  <2>1. k \in Keys /\ ~InBatch(b, k) /\ k \in Forgotten
    BY <1>4 DEF Forgotten
  <2>2. ItemPlaces(wire', k) = {}
    BY <1>3, <1>8, <2>1 DEF DeliveryInv, ForgottenInv
  <2>3. ASSUME snapshot'.open, snapshot'.scope # Unscoped, Covers(snapshot'.scope, k)
        PROVE  Opened(k, Len(wire) + 1)'
    <3>1. Opened(k, Len(wire) + 1)
      BY <1>3, <1>5, <1>6, <2>1, <2>3 DEF DeliveryInv, ForgottenInv
    <3>2. PICK j \in Nat, l \in Nat : j = Len(wire) + 1 /\ l = Len(wire') + 1 /\ j <= l
      BY <1>1, <1>3, <1>7, WireConcat
    <3>3. Opened(k, j)
      BY <3>1, <3>2
    <3>4. ASSUME NEW n \in MarkerPlaces(wire') PROVE n \in DOMAIN wire /\ n < j
      <4>1. n \in DOMAIN wire' /\ wire'[n].kind \in {"start", "end"}
        BY <3>4 DEF MarkerPlaces
      <4>2. \/ n \in DOMAIN wire
            \/ n - Len(wire) \in DOMAIN more /\ wire'[n] = more[n - Len(wire)]
        BY <1>1, <1>3, <4>1, WireConcat
      <4>3. n \in DOMAIN wire
        BY <1>2, <4>1, <4>2
      <4> QED BY <1>1, <1>3, <3>2, <4>3, WireConcat
    <3>5. candidates' = candidates /\ store' = store
      BY <1>3
    <3>6. Opened(k, l)'
      BY <1>1, <1>3, <3>2, <3>3, <3>4, <3>5, OpenedConcat
    <3> QED BY <3>2, <3>6 DEF Opened
  <2> QED BY <2>2, <2>3
<1> QED BY <1>3, <1>10, <1>11, <1>12 DEF DeliveryInv

(* A snapshot starts: the live items of its scope are owed again, and the   *)
(* end of the snapshot will remove what it does not mention.                *)
LEMMA StartDelivery ==
  ASSUME TypeOK, DeliveryInv, NEW scope \in Scopes, SendSnapshotStart(scope)
  PROVE  DeliveryInv'
<1> DEFINE e == [kind |-> "start", scope |-> scope, before |-> base,
                 payload |-> payloads + 1, last |-> TRUE]
           more == <<e>>
<1>1. e \in Events /\ e.kind = "start" /\ e.scope = scope
  BY DEF Events, MarkerEvents, TypeOK
<1>2. wire' = Append(wire, e) /\ phase = "open" /\ UNCHANGED <<source, misled, phase, candidates, store>>
  BY DEF SendSnapshotStart, clientVars
<1> HIDE DEF e
<1>3. /\ more \in Seq(Events) /\ Len(more) = 1 /\ DOMAIN more = {1} /\ more[1] = e
      /\ wire' = wire \o more
  BY <1>1, <1>2, AppendIsConcat DEF TypeOK
<1> HIDE DEF more
<1>4. \A k \in Keys : /\ Covers(scope, k) /\ source[k] # Absent => due'[k] = "dirty"
                      /\ ~Covers(scope, k) \/ source[k] = Absent =>
                           due'[k] = due[k] /\ sentIn'[k] = sentIn[k]
  BY DEF SendSnapshotStart
<1>5. snapshot'.scope = scope
  BY DEF SendSnapshotStart
<1>6. ASSUME NEW k \in Keys, ~Covers(scope, k) \/ source[k] = Absent
      PROVE  /\ Delivered(k) => Delivered(k)'
             /\ Arrives(k) => Arrives(k)'
             /\ ItemPlaces(wire', k) = ItemPlaces(wire, k)
  <2>1. \A i \in DOMAIN more : /\ more[i].kind \in {"changed", "deleted"} => more[i].key # k
                               /\ source[k] # Absent => ~StartsFor(more[i], k)
    BY <1>1, <1>3, <1>6 DEF StartsFor
  <2>2. sentIn'[k] = sentIn[k]
    BY <1>4, <1>6
  <2> QED BY <1>2, <1>3, <2>1, <2>2, ConcatKeeps, PlacesConcat
<1>7. CleanInv'
  BY <1>2, <1>4, <1>6 DEF DeliveryInv, CleanInv, Settled
<1>8. SentInv'
  BY <1>2, <1>4, <1>6 DEF DeliveryInv, SentInv
<1>9. ForgottenInv'
  <2> SUFFICES ASSUME NEW k \in Forgotten'
               PROVE  /\ ItemPlaces(wire', k) = {}
                      /\ snapshot'.open /\ snapshot'.scope # Unscoped /\ Covers(snapshot'.scope, k)
                           => Opened(k, Len(wire) + 1)'
    BY DEF ForgottenInv, Covers
  <2>1. k \in Keys /\ (~Covers(scope, k) \/ source[k] = Absent) /\ k \in Forgotten
    BY <1>4 DEF Forgotten
  <2>2. ItemPlaces(wire', k) = {}
    BY <1>2, <1>6, <2>1 DEF DeliveryInv, ForgottenInv
  <2>3. ASSUME snapshot'.scope # Unscoped, Covers(snapshot'.scope, k)
        PROVE  Opened(k, Len(wire) + 1)'
    <3>1. PICK m \in Nat : m = Len(wire') /\ m \in DOMAIN wire' /\ wire'[m] = e
      <4>0. /\ Len(wire) \in Nat /\ DOMAIN wire = 1 .. Len(wire)
            /\ Len(wire') = Len(wire) + Len(more) /\ DOMAIN wire' = 1 .. Len(wire) + Len(more)
        BY <1>3, WireConcat
      <4>1. Len(wire) + 1 \in DOMAIN wire' /\ Len(wire) + 1 \notin DOMAIN wire
            /\ Len(wire') = Len(wire) + 1 /\ Len(wire) \in Nat
        BY <1>3, <4>0
      <4>2. wire'[Len(wire) + 1] = e
        BY <1>3, <4>1, WireConcat
      <4> QED BY <4>1, <4>2
    <3>2. \A n \in MarkerPlaces(wire') : n <= m
      BY <1>3, <3>1, WireConcat DEF MarkerPlaces
    <3>3. StartsFor(wire'[m], k) /\ wire'[m].scope # Unscoped /\ m < Len(wire') + 1
      BY <1>1, <1>5, <2>3, <3>1 DEF StartsFor, Covers
    <3> QED BY <3>1, <3>2, <3>3 DEF Opened, StartsFor, Covers
  <2> QED BY <2>2, <2>3
<1> QED BY <1>2, <1>7, <1>8, <1>9 DEF DeliveryInv

(* A snapshot ends: what it removes at its end counts as sent.              *)
LEMMA EndDelivery ==
  ASSUME TypeOK, DeliveryInv, SendSnapshotEnd
  PROVE  DeliveryInv'
<1> DEFINE e == [kind |-> "end", scope |-> snapshot.scope, before |-> base,
                 payload |-> payloads + 1, last |-> TRUE]
           more == <<e>>
           gone(k) == /\ k \in Forgotten /\ source[k] = Absent
                      /\ snapshot.scope # Unscoped /\ Covers(snapshot.scope, k)
<1>1. e \in Events /\ e.kind = "end" /\ e.scope = snapshot.scope /\ e.payload = payloads + 1
  BY DEF Events, MarkerEvents, TypeOK
<1>2. /\ wire' = Append(wire, e) /\ phase = "open" /\ snapshot.open
      /\ UNCHANGED <<source, misled, phase, candidates, store>>
  BY DEF SendSnapshotEnd, clientVars
<1> HIDE DEF e
<1>3. /\ more \in Seq(Events) /\ Len(more) = 1 /\ DOMAIN more = {1} /\ more[1] = e
      /\ wire' = wire \o more
  BY <1>1, <1>2, AppendIsConcat DEF TypeOK
<1>4. ASSUME NEW k \in Keys
      PROVE  /\ due'[k] = IF gone(k) THEN "sent" ELSE due[k]
             /\ sentIn'[k] = IF gone(k) THEN payloads + 1 ELSE sentIn[k]
  BY DEF SendSnapshotEnd
<1> HIDE DEF more, gone
<1>5. ~snapshot'.open
  BY DEF SendSnapshotEnd, NoSnapshot
<1>6. ASSUME NEW k \in Keys
      PROVE  /\ ItemPlaces(wire', k) = ItemPlaces(wire, k)
             /\ ~gone(k) => /\ Delivered(k) => Delivered(k)'
                            /\ Arrives(k) => Arrives(k)'
  <2>1. \A i \in DOMAIN more : /\ more[i].kind \in {"changed", "deleted"} => more[i].key # k
                               /\ source[k] # Absent => ~StartsFor(more[i], k)
    BY <1>1, <1>3 DEF StartsFor
  <2>2. ~gone(k) => sentIn'[k] = sentIn[k]
    BY <1>4
  <2> QED BY <1>2, <1>3, <2>1, <2>2, ConcatKeeps, PlacesConcat
<1>7. ASSUME NEW k \in Keys, gone(k) PROVE WillBePruned(k)'
  <2>1. k \in Forgotten /\ source[k] = Absent
        /\ snapshot.scope # Unscoped /\ Covers(snapshot.scope, k)
    BY <1>7 DEF gone
  <2>2. ItemPlaces(wire', k) = {} /\ Opened(k, Len(wire) + 1)
    BY <1>2, <1>6, <2>1 DEF DeliveryInv, ForgottenInv
  <2>3. PICK j \in Nat : j = Len(wire) + 1
    BY <1>3, WireConcat
  <2>4. j \in DOMAIN wire' /\ wire'[j] = e
    <3>0. /\ Len(wire) \in Nat /\ DOMAIN wire = 1 .. Len(wire)
          /\ DOMAIN wire' = 1 .. Len(wire) + Len(more)
      BY <1>3, WireConcat
    <3>1. j \in DOMAIN wire' /\ j \notin DOMAIN wire /\ j - Len(wire) = 1
      BY <1>3, <2>3, <3>0
    <3> QED BY <1>3, <3>1, WireConcat
  <2>5. \A n \in MarkerPlaces(wire') : (n \in DOMAIN wire /\ n < j) \/ n >= j
    BY <1>3, <2>3, WireConcat DEF MarkerPlaces
  <2>6. Opened(k, j)'
    <3>1. Opened(k, j) /\ candidates' = candidates /\ store' = store /\ j <= j
      BY <1>2, <2>2, <2>3
    <3> QED BY <1>3, <2>5, <3>1, OpenedConcat
  <2>7. sentIn'[k] = payloads + 1 /\ payloads \in Nat
    BY <1>4, <1>7 DEF TypeOK
  <2>8. EndsFor(wire'[j], k) /\ wire'[j].payload <= sentIn'[k]
    BY <1>1, <2>1, <2>4, <2>7 DEF EndsFor, Covers
  <2> QED BY <1>2, <2>1, <2>2, <2>4, <2>6, <2>8 DEF WillBePruned, EndsFor, Covers
<1>8. CleanInv'
  BY <1>2, <1>4, <1>6 DEF DeliveryInv, CleanInv, Settled
<1>9. SentInv'
  BY <1>2, <1>4, <1>6, <1>7 DEF DeliveryInv, SentInv, Arrives
<1>10. ForgottenInv'
  BY <1>2, <1>4, <1>5, <1>6 DEF DeliveryInv, ForgottenInv, Forgotten
<1> QED BY <1>2, <1>8, <1>9, <1>10 DEF DeliveryInv

(* An acknowledgement settles payloads of which nothing is on the wire; one *)
(* of an earlier connection, or behind such a one, misleads the service.    *)
LEMMA AckDelivery ==
  ASSUME TypeOK, AckInv, DeliveryInv, CountAck, ahead' \/ (~ahead /\ acks > 0)
  PROVE  DeliveryInv'
<1> DEFINE settled(k) == due[k] = "sent" /\ sentIn[k] <= acked + 1
<1>1. /\ UNCHANGED <<source, snapshot, phase, wire, candidates, store>>
      /\ phase = "open"
      /\ \A k \in Keys : /\ due'[k] = IF settled(k) THEN "clean" ELSE due[k]
                         /\ sentIn'[k] = IF settled(k) THEN 0 ELSE sentIn[k]
                         /\ k \in misled' <=>
                              IF ahead' THEN k \in misled \/ settled(k)
                              ELSE k \in misled /\ ~settled(k)
  BY DEF CountAck, clientVars
<1> HIDE DEF settled
<1>2. \A k : ItemPlaces(wire, k)' = ItemPlaces(wire, k)
  BY <1>1 DEF ItemPlaces
<1>3. MarkerPlaces(wire)' = MarkerPlaces(wire)
  BY <1>1 DEF MarkerPlaces
<1>4. \A k : Delivered(k)' <=> Delivered(k)
  BY <1>1, <1>2 DEF Delivered, StartsFor, Covers
<1>5. \A k, j : Opened(k, j)' <=> Opened(k, j)
  BY <1>1, <1>3 DEF Opened, StartsFor, Covers
<1>6. \A k \in Keys : ~settled(k) => (Arrives(k)' <=> Arrives(k))
  BY <1>1, <1>2, <1>4, <1>5 DEF Arrives, OnItsWay, WillBePruned, StartsFor, EndsFor, Covers
<1>7. ASSUME NEW k \in Keys, settled(k), ~ahead' PROVE Delivered(k)
  <2>1. Arrives(k) /\ sentIn[k] \in Nat /\ sentIn[k] <= acked + 1
    BY <1>7 DEF DeliveryInv, SentInv, settled, TypeOK
  <2>2. ASSUME NEW i \in DOMAIN wire PROVE ~(wire[i].payload <= sentIn[k])
    <3>1. wire[i].payload > acked + acks + Owed /\ Owed \in Nat /\ wire[i].payload \in Nat
      BY <1>1, <1>7, LenProperties, ElementOfSeq, EventType DEF AckInv, Owed, TypeOK
    <3>2. acks > 0
      BY <1>7
    <3> QED BY <2>1, <3>1, <3>2 DEF TypeOK
  <2>3. ~OnItsWay(k) /\ ~WillBePruned(k)
    BY <2>2 DEF OnItsWay, ItemPlaces, WillBePruned
  <2> QED BY <2>1, <2>3 DEF Arrives
<1>8. CleanInv'
  BY <1>1, <1>4, <1>7 DEF DeliveryInv, CleanInv, Settled
<1>9. SentInv'
  BY <1>1, <1>6 DEF DeliveryInv, SentInv
<1>10. ForgottenInv'
  BY <1>1, <1>2, <1>5 DEF DeliveryInv, ForgottenInv, Forgotten, Covers
<1> QED BY <1>1, <1>8, <1>9, <1>10 DEF DeliveryInv

(* A connection ends: nothing is sent any more, and what was clean stays so *)
(* whatever part of the wire is still consumed.                             *)
LEMMA LostDelivery ==
  ASSUME TypeOK, DeliveryInv, NEW owed, ConnectionLost(owed), phase' # "open",
         \A k \in Keys : /\ owed[k] # "sent"
                         /\ owed[k] = "clean" => due[k] = "clean",
         UNCHANGED store,
         \A k \in candidates' : k \in candidates,
         \A i \in DOMAIN wire' : i \in DOMAIN wire /\ wire'[i] = wire[i]
  PROVE  DeliveryInv'
<1>1. due' = owed /\ ~snapshot'.open /\ source' = source /\ misled' = misled
  BY DEF ConnectionLost, NoSnapshot
<1>2. \A k : ItemPlaces(wire, k) = {} => ItemPlaces(wire', k) = {}
  BY DEF ItemPlaces
<1>3. ASSUME NEW k \in Keys, Delivered(k) PROVE Delivered(k)'
  BY <1>1, <1>2, <1>3 DEF Delivered, StartsFor, Covers
<1>4. CleanInv'
  BY <1>1, <1>3 DEF DeliveryInv, CleanInv, Settled
<1>5. SentInv' /\ ForgottenInv'
  BY <1>1 DEF SentInv, ForgottenInv
<1> QED BY <1>1, <1>4, <1>5 DEF DeliveryInv

LEMMA ReceivedPlaces ==
  ASSUME TypeOK, NEW n \in Received, wire' = SubSeq(wire, 1, n)
  PROVE  \A i \in DOMAIN wire' : i \in DOMAIN wire /\ wire'[i] = wire[i]
<1>1. wire \in Seq(Events) /\ Len(wire) \in Nat /\ DOMAIN wire = 1..Len(wire)
  BY LenProperties DEF TypeOK
<1>2. n \in 0..Len(wire) /\ \A i \in 1..n : wire[i] \in Events
  BY <1>1, ElementOfSeq DEF Received
<1>3. /\ wire' \in Seq(Events)
      /\ Len(wire') = IF 1 <= n THEN n - 1 + 1 ELSE 0
      /\ \A i \in 1..(n - 1 + 1) : wire'[i] = wire[1 + i - 1]
  BY <1>2, SubSeqProperties
<1> QED BY <1>1, <1>2, <1>3, LenProperties

(* An event of an item is persisted: that item's version is stored now.     *)
LEMMA ItemDelivery ==
  ASSUME TypeOK, DeliveryInv, NEW kind \in {"changed", "deleted"}, Take(kind),
         store' = [store EXCEPT ![wire[1].key] = wire[1].item],
         candidates' = WithoutCandidate(wire[1].key)
  PROVE  DeliveryInv'
<1>1. /\ UNCHANGED <<source, due, sentIn, snapshot, misled, phase>>
      /\ wire[1] \in Events /\ wire[1].kind = kind /\ 1 \in DOMAIN wire
      /\ Len(wire) \in Nat \ {0} /\ Len(wire') = Len(wire) - 1
  BY WireTail DEF Take, serviceVars
<1>2. wire[1].key \in Keys
  BY <1>1 DEF Events, ItemEvents, MarkerEvents
<1>3. 1 \in ItemPlaces(wire, wire[1].key)
  BY <1>1 DEF ItemPlaces
<1>4. \A k \in Keys : /\ store'[k] = IF k = wire[1].key THEN wire[1].item ELSE store[k]
                      /\ k \in candidates' <=> k \in candidates /\ k # wire[1].key
  BY DEF TypeOK, Versions, WithoutCandidate
<1>5. ASSUME NEW k \in Keys, Delivered(k) PROVE Delivered(k)'
  <2>1. k # wire[1].key
    BY <1>3, <1>5 DEF Delivered
  <2>2. store'[k] = source'[k] /\ (source[k] # Absent => k \notin candidates')
    BY <1>1, <1>4, <1>5, <2>1 DEF Delivered
  <2>3. /\ ItemPlaces(wire', k) = {}
        /\ source[k] # Absent => \A i \in DOMAIN wire' : ~StartsFor(wire'[i], k)
    BY <1>5, TailKeeps DEF Delivered
  <2> QED BY <1>1, <2>2, <2>3 DEF Delivered, StartsFor, Covers
<1>6. ASSUME NEW k \in Keys, OnItsWay(k) PROVE Delivered(k)' \/ OnItsWay(k)'
  <2> SUFFICES ASSUME ~OnItsWay(k)' PROVE Delivered(k)'
    OBVIOUS
  <2>1. /\ 1 \in ItemPlaces(wire, k) /\ wire[1].item = source[k]
        /\ ItemPlaces(wire', k) = {}
        /\ source[k] # Absent => \A i \in DOMAIN wire' : ~StartsFor(wire'[i], k)
    BY <1>6, TailKeeps
  <2>2. k = wire[1].key
    BY <2>1 DEF ItemPlaces
  <2>3. store'[k] = source'[k] /\ k \notin candidates'
    BY <1>1, <1>4, <2>1, <2>2
  <2> QED BY <1>1, <2>1, <2>3 DEF Delivered, StartsFor, Covers
<1>7. ASSUME NEW k \in Keys, ItemPlaces(wire, k) = {}
      PROVE  /\ k \in candidates => k \in candidates'
             /\ store[k] = Absent => store'[k] = Absent
  <2>1. k # wire[1].key
    BY <1>3, <1>7
  <2> QED BY <1>4, <2>1
<1>8. ASSUME NEW k \in Keys, WillBePruned(k) PROVE WillBePruned(k)'
  <2>1. /\ k \in candidates => k \in candidates'
        /\ store[k] = Absent => store'[k] = Absent
    BY <1>7, <1>8 DEF WillBePruned
  <2>2. kind # "start" /\ kind # "end"
    OBVIOUS
  <2> QED BY <1>8, <2>1, <2>2, PrunedTail
<1>9. CleanInv'
  BY <1>1, <1>5 DEF DeliveryInv, CleanInv, Settled
<1>10. SentInv'
  BY <1>1, <1>5, <1>6, <1>8 DEF DeliveryInv, SentInv, Arrives
<1>11. ForgottenInv'
  <2> SUFFICES ASSUME NEW k \in Forgotten', phase' = "open"
               PROVE  /\ ItemPlaces(wire', k) = {}
                      /\ snapshot'.open /\ snapshot'.scope # Unscoped /\ Covers(snapshot'.scope, k)
                           => Opened(k, Len(wire) + 1)'
    BY DEF ForgottenInv, Covers
  <2>1. k \in Keys /\ k \in Forgotten /\ phase = "open"
    BY <1>1 DEF Forgotten
  <2>2. ItemPlaces(wire, k) = {}
    BY <2>1 DEF DeliveryInv, ForgottenInv
  <2>3. ASSUME snapshot'.open, snapshot'.scope # Unscoped, Covers(snapshot'.scope, k)
        PROVE  Opened(k, Len(wire) + 1)'
    <3>1. PICK j \in Nat : j = Len(wire) + 1 /\ j > 1 /\ j - 1 = Len(wire') + 1
      BY <1>1
    <3>2. Opened(k, j)
      BY <1>1, <2>1, <2>3, <3>1 DEF DeliveryInv, ForgottenInv
    <3>3. /\ k \in candidates => k \in candidates'
          /\ store[k] = Absent => store'[k] = Absent
      BY <1>7, <2>1, <2>2
    <3>4. kind # "start"
      OBVIOUS
    <3>5. Opened(k, j - 1)'
      BY <2>1, <3>1, <3>2, <3>3, <3>4, OpenedTail
    <3> QED BY <3>1, <3>5 DEF Opened
  <2>4. ItemPlaces(wire', k) = {}
    BY <2>1, <2>2, TailKeeps
  <2> QED BY <2>3, <2>4
<1> QED BY <1>1, <1>9, <1>10, <1>11 DEF DeliveryInv

(* What a marker does to an item whose events are behind it.                *)
LEMMA MarkerDelivery ==
  ASSUME TypeOK, DeliveryInv, NEW kind \in {"start", "end"}, Take(kind),
         kind = "start" => candidates' = SnapshotCandidates(wire[1].scope) /\ store' = store,
         kind = "end" => candidates' = {} /\ store' = PruneMissing
  PROVE  DeliveryInv'
<1>1. /\ UNCHANGED <<source, due, sentIn, snapshot, misled, phase>>
      /\ wire[1] \in Events /\ wire[1].kind = kind /\ 1 \in DOMAIN wire
      /\ Len(wire) \in Nat \ {0} /\ Len(wire') = Len(wire) - 1
  BY WireTail DEF Take, serviceVars
<1>2. kind \notin {"changed", "deleted"}
  OBVIOUS
<1>3. ASSUME NEW k \in Keys, Delivered(k) PROVE Delivered(k)'
  <2>1. source[k] # Absent => ~StartsFor(wire[1], k)
    BY <1>1, <1>3 DEF Delivered
  <2>2. store'[k] = source'[k]
    BY <1>1, <1>3 DEF Delivered, PruneMissing
  <2>3. source[k] # Absent => k \notin candidates'
    BY <1>1, <2>1 DEF StartsFor, Covers, SnapshotCandidates
  <2>4. /\ ItemPlaces(wire', k) = {}
        /\ source[k] # Absent => \A i \in DOMAIN wire' : ~StartsFor(wire'[i], k)
    BY <1>3, TailKeeps DEF Delivered
  <2> QED BY <1>1, <2>2, <2>3, <2>4 DEF Delivered, StartsFor, Covers
<1>4. ASSUME NEW k \in Keys, OnItsWay(k) PROVE OnItsWay(k)'
  <2>1. 1 \notin ItemPlaces(wire, k)
    BY <1>1, <1>2 DEF ItemPlaces
  <2> QED BY <1>4, <2>1, TailKeeps
<1>5. ASSUME NEW k \in Keys, WillBePruned(k) PROVE WillBePruned(k)' \/ Delivered(k)'
  <2> SUFFICES ASSUME ~WillBePruned(k)' PROVE Delivered(k)'
    OBVIOUS
  <2>1. kind = "end" /\ (k \in candidates \/ store[k] = Absent)
    BY <1>2, <1>5, PrunedTail
  <2>2. store'[k] = Absent /\ source'[k] = Absent
    BY <1>1, <1>5, <2>1 DEF PruneMissing, WillBePruned
  <2>3. ItemPlaces(wire', k) = {}
    BY <1>5, TailKeeps DEF WillBePruned
  <2> QED BY <2>2, <2>3 DEF Delivered
<1>6. CleanInv'
  BY <1>1, <1>3 DEF DeliveryInv, CleanInv, Settled
<1>7. SentInv'
  BY <1>1, <1>3, <1>4, <1>5 DEF DeliveryInv, SentInv, Arrives
<1>8. ForgottenInv'
  <2> SUFFICES ASSUME NEW k \in Forgotten', phase' = "open"
               PROVE  /\ ItemPlaces(wire', k) = {}
                      /\ snapshot'.open /\ snapshot'.scope # Unscoped /\ Covers(snapshot'.scope, k)
                           => Opened(k, Len(wire) + 1)'
    BY DEF ForgottenInv, Covers
  <2>1. k \in Keys /\ k \in Forgotten /\ phase = "open"
    BY <1>1 DEF Forgotten
  <2>2. ItemPlaces(wire', k) = {}
    BY <2>1, TailKeeps DEF DeliveryInv, ForgottenInv
  <2>3. ASSUME snapshot'.open, snapshot'.scope # Unscoped, Covers(snapshot'.scope, k)
        PROVE  Opened(k, Len(wire) + 1)'
    <3>1. PICK j \in Nat : j = Len(wire) + 1 /\ j > 1 /\ j - 1 = Len(wire') + 1
      BY <1>1
    <3>2. Opened(k, j)
      BY <1>1, <2>1, <2>3, <3>1 DEF DeliveryInv, ForgottenInv
    <3>3. Opened(k, j - 1)'
      BY <1>2, <2>1, <3>1, <3>2, OpenedTail
    <3> QED BY <3>1, <3>3 DEF Opened
  <2> QED BY <2>2, <2>3
<1> QED BY <1>1, <1>6, <1>7, <1>8 DEF DeliveryInv

LEMMA NextDelivery ==
  TypeOK /\ BaseInv /\ AckInv /\ DeliveryInv /\ [Next]_vars => DeliveryInv'
<1> SUFFICES ASSUME TypeOK, BaseInv, AckInv, DeliveryInv, [Next]_vars PROVE DeliveryInv'
  OBVIOUS
<1> USE DEF serviceVars, transportVars, clientVars, boundVars
<1>1. ASSUME NEW k \in Keys, Redeliver(k) PROVE DeliveryInv'
  <2>1. \A c \in Keys : due'[c] = due[c] \/ due'[c] = "dirty"
    BY <1>1 DEF Redeliver, TypeOK
  <2> QED BY <1>1, <2>1, SameDelivery DEF Redeliver
<1>2. ASSUME NEW k \in Keys, NEW item \in ItemOrAbsent, SourceChange(k, item) PROVE DeliveryInv'
  BY <1>2, ChangeDelivery
<1>3. ASSUME NEW b \in Batches, SendItems(b) PROVE DeliveryInv'
  BY <1>3, SendDelivery
<1>4. ASSUME NEW scope \in Scopes, SendSnapshotStart(scope) PROVE DeliveryInv'
  BY <1>4, StartDelivery
<1>5. ASSUME SendSnapshotEnd PROVE DeliveryInv'
  BY <1>5, EndDelivery
<1>6. ASSUME ReceiveAck PROVE DeliveryInv'
  BY <1>6, AckDelivery DEF ReceiveAck, TypeOK
<1>19. ASSUME ReceiveStrayAck PROVE DeliveryInv'
  BY <1>19, AckDelivery DEF ReceiveStrayAck
<1>7. ASSUME ResetTarget PROVE DeliveryInv'
  <2>1. PICK n \in Received : wire' = SubSeq(wire, 1, n)
    BY <1>7 DEF ResetTarget
  <2>2. \A i \in DOMAIN wire' : i \in DOMAIN wire /\ wire'[i] = wire[i]
    BY <2>1, ReceivedPlaces
  <2> DEFINE owed == [k \in Keys |-> "forgotten"]
  <2>3. ConnectionLost(owed) /\ \A k \in Keys : owed[k] = "forgotten"
    BY <1>7 DEF ResetTarget
  <2>4. phase' # "open" /\ candidates' = candidates /\ store' = store
    BY <1>7 DEF ResetTarget
  <2> QED BY <2>2, <2>3, <2>4, LostDelivery
<1>8. ASSUME DropConnection PROVE DeliveryInv'
  <2>1. PICK n \in Received : wire' = SubSeq(wire, 1, n)
    BY <1>8 DEF DropConnection
  <2>2. \A i \in DOMAIN wire' : i \in DOMAIN wire /\ wire'[i] = wire[i]
    BY <2>1, ReceivedPlaces
  <2>3. ConnectionLost(Unsettled)
    BY <1>8 DEF DropConnection
  <2>4. \A k \in Keys : Unsettled[k] # "sent" /\ (Unsettled[k] = "clean" => due[k] = "clean")
    BY DEF Unsettled
  <2>5. phase' # "open" /\ candidates' = candidates /\ store' = store
    BY <1>8 DEF DropConnection
  <2> QED BY <2>2, <2>3, <2>4, <2>5, LostDelivery
<1>9. ASSUME Crash PROVE DeliveryInv'
  <2>1. wire' = <<>> /\ candidates' = {} /\ phase' # "open" /\ store' = store
    BY <1>9 DEF Crash
  <2>2. CASE phase = "open"
    <3>1. ConnectionLost(Unsettled)
      BY <1>9, <2>2 DEF Crash
    <3>2. \A k \in Keys : Unsettled[k] # "sent" /\ (Unsettled[k] = "clean" => due[k] = "clean")
      BY DEF Unsettled
    <3> QED BY <2>1, <3>1, <3>2, LostDelivery
  <2>3. CASE phase # "open"
    <3>1. UNCHANGED <<source, due, sentIn, snapshot, misled>>
      BY <1>9, <2>3 DEF Crash
    <3>2. \A k \in Keys : Delivered(k) => Delivered(k)'
      BY <2>1, <3>1 DEF Delivered, ItemPlaces
    <3> QED BY <2>1, <2>3, <3>1, <3>2
            DEF DeliveryInv, CleanInv, Settled, SentInv, ForgottenInv
  <2> QED BY <2>2, <2>3
<1>10. ASSUME Connect PROVE DeliveryInv'
  <2>1. /\ wire = <<>> /\ candidates' = {} /\ phase # "open" /\ ~snapshot.open
        /\ UNCHANGED <<source, due, sentIn, snapshot, misled, wire, store>>
    BY <1>10 DEF Connect, AckInv, DeliveryInv
  <2>2. \A k : ItemPlaces(wire', k) = {}
    BY <2>1 DEF ItemPlaces
  <2>3. \A k \in Keys : Delivered(k) => Delivered(k)'
    BY <2>1, <2>2 DEF Delivered
  <2> QED BY <2>1, <2>2, <2>3 DEF DeliveryInv, CleanInv, Settled, SentInv, ForgottenInv, Forgotten
<1>11. ASSUME Disconnected PROVE DeliveryInv'
  <2>1. /\ candidates' = {} /\ phase # "open" /\ phase' # "open"
        /\ UNCHANGED <<source, due, sentIn, snapshot, misled, wire, store>>
    BY <1>11 DEF Disconnected
  <2>2. \A k \in Keys : Delivered(k) => Delivered(k)'
    BY <2>1 DEF Delivered, ItemPlaces, StartsFor, Covers
  <2> QED BY <2>1, <2>2 DEF DeliveryInv, CleanInv, Settled, SentInv, ForgottenInv
<1>12. ASSUME ItemChanged PROVE DeliveryInv'
  <2> DEFINE e == Head(wire)
  <2>1. e \in Events /\ e.kind = "changed" /\ Take("changed") /\ e = wire[1]
        /\ e.before = materialized
    BY <1>12, TakeType, WireTail DEF ItemChanged, BaseInv, BaselineAgreement, Chain
  <2>2. e.item \in Items /\ e.key \in Keys /\ e.before \in Versions
    <3> HIDE DEF e
    <3> QED BY <2>1 DEF Events, ItemEvents, MarkerEvents, ItemOrAbsent
  <2>3. Materialize(DiffPatch(e.before[e.key], e.item), e.before[e.key]) = e.item
    BY <2>2, MaterializeInvertsDiff DEF Versions
  <2>4. store' = [store EXCEPT ![e.key] = e.item] /\ candidates' = WithoutCandidate(e.key)
    BY <1>12, <2>1, <2>3 DEF ItemChanged
  <2> HIDE DEF e
  <2> QED BY <2>1, <2>4, ItemDelivery
<1>13. ASSUME ItemDeleted PROVE DeliveryInv'
  <2> DEFINE e == Head(wire)
  <2>1. e \in Events /\ e.kind = "deleted" /\ Take("deleted") /\ e = wire[1]
    BY <1>13, TakeType, WireTail DEF ItemDeleted
  <2>2. e.item = Absent
    <3> HIDE DEF e
    <3> QED BY <2>1 DEF Events, ItemEvents, MarkerEvents
  <2>3. store' = [store EXCEPT ![e.key] = e.item] /\ candidates' = WithoutCandidate(e.key)
    BY <1>13, <2>2 DEF ItemDeleted
  <2> HIDE DEF e
  <2> QED BY <2>1, <2>3, ItemDelivery
<1>14. ASSUME SnapshotStart PROVE DeliveryInv'
  <2>1. Take("start") /\ candidates' = SnapshotCandidates(wire[1].scope) /\ store' = store
    BY <1>14, WireTail DEF SnapshotStart
  <2> QED BY <2>1, MarkerDelivery
<1>15. ASSUME SnapshotEnd PROVE DeliveryInv'
  <2>1. Take("end") /\ candidates' = {} /\ store' = PruneMissing
    BY <1>15 DEF SnapshotEnd
  <2> QED BY <2>1, MarkerDelivery
<1>16. ASSUME SendAck PROVE DeliveryInv'
  BY <1>16, SameDelivery DEF SendAck
<1>17. ASSUME LoseAck PROVE DeliveryInv'
  BY <1>17, SameDelivery DEF LoseAck
<1>18. CASE UNCHANGED vars
  BY <1>18, SameDelivery DEF vars
<1> QED
  BY <1>1, <1>2, <1>3, <1>4, <1>5, <1>6, <1>7, <1>8, <1>9, <1>10, <1>11, <1>12, <1>13,
     <1>14, <1>15, <1>16, <1>17, <1>18, <1>19 DEF Next, Service, EventLoop, Failures

SyncInv == TypeOK /\ BaseInv /\ AckInv /\ DeliveryInv

LEMMA InitSync == Init => SyncInv
  BY InitType, InitBase, InitAck, InitDelivery DEF SyncInv

LEMMA NextSync == SyncInv /\ [Next]_vars => SyncInv'
  BY NextType, NextBase, NextAck, NextDelivery DEF SyncInv

(* What was sent and not acknowledged is stored, or the events that will    *)
(* store it are on the wire, however snapshots, drops and lost ACKs fall.   *)
THEOREM SentArrives == Spec => []SentIsInFlightOrStored
<1>1. SyncInv => SentIsInFlightOrStored
  <2> SUFFICES ASSUME SyncInv, NEW k \in Keys, due[k] = "sent"
               PROVE  \/ store[k] = source[k]
                      \/ \E i \in DOMAIN wire :
                           \/ /\ wire[i].kind \in {"changed", "deleted"}
                              /\ wire[i].key = k /\ wire[i].item = source[k]
                           \/ /\ wire[i].kind = "end" /\ source[k] = Absent
                              /\ wire[i].scope # Unscoped /\ Covers(wire[i].scope, k)
    BY DEF SentIsInFlightOrStored
  <2>1. Arrives(k)
    BY DEF SyncInv, DeliveryInv, SentInv
  <2>2. CASE Delivered(k)
    BY <2>2 DEF Delivered
  <2>3. CASE OnItsWay(k)
    BY <2>3 DEF OnItsWay, ItemPlaces
  <2>4. CASE WillBePruned(k)
    BY <2>4 DEF WillBePruned, EndsFor
  <2> QED BY <2>1, <2>2, <2>3, <2>4 DEF Arrives
<1> QED BY <1>1, InitSync, NextSync, PTL DEF Spec

-----------------------------------------------------------------------------
(* The replica.                                                             *)

LEMMA InitReplica == Init => Abstract!Init
<1> SUFFICES ASSUME Init PROVE Abstract!Init
  OBVIOUS
<1>1. TypeOK /\ \A k \in Settled : store[k] = source[k]
  BY InitSync DEF SyncInv, DeliveryInv, CleanInv, Delivered, Settled
<1> QED BY <1>1 DEF TypeOK, Versions, Settled, Abstract!Init, Abstract!Contents

(* What is settled before and after a step agrees with the source at both   *)
(* ends: a step that leaves the source alone cannot have touched it.        *)
LEMMA SettledStays ==
  ASSUME SyncInv, SyncInv'
  PROVE  /\ \A k \in Settled : store[k] = source[k]
         /\ \A k \in Settled' : store'[k] = source'[k]
  BY DEF SyncInv, DeliveryInv, CleanInv, Delivered, Settled

LEMMA NextReplica ==
  SyncInv /\ SyncInv' /\ [Next]_vars => [Abstract!Next]_(Abstract!replicaVars)
<1> SUFFICES ASSUME SyncInv, SyncInv', [Next]_vars
             PROVE  Abstract!Next \/ UNCHANGED <<source, store, Settled>>
  BY DEF Abstract!replicaVars, Settled
<1> USE DEF serviceVars, transportVars, clientVars, boundVars
<1>0. /\ store \in Versions /\ store' \in Versions /\ source \in Versions
      /\ Settled \subseteq Keys /\ Settled' \subseteq Keys
  BY DEF SyncInv, TypeOK, Settled
<1>1. ASSUME UNCHANGED <<source, store>>, Settled' \subseteq Settled PROVE Abstract!Next
  BY <1>1 DEF Abstract!Next, Abstract!Owe, Settled
<1>2. ASSUME UNCHANGED <<source, due, misled>> PROVE Abstract!Next
  <2>1. Settled' = Settled
    BY <1>2 DEF Settled
  <2>2. \A k \in Settled : store'[k] = store[k]
    BY <1>2, <2>1, SettledStays
  <2> QED BY <1>0, <1>2, <2>1, <2>2
          DEF Abstract!Next, Abstract!Apply, Abstract!Contents, Versions, Settled
<1>3. ASSUME NEW k \in Keys, Redeliver(k) PROVE Abstract!Next
  <2>1. Settled' \subseteq Settled
    BY <1>3 DEF Redeliver, Settled, SyncInv, TypeOK
  <2> QED BY <1>1, <1>3, <2>1 DEF Redeliver
<1>4. ASSUME NEW k \in Keys, NEW item \in ItemOrAbsent, SourceChange(k, item) PROVE Abstract!Next
  <2>1. Settled' = Settled \ {k}
    BY <1>4 DEF SourceChange, Settled, SyncInv, TypeOK
  <2> QED BY <1>4, <2>1 DEF SourceChange, Abstract!Next, Abstract!Change, Settled
<1>5. ASSUME NEW b \in Batches, SendItems(b) PROVE Abstract!Next
  <2>1. Settled' \subseteq Settled
    BY <1>5 DEF SendItems, Settled
  <2> QED BY <1>1, <1>5, <2>1 DEF SendItems
<1>6. ASSUME NEW scope \in Scopes, SendSnapshotStart(scope) PROVE Abstract!Next
  <2>1. Settled' \subseteq Settled
    BY <1>6 DEF SendSnapshotStart, Settled
  <2> QED BY <1>1, <1>6, <2>1 DEF SendSnapshotStart
<1>7. ASSUME SendSnapshotEnd PROVE Abstract!Next
  <2>1. Settled' \subseteq Settled
    BY <1>7 DEF SendSnapshotEnd, Settled
  <2> QED BY <1>1, <1>7, <2>1 DEF SendSnapshotEnd
<1>8. ASSUME ReceiveAck \/ ReceiveStrayAck PROVE Abstract!Next
  <2>1. UNCHANGED <<source, store>> /\ Settled \subseteq Settled'
    BY <1>8 DEF ReceiveAck, ReceiveStrayAck, CountAck, Settled
  <2>2. \A k \in Settled' \ Settled : store[k] = source[k]
    BY <2>1, SettledStays
  <2> QED BY <1>0, <2>1, <2>2 DEF Abstract!Next, Abstract!Settle, Settled
<1>9. ASSUME NEW owed, ConnectionLost(owed), UNCHANGED store,
             \A k \in Keys : owed[k] = "clean" => due[k] = "clean"
      PROVE  Abstract!Next
  BY <1>1, <1>9 DEF ConnectionLost, Settled
<1>10. \A k \in Keys : Unsettled[k] = "clean" => due[k] = "clean"
  BY DEF Unsettled
<1>11. ASSUME ResetTarget PROVE Abstract!Next
  BY <1>9, <1>11 DEF ResetTarget
<1>12. ASSUME DropConnection PROVE Abstract!Next
  BY <1>9, <1>10, <1>12 DEF DropConnection
<1>13. ASSUME Crash PROVE Abstract!Next
  BY <1>2, <1>9, <1>10, <1>13 DEF Crash
<1>14. ASSUME Connect \/ Disconnected \/ SendAck \/ LoseAck PROVE Abstract!Next
  BY <1>2, <1>14 DEF Connect, Disconnected, SendAck, LoseAck
<1>15. ASSUME ItemChanged \/ ItemDeleted \/ SnapshotStart \/ SnapshotEnd PROVE Abstract!Next
  BY <1>2, <1>15 DEF ItemChanged, ItemDeleted, SnapshotStart, SnapshotEnd, Take
<1>16. CASE UNCHANGED vars
  BY <1>16 DEF vars, Settled
<1> QED
  BY <1>3, <1>4, <1>5, <1>6, <1>7, <1>8, <1>11, <1>12, <1>13, <1>14, <1>15, <1>16
     DEF Next, Service, EventLoop, Failures

(* Synchronisation implements the replica: only items the service regards  *)
(* as owed ever differ from the source or change in the Local Store, and    *)
(* none is settled that does not agree, but behind an ACK of an earlier     *)
(* connection.                                                              *)
THEOREM SyncImplementsReplica == Spec => ImplementsReplica
<1>1. Spec => []SyncInv
  BY InitSync, NextSync, PTL DEF Spec
<1> QED BY <1>1, InitReplica, NextReplica, PTL DEF Spec, ImplementsReplica, Abstract!Spec
=============================================================================
