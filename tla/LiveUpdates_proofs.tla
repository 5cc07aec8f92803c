-------------------------- MODULE LiveUpdates_proofs --------------------------
(***************************************************************************)
(* Proofs about LiveUpdates: for every number of readers, events and       *)
(* faults, no iterator of the hot event stream loses, repeats or reorders  *)
(* an event, and the monitor announces every change of the store once.     *)
(*                                                                         *)
(* The first is a fact about one iterator and what was published since it  *)
(* was made (InOrder), so each operation on an iterator has its lemma.     *)
(* The second adds that an instance publishes only while the monitor reads *)
(* its events (MonitorInv), and counts the changes in the queue.           *)
(***************************************************************************)
EXTENDS LiveUpdates, Integers, FiniteSetTheorems, FunctionTheorems,
        SequenceTheorems, TLAPS

Published == EventTypes \ {"commandResult"}   \* command results are not passed on

IteratorType ==
  [member: BOOLEAN, over: BOOLEAN, closed: BOOLEAN, queue: Seq(Published), reads: Nat,
   from: Nat, got: Seq(Published)]

Instances == [phase: {"none", "start", "streaming", "sleeping", "failed"}, delay: Nat,
              completed: BOOLEAN]

TypeOK ==
  /\ store \in Nat /\ announced \in Nat
  /\ hot \in Instances
  /\ published \in Seq(Published)
  /\ iter \in [Iterators -> IteratorType]
  /\ monitor \in [phase: {"off", "iterating", "reading", "sleeping"}, delay: Nat, state: States]
  /\ buffer \in [count: Nat, kinds: SUBSET {Kind(e) : e \in Data}, timer: BOOLEAN,
                 armed: BOOLEAN]

(* An iterator among the subscribers has given out, or holds, exactly what  *)
(* was published since it was made; one that is over or closed has nobody   *)
(* waiting.                                                                 *)
InOrder(it, history) ==
  /\ it.from <= Len(history)
  /\ it.member =>
       /\ ~it.closed /\ ~it.over
       /\ it.got \o it.queue = SubSeq(history, it.from + 1, Len(history))
       /\ it.reads > 0 => it.queue = <<>>
  /\ it.closed \/ it.over => it.reads = 0

IteratorsInv == \A i \in Iterators : InOrder(iter[i], published)

(* An instance that may still publish is the one that the monitor reads,    *)
(* which queues what it publishes; between two rounds nothing is queued.    *)
MonitorInv ==
  /\ hot.completed <=> hot.phase \in {"none", "failed"}
  /\ ~hot.completed => iter[Monitor].member /\ monitor.phase = "reading"
  /\ iter[Monitor].reads = 0
  /\ monitor.phase = "reading" => ~iter[Monitor].closed
  /\ monitor.phase # "reading" => iter[Monitor].queue = <<>>

BufferInv ==
  /\ store = announced + buffer.count + Changes(iter[Monitor].queue)
  /\ buffer.timer = buffer.armed
  /\ buffer.armed <=> buffer.count > 0
  /\ buffer.kinds = {} <=> buffer.count = 0

Inv == TypeOK /\ IteratorsInv /\ MonitorInv /\ BufferInv

-----------------------------------------------------------------------------
(* What putting a message at the end of a queue and taking the first does    *)
(* to the order of the messages.                                            *)

(* What follows a place in a history that goes on.                         *)
LEMMA SubSeqAppend ==
  ASSUME NEW S, NEW history \in Seq(S), NEW e \in S, NEW m \in 1 .. Len(history) + 1
  PROVE  /\ SubSeq(history, m, Len(history)) \in Seq(S)
         /\ SubSeq(Append(history, e), m, Len(Append(history, e)))
              = Append(SubSeq(history, m, Len(history)), e)
<1> DEFINE n == Len(history)
           longer == Append(history, e)
           old == SubSeq(history, m, n)
           new == SubSeq(longer, m, n + 1)
<1>1. /\ n \in Nat /\ m \in Int /\ longer \in Seq(S) /\ Len(longer) = n + 1
      /\ \A i \in 1 .. n : history[i] \in S /\ longer[i] = history[i]
      /\ longer[n + 1] = e
  BY LenProperties, AppendProperties, ElementOfSeq
<1>2. /\ old \in Seq(S) /\ Len(old) = n - m + 1
      /\ \A i \in 1 .. n - m + 1 : old[i] = history[m + i - 1]
  <2>1. \A i \in m .. n : history[i] \in S
    BY <1>1
  <2> HIDE DEF n
  <2>2. /\ SubSeq(history, m, n) \in Seq(S)
        /\ Len(SubSeq(history, m, n)) = IF m <= n THEN n - m + 1 ELSE 0
        /\ \A i \in 1 .. n - m + 1 : SubSeq(history, m, n)[i] = history[m + i - 1]
    BY <1>1, <2>1, SubSeqProperties
  <2>3. m \in 1 .. n + 1
    BY DEF n
  <2> QED BY <1>1, <2>2, <2>3
<1>3. /\ new \in Seq(S) /\ Len(new) = n - m + 2
      /\ \A i \in 1 .. n - m + 2 : new[i] = longer[m + i - 1]
  <2>1. \A i \in m .. n + 1 : longer[i] \in S
    BY <1>1
  <2> HIDE DEF n, longer
  <2>2. /\ SubSeq(longer, m, n + 1) \in Seq(S)
        /\ Len(SubSeq(longer, m, n + 1)) = IF m <= n + 1 THEN n + 1 - m + 1 ELSE 0
        /\ \A i \in 1 .. n + 1 - m + 1 : SubSeq(longer, m, n + 1)[i] = longer[m + i - 1]
    BY <1>1, <2>1, SubSeqProperties
  <2>3. m \in 1 .. n + 1
    BY DEF n
  <2> QED BY <1>1, <2>2, <2>3
<1>4. /\ Append(old, e) \in Seq(S) /\ Len(Append(old, e)) = n - m + 2
      /\ \A i \in 1 .. n - m + 1 : Append(old, e)[i] = old[i]
      /\ Append(old, e)[n - m + 2] = e
  <2> HIDE DEF old, n
  <2>0. old \in Seq(S)
    BY <1>2
  <2>1. /\ Append(old, e) \in Seq(S) /\ Len(Append(old, e)) = Len(old) + 1
        /\ \A i \in 1 .. Len(old) : Append(old, e)[i] = old[i]
        /\ Append(old, e)[Len(old) + 1] = e
    BY <2>0, AppendProperties
  <2> QED BY <1>1, <1>2, <2>1
<1>5. \A i \in 1 .. n - m + 2 : new[i] = Append(old, e)[i]
  <2> HIDE DEF n, longer, old, new
  <2>1. ASSUME NEW i \in 1 .. n - m + 2 PROVE new[i] = Append(old, e)[i]
    <3>1. CASE i = n - m + 2
      BY <1>1, <1>3, <1>4, <3>1
    <3>2. CASE i \in 1 .. n - m + 1
      <4>1. m + i - 1 \in 1 .. n
        BY <1>1, <3>2 DEF n
      <4>2. new[i] = longer[m + i - 1] /\ longer[m + i - 1] = history[m + i - 1]
        BY <1>1, <1>3, <3>2, <4>1
      <4>3. Append(old, e)[i] = old[i] /\ old[i] = history[m + i - 1]
        BY <1>2, <1>4, <3>2
      <4> QED BY <4>2, <4>3
    <3>3. n \in Int /\ m \in Int
      BY <1>1
    <3>4. i = n - m + 2 \/ i \in 1 .. n - m + 1
      BY <2>1, <3>3
    <3> QED BY <3>1, <3>2, <3>4
  <2> QED BY <2>1
<1>6. new = Append(old, e)
  <2> HIDE DEF n, longer, old, new
  <2> QED BY <1>3, <1>4, <1>5, SeqEqual
<1> QED BY <1>1, <1>2, <1>6

(* Put at the end, a message follows all that was given out or waits.      *)
LEMMA ConcatAppend ==
  ASSUME NEW S, NEW given \in Seq(S), NEW queue \in Seq(S), NEW e \in S
  PROVE  given \o Append(queue, e) = Append(given \o queue, e)
<1>1. /\ <<e>> \in Seq(S) /\ given \o queue \in Seq(S)
      /\ Append(queue, e) = queue \o <<e>>
      /\ Append(given \o queue, e) = (given \o queue) \o <<e>>
  BY AppendIsConcat, ConcatProperties
<1>2. (given \o queue) \o <<e>> = given \o (queue \o <<e>>)
  BY <1>1, ConcatAssociative
<1> QED BY <1>1, <1>2

(* Giving out the first message of the queue changes nothing of the whole. *)
LEMMA ConcatHeadTail ==
  ASSUME NEW S, NEW given \in Seq(S), NEW queue \in Seq(S), queue # <<>>
  PROVE  Append(given, Head(queue)) \o Tail(queue) = given \o queue
<1>1. /\ Head(queue) \in S /\ Tail(queue) \in Seq(S) /\ <<Head(queue)>> \in Seq(S)
  BY HeadTailProperties
<1>2. Append(given, Head(queue)) = given \o <<Head(queue)>>
  BY <1>1, AppendIsConcat
<1>3. (given \o <<Head(queue)>>) \o Tail(queue) = given \o (<<Head(queue)>> \o Tail(queue))
  BY <1>1, ConcatAssociative
<1>4. <<Head(queue)>> \o Tail(queue) = queue
  <2> DEFINE whole == <<Head(queue)>> \o Tail(queue)
  <2>1. /\ Len(queue) \in Nat \ {0} /\ Len(Tail(queue)) = Len(queue) - 1
        /\ \A i \in 1 .. Len(queue) - 1 : Tail(queue)[i] = queue[i + 1]
        /\ Head(queue) = queue[1]
    BY HeadTailProperties, LenProperties, EmptySeq
  <2>2. /\ whole \in Seq(S) /\ Len(whole) = Len(queue) /\ whole[1] = queue[1]
        /\ \A i \in 2 .. Len(queue) : whole[i] = Tail(queue)[i - 1]
    BY <1>1, <2>1, ConcatProperties
  <2>3. \A i \in 1 .. Len(queue) : whole[i] = queue[i]
    BY <2>1, <2>2
  <2> QED BY <2>2, <2>3, SeqEqual
<1> QED BY <1>2, <1>3, <1>4

-----------------------------------------------------------------------------
(* And to the number of those of a kind.                                    *)

(* The places in a queue where a message of some kind waits.               *)
Places(queue, kind) == {k \in DOMAIN queue : queue[k] \in kind}

(* A queue is finite, and the empty one holds nothing of any kind.         *)
LEMMA PlacesFinite ==
  ASSUME NEW S, NEW queue \in Seq(S), NEW kind
  PROVE  /\ IsFiniteSet(Places(queue, kind)) /\ Cardinality(Places(queue, kind)) \in Nat
         /\ Places(queue, kind) \subseteq 1 .. Len(queue)
<1>1. Places(queue, kind) \in SUBSET (1 .. Len(queue))
  BY LenProperties DEF Places
<1>2. IsFiniteSet(1 .. Len(queue))
  BY LenProperties, FS_Interval
<1>3. IsFiniteSet(Places(queue, kind))
  BY <1>1, <1>2, FS_Subset
<1> QED BY <1>1, <1>3, FS_CardinalityType

LEMMA PlacesEmpty ==
  ASSUME NEW kind
  PROVE  Cardinality(Places(<<>>, kind)) = 0
<1>1. Places(<<>>, kind) = {}
  BY DEF Places
<1> QED BY <1>1, FS_EmptySet

(* A message put at the end counts where it is of the kind.                *)
LEMMA PlacesAppend ==
  ASSUME NEW S, NEW queue \in Seq(S), NEW e \in S, NEW kind
  PROVE  Cardinality(Places(Append(queue, e), kind))
           = Cardinality(Places(queue, kind)) + (IF e \in kind THEN 1 ELSE 0)
<1> DEFINE longer == Append(queue, e)
           last == Len(queue) + 1
<1>1. /\ DOMAIN longer = 1 .. last /\ DOMAIN queue = 1 .. Len(queue) /\ Len(queue) \in Nat
      /\ \A k \in 1 .. Len(queue) : longer[k] = queue[k]
      /\ longer[last] = e
  BY AppendProperties, LenProperties
<1>2. /\ IsFiniteSet(Places(queue, kind)) /\ Cardinality(Places(queue, kind)) \in Nat
      /\ last \notin Places(queue, kind)
  BY <1>1, PlacesFinite
<1>3. CASE e \in kind
  <2>1. Places(longer, kind) = Places(queue, kind) \cup {last}
    BY <1>1, <1>3 DEF Places
  <2> QED BY <1>2, <1>3, <2>1, FS_AddElement
<1>4. CASE e \notin kind
  <2>1. Places(longer, kind) = Places(queue, kind)
    BY <1>1, <1>4 DEF Places
  <2> QED BY <1>2, <1>4, <2>1
<1> QED BY <1>3, <1>4

(* The first message of a queue that is taken no longer counts: the places  *)
(* of the others move up by one.                                           *)
LEMMA PlacesTail ==
  ASSUME NEW S, NEW queue \in Seq(S), queue # <<>>, NEW kind
  PROVE  Cardinality(Places(queue, kind))
           = Cardinality(Places(Tail(queue), kind)) + (IF Head(queue) \in kind THEN 1 ELSE 0)
<1> DEFINE rest == Tail(queue)
           others == Places(queue, kind) \ {1}
           up == [k \in Places(rest, kind) |-> k + 1]
<1>1. /\ rest \in Seq(S) /\ Len(queue) \in Nat \ {0} /\ Len(rest) = Len(queue) - 1
      /\ DOMAIN rest = 1 .. Len(queue) - 1 /\ DOMAIN queue = 1 .. Len(queue)
      /\ \A k \in 1 .. Len(queue) - 1 : rest[k] = queue[k + 1]
      /\ Head(queue) = queue[1]
  BY HeadTailProperties, LenProperties, EmptySeq
<1>2. /\ IsFiniteSet(Places(rest, kind)) /\ Cardinality(Places(rest, kind)) \in Nat
      /\ IsFiniteSet(Places(queue, kind)) /\ Cardinality(Places(queue, kind)) \in Nat
  BY <1>1, PlacesFinite
<1>3. up \in Bijection(Places(rest, kind), others)
  <2>1. \A k \in Places(rest, kind) : k \in 1 .. Len(queue) - 1 /\ k + 1 \in others
    BY <1>1 DEF Places
  <2>2. up \in [Places(rest, kind) -> others]
    BY <2>1
  <2>3. \A a, b \in Places(rest, kind) : up[a] = up[b] => a = b
    BY <2>1
  <2>4. \A k \in others : \E j \in Places(rest, kind) : up[j] = k
    <3>1. SUFFICES ASSUME NEW k \in others
                   PROVE  \E j \in Places(rest, kind) : up[j] = k
      OBVIOUS
    <3>2. k - 1 \in Places(rest, kind) /\ k \in 1 .. Len(queue)
      BY <1>1 DEF Places
    <3> QED BY <3>2
  <2> QED BY <2>2, <2>3, <2>4, Fun_IsBij
<1>4. Cardinality(others) = Cardinality(Places(rest, kind))
  BY <1>2, <1>3, FS_Bijection DEF ExistsBijection
<1>5. 1 \in Places(queue, kind) <=> Head(queue) \in kind
  BY <1>1 DEF Places
<1>6. Cardinality(others) = IF Head(queue) \in kind THEN Cardinality(Places(queue, kind)) - 1
                            ELSE Cardinality(Places(queue, kind))
  BY <1>2, <1>5, FS_RemoveElement
<1> QED BY <1>2, <1>4, <1>6

-----------------------------------------------------------------------------
(* One iterator.                                                           *)

(* publish keeps an iterator in order with the history it extends.         *)
LEMMA OfferedInOrder ==
  ASSUME NEW it \in IteratorType, NEW history \in Seq(Published), NEW e \in Published,
         InOrder(it, history)
  PROVE  /\ Offered(it, e) \in IteratorType
         /\ InOrder(Offered(it, e), Append(history, e))
<1> DEFINE longer == Append(history, e)
           queue == it.queue
           got == it.got
           since == SubSeq(history, it.from + 1, Len(history))
<1>1. /\ queue \in Seq(Published) /\ got \in Seq(Published)
      /\ it.from \in Nat /\ it.reads \in Nat /\ it.from <= Len(history)
  BY DEF InOrder, IteratorType
<1>2. Append(queue, e) \in Seq(Published) /\ Append(got, e) \in Seq(Published)
  <2> HIDE DEF queue, got
  <2> QED BY <1>1, AppendProperties
<1>3. Len(history) \in Nat /\ Len(longer) = Len(history) + 1
  BY AppendProperties, LenProperties
<1>4. CASE ~it.member
  <2>1. Offered(it, e) = it
    BY <1>4 DEF Offered
  <2>2. it.from <= Len(longer)
    BY <1>1, <1>3
  <2>3. InOrder(it, longer)
    <3> HIDE DEF longer
    <3> QED BY <1>4, <2>2 DEF InOrder
  <2> QED BY <2>1, <2>3
<1>5. CASE it.member
  <2>1. ~it.closed /\ ~it.over /\ got \o queue = since /\ (it.reads > 0 => queue = <<>>)
    BY <1>5 DEF InOrder
  <2>2. SubSeq(longer, it.from + 1, Len(longer)) = Append(got \o queue, e)
    <3>1. it.from + 1 \in 1 .. Len(history) + 1
      BY <1>1, <1>3
    <3>2. SubSeq(longer, it.from + 1, Len(longer)) = Append(since, e)
      BY <3>1, SubSeqAppend
    <3> QED BY <2>1, <3>2
  <2>3. CASE it.reads > 0
    <3>1. Offered(it, e) = [it EXCEPT !.reads = @ - 1, !.got = Append(got, e)]
      BY <1>5, <2>3 DEF Offered
    <3>2. Append(got, e) \o queue = Append(got \o queue, e)
      <4> HIDE DEF got, queue
      <4>1. queue = <<>>
        BY <2>1, <2>3
      <4>2. Append(got, e) \o <<>> = Append(got, e) /\ got \o <<>> = got
        BY <1>1, <1>2, ConcatEmptySeq
      <4> QED BY <4>1, <4>2
    <3> HIDE DEF got, queue, longer
    <3>3. /\ Offered(it, e) \in IteratorType /\ Offered(it, e).member
          /\ Offered(it, e).got = Append(got, e) /\ Offered(it, e).queue = queue
          /\ Offered(it, e).from = it.from /\ Offered(it, e).reads = it.reads - 1
          /\ Offered(it, e).closed = it.closed /\ Offered(it, e).over = it.over
      <4>1. it.reads - 1 \in Nat
        BY <1>1, <2>3
      <4> QED BY <1>2, <1>5, <3>1, <4>1 DEF IteratorType, queue
    <3>4. /\ Offered(it, e).from <= Len(longer)
          /\ Offered(it, e).reads > 0 => Offered(it, e).queue = <<>>
      BY <1>1, <1>3, <2>1, <2>3, <3>3
    <3> QED BY <2>1, <2>2, <3>2, <3>3, <3>4 DEF InOrder, longer
  <2>4. CASE it.reads = 0
    <3>1. Offered(it, e) = [it EXCEPT !.queue = Append(queue, e)]
      BY <1>5, <2>4 DEF Offered
    <3>2. got \o Append(queue, e) = Append(got \o queue, e)
      <4> HIDE DEF got, queue
      <4> QED BY <1>1, ConcatAppend
    <3> HIDE DEF got, queue, longer
    <3>3. /\ Offered(it, e) \in IteratorType /\ Offered(it, e).member
          /\ Offered(it, e).got = got /\ Offered(it, e).queue = Append(queue, e)
          /\ Offered(it, e).from = it.from /\ Offered(it, e).reads = 0
          /\ Offered(it, e).closed = it.closed /\ Offered(it, e).over = it.over
      BY <1>1, <1>2, <1>5, <2>4, <3>1 DEF IteratorType, got
    <3>4. Offered(it, e).from <= Len(longer) /\ ~(Offered(it, e).reads > 0)
      BY <1>1, <1>3, <3>3
    <3>5. Offered(it, e).got \o Offered(it, e).queue
            = SubSeq(longer, Offered(it, e).from + 1, Len(longer))
      BY <2>2, <3>2, <3>3
    <3>6. ~Offered(it, e).closed /\ ~Offered(it, e).over
      BY <2>1, <3>3
    <3> QED BY <3>3, <3>4, <3>5, <3>6 DEF InOrder, longer
  <2>5. it.reads > 0 \/ it.reads = 0
    BY <1>1
  <2> QED BY <2>3, <2>4, <2>5
<1> QED BY <1>4, <1>5

(* So does a read, from the queue or waiting.                              *)
LEMMA ReadInOrder ==
  ASSUME NEW it \in IteratorType, NEW history, InOrder(it, history)
  PROVE  Read(it) \in IteratorType /\ InOrder(Read(it), history)
<1> DEFINE queue == it.queue
           got == it.got
<1>1. queue \in Seq(Published) /\ got \in Seq(Published) /\ it.reads \in Nat
  BY DEF IteratorType
<1>2. CASE ~it.closed /\ queue # <<>>
  <2>1. Read(it) = [it EXCEPT !.queue = Tail(queue), !.got = Append(got, Head(queue))]
    BY <1>2 DEF Read
  <2>2. /\ Head(queue) \in Published /\ Tail(queue) \in Seq(Published)
        /\ Append(got, Head(queue)) \in Seq(Published)
        /\ Append(got, Head(queue)) \o Tail(queue) = got \o queue
    <3> HIDE DEF got, queue
    <3>1. Head(queue) \in Published /\ Tail(queue) \in Seq(Published)
      BY <1>1, <1>2, HeadTailProperties
    <3>2. Append(got, Head(queue)) \in Seq(Published)
      BY <1>1, <3>1, AppendProperties
    <3>3. Append(got, Head(queue)) \o Tail(queue) = got \o queue
      BY <1>1, <1>2, ConcatHeadTail
    <3> QED BY <3>1, <3>2, <3>3
  <2>3. /\ Read(it) \in IteratorType
        /\ Read(it).got = Append(got, Head(queue)) /\ Read(it).queue = Tail(queue)
        /\ Read(it).from = it.from /\ Read(it).reads = it.reads /\ Read(it).member = it.member
        /\ Read(it).closed = it.closed /\ Read(it).over = it.over
    <3> HIDE DEF got, queue
    <3> QED BY <2>1, <2>2 DEF IteratorType
  <2>4. it.member => ~(it.reads > 0)
    BY <1>2 DEF InOrder
  <2> QED BY <2>2, <2>3, <2>4 DEF InOrder
<1>3. CASE it.closed \/ (it.over /\ queue = <<>>)
  <2>1. Read(it) = it
    BY <1>3 DEF Read
  <2> QED BY <2>1
<1>4. CASE ~it.closed /\ queue = <<>> /\ ~it.over
  <2>1. Read(it) = [it EXCEPT !.reads = @ + 1]
    BY <1>4 DEF Read
  <2>2. /\ Read(it) \in IteratorType
        /\ Read(it).got = it.got /\ Read(it).queue = it.queue /\ Read(it).from = it.from
        /\ Read(it).member = it.member /\ Read(it).closed = it.closed /\ Read(it).over = it.over
    BY <1>1, <2>1 DEF IteratorType
  <2> QED BY <1>4, <2>2 DEF InOrder
<1> QED BY <1>2, <1>3, <1>4

(* complete and return leave nobody waiting.                               *)
LEMMA CompletedInOrder ==
  ASSUME NEW it \in IteratorType, NEW history, InOrder(it, history)
  PROVE  Completed(it) \in IteratorType /\ InOrder(Completed(it), history)
<1>1. /\ Completed(it) \in IteratorType
      /\ ~Completed(it).member /\ Completed(it).reads = 0 /\ Completed(it).from = it.from
  BY DEF Completed, IteratorType
<1> QED BY <1>1 DEF InOrder

(* A new iterator begins after all that was published.                     *)
LEMMA NewIteratorInOrder ==
  ASSUME NEW h \in Instances, NEW history \in Seq(Published)
  PROVE  /\ NewIterator(h, history) \in IteratorType
         /\ NewIterator(h, history).member <=> ~h.completed
         /\ NewIterator(h, history).over <=> h.completed
         /\ ~NewIterator(h, history).closed
         /\ NewIterator(h, history).queue = <<>> /\ NewIterator(h, history).reads = 0
         /\ InOrder(NewIterator(h, history), history)
<1> DEFINE it == NewIterator(h, history)
<1>1. Len(history) \in Nat /\ <<>> \in Seq(Published)
  BY LenProperties
<1>2. /\ it \in IteratorType
      /\ it.member <=> ~h.completed
      /\ it.over <=> h.completed
      /\ ~it.closed
      /\ it.queue = <<>> /\ it.got = <<>> /\ it.reads = 0 /\ it.from = Len(history)
  BY <1>1 DEF NewIterator, IteratorType, Instances
<1>3. <<>> \o <<>> = SubSeq(history, Len(history) + 1, Len(history))
  BY <1>1, SubSeqEmpty, ConcatEmptySeq
<1>4. InOrder(it, history)
  <2>1. it.got \o it.queue = SubSeq(history, it.from + 1, Len(history))
    BY <1>2, <1>3
  <2> HIDE DEF it
  <2> QED BY <1>1, <1>2, <2>1 DEF InOrder
<1> QED BY <1>2, <1>4

(* The changes in a queue are counted one by one.                          *)
LEMMA ChangesCounted ==
  ASSUME NEW queue \in Seq(Published)
  PROVE  /\ Changes(queue) \in Nat
         /\ \A e \in Published :
              Changes(Append(queue, e)) = Changes(queue) + (IF e \in Data THEN 1 ELSE 0)
         /\ queue # <<>> =>
              Changes(queue) = Changes(Tail(queue)) + (IF Head(queue) \in Data THEN 1 ELSE 0)
<1>1. \A q : Changes(q) = Cardinality(Places(q, Data))
  BY DEF Changes, Places
<1> QED BY <1>1, PlacesFinite, PlacesAppend, PlacesTail

LEMMA ChangesOfNone == Changes(<<>>) = 0
BY PlacesEmpty DEF Changes, Places

-----------------------------------------------------------------------------
LEMMA InitInv == Init => Inv
<1> SUFFICES ASSUME Init PROVE Inv
  OBVIOUS
<1>1. /\ published = <<>> /\ \A i \in Iterators : iter[i] = NoIterator
      /\ iter = [i \in Iterators |-> NoIterator] /\ Monitor \in Iterators
  BY DEF Init, Iterators
<1>2. NoIterator \in IteratorType
  BY DEF NoIterator, IteratorType
<1>3. TypeOK
  BY <1>1, <1>2, ConstantsAssumption
     DEF Init, TypeOK, NoInstance, Instances, EmptyBuffer, States
<1>4. IteratorsInv
  BY <1>1 DEF IteratorsInv, InOrder, NoIterator
<1>5. MonitorInv
  BY <1>1 DEF Init, MonitorInv, NoInstance, NoIterator
<1>6. BufferInv
  BY <1>1, ChangesOfNone DEF Init, BufferInv, EmptyBuffer, NoIterator
<1> QED BY <1>3, <1>4, <1>5, <1>6 DEF Inv

(* What is seen of the monitor's iterator.                                 *)
LEMMA MonitorsIterator ==
  ASSUME Inv
  PROVE  /\ Monitor \in Iterators /\ iter[Monitor] \in IteratorType
         /\ iter[Monitor].queue \in Seq(Published)
         /\ \A r \in Readers : r \in Iterators /\ r # Monitor
         /\ InOrder(iter[Monitor], published)
BY ConstantsAssumption DEF Inv, TypeOK, IteratorType, Iterators, IteratorsInv

(* An instance publishes: every iterator is offered the event, the monitor *)
(* queues it.                                                              *)
LEMMA PublishInv ==
  ASSUME Inv, NEW e \in Published, hot.phase \in {"streaming", "sleeping"}, Publish(e)
  PROVE  /\ published' \in Seq(Published) /\ iter' \in [Iterators -> IteratorType]
         /\ IteratorsInv'
         /\ iter'[Monitor] = [iter[Monitor] EXCEPT !.queue = Append(@, e)]
         /\ Changes(iter'[Monitor].queue)
              = Changes(iter[Monitor].queue) + (IF e \in Data THEN 1 ELSE 0)
<1>1. /\ published' = Append(published, e)
      /\ iter' = [i \in Iterators |-> Offered(iter[i], e)]
  BY DEF Publish
<1>2. published \in Seq(Published) /\ published' \in Seq(Published)
  BY <1>1, AppendProperties DEF Inv, TypeOK
<1>3. \A i \in Iterators : iter'[i] \in IteratorType /\ InOrder(iter'[i], published')
  BY <1>1, <1>2, OfferedInOrder DEF Inv, TypeOK, IteratorsInv
<1>4. iter'[Monitor] = [iter[Monitor] EXCEPT !.queue = Append(@, e)]
  <2>1. iter[Monitor].member /\ iter[Monitor].reads = 0
    BY DEF Inv, MonitorInv
  <2>2. iter'[Monitor] = Offered(iter[Monitor], e)
    BY <1>1, MonitorsIterator
  <2> DEFINE it == iter[Monitor]
  <2>3. it.member /\ ~(it.reads > 0)
    BY <2>1
  <2> HIDE DEF it
  <2>4. Offered(it, e) = [it EXCEPT !.queue = Append(@, e)]
    BY <2>3 DEF Offered
  <2> QED BY <2>2, <2>4 DEF it
<1>5. iter'[Monitor].queue = Append(iter[Monitor].queue, e)
  BY <1>4, MonitorsIterator DEF IteratorType
<1> QED BY <1>1, <1>2, <1>3, <1>4, <1>5, MonitorsIterator, ChangesCounted DEF IteratorsInv

-----------------------------------------------------------------------------
(* The hot event stream.                                                   *)
LEMMA OpenInv ==
  ASSUME Inv, Open
  PROVE  Inv'
<1>1. /\ hot.phase = "start" /\ hot' = [hot EXCEPT !.phase = "streaming"]
      /\ UNCHANGED <<store, published, iter, monitor, buffer, announced>>
  BY DEF Open
<1>2. hot' \in Instances /\ hot'.phase = "streaming" /\ hot'.completed = hot.completed
  BY <1>1 DEF Inv, TypeOK, Instances
<1> QED BY <1>1, <1>2 DEF Inv, TypeOK, IteratorsInv, MonitorInv, BufferInv

LEMMA RestartInv ==
  ASSUME Inv, Restart
  PROVE  Inv'
<1>1. /\ hot.phase = "sleeping"
      /\ hot' = [hot EXCEPT !.phase = "start", !.delay = Doubled(@)]
      /\ UNCHANGED <<store, published, iter, monitor, buffer, announced>>
  BY DEF Restart
<1>2. Doubled(hot.delay) \in Nat
  BY ConstantsAssumption DEF Inv, TypeOK, Instances, Doubled
<1>3. hot' \in Instances /\ hot'.phase = "start" /\ hot'.completed = hot.completed
  BY <1>1, <1>2 DEF Inv, TypeOK, Instances
<1> QED BY <1>1, <1>3 DEF Inv, TypeOK, IteratorsInv, MonitorInv, BufferInv

LEMMA YieldInv ==
  ASSUME Inv, NEW e \in Events, Yield(e)
  PROVE  Inv'
<1>1. CASE e = "commandResult"
  BY <1>1 DEF Yield, Inv, TypeOK, IteratorsInv, MonitorInv, BufferInv
<1>2. CASE e # "commandResult"
  <2>1. /\ hot.phase = "streaming" /\ Publish(e) /\ e \in Published
        /\ store' = IF e \in Data THEN store + 1 ELSE store
        /\ hot' = IF e = "connected" THEN [hot EXCEPT !.delay = InitialDelay] ELSE hot
        /\ UNCHANGED <<monitor, buffer, announced>>
    BY <1>2, ConstantsAssumption DEF Yield, Published
  <2>2. /\ published' \in Seq(Published) /\ iter' \in [Iterators -> IteratorType]
        /\ IteratorsInv'
        /\ iter'[Monitor] = [iter[Monitor] EXCEPT !.queue = Append(@, e)]
        /\ Changes(iter'[Monitor].queue)
             = Changes(iter[Monitor].queue) + (IF e \in Data THEN 1 ELSE 0)
    BY <2>1, PublishInv
  <2>3. hot' \in Instances /\ hot'.phase = "streaming" /\ hot'.completed = hot.completed
    BY <2>1, ConstantsAssumption DEF Inv, TypeOK, Instances
  <2>4. TypeOK'
    BY <2>1, <2>2, <2>3 DEF Inv, TypeOK
  <2>5. MonitorInv'
    <3>1. /\ iter'[Monitor].member = iter[Monitor].member
          /\ iter'[Monitor].reads = iter[Monitor].reads
          /\ iter'[Monitor].closed = iter[Monitor].closed
      BY <2>2, MonitorsIterator DEF IteratorType
    <3> QED BY <2>1, <2>3, <3>1 DEF Inv, MonitorInv
  <2>6. BufferInv'
    <3>1. Changes(iter[Monitor].queue) \in Nat
      BY MonitorsIterator, ChangesCounted
    <3> QED BY <2>1, <2>2, <3>1 DEF Inv, TypeOK, BufferInv
  <2> QED BY <2>2, <2>4, <2>5, <2>6 DEF Inv
<1> QED BY <1>1, <1>2

LEMMA EndInv ==
  ASSUME Inv, End
  PROVE  Inv'
<1>1. /\ hot.phase = "streaming" /\ Publish("disconnected")
      /\ hot' = [hot EXCEPT !.phase = "sleeping"]
      /\ UNCHANGED <<store, monitor, buffer, announced>>
  BY DEF End
<1>2. "disconnected" \in Published /\ "disconnected" \notin Data
  BY DEF Published, EventTypes, Data
<1>3. /\ published' \in Seq(Published) /\ iter' \in [Iterators -> IteratorType]
      /\ IteratorsInv'
      /\ iter'[Monitor] = [iter[Monitor] EXCEPT !.queue = Append(@, "disconnected")]
      /\ Changes(iter'[Monitor].queue) = Changes(iter[Monitor].queue) + 0
  BY <1>1, <1>2, PublishInv
<1>4. hot' \in Instances /\ hot'.phase = "sleeping" /\ hot'.completed = hot.completed
  BY <1>1 DEF Inv, TypeOK, Instances
<1>5. TypeOK'
  BY <1>1, <1>3, <1>4 DEF Inv, TypeOK
<1>6. MonitorInv'
  <2>1. /\ iter'[Monitor].member = iter[Monitor].member
        /\ iter'[Monitor].reads = iter[Monitor].reads
        /\ iter'[Monitor].closed = iter[Monitor].closed
    BY <1>3, MonitorsIterator DEF IteratorType
  <2> QED BY <1>1, <1>4, <2>1 DEF Inv, MonitorInv
<1>7. BufferInv'
  <2>1. Changes(iter[Monitor].queue) \in Nat
    BY MonitorsIterator, ChangesCounted
  <2> QED BY <1>1, <1>3, <2>1 DEF Inv, TypeOK, BufferInv
<1> QED BY <1>3, <1>5, <1>6, <1>7 DEF Inv

LEMMA FailInv ==
  ASSUME Inv, Fail
  PROVE  Inv'
<1> DEFINE e == "disconnected"
           offered == [i \in Iterators |-> Offered(iter[i], e)]
           history == Append(published, e)
<1>1. /\ hot.phase = "sleeping" /\ published' = history
      /\ hot' = [hot EXCEPT !.phase = "failed", !.completed = TRUE]
      /\ iter' = [i \in Iterators |-> Completed(offered[i])]
      /\ UNCHANGED <<store, monitor, buffer, announced>>
  BY DEF Fail
<1>2. e \in Published /\ e \notin Data
  BY DEF Published, EventTypes, Data
<1>3. history \in Seq(Published)
  BY <1>2, AppendProperties DEF Inv, TypeOK
<1>4. \A i \in Iterators : offered[i] \in IteratorType /\ InOrder(offered[i], history)
  BY <1>2, OfferedInOrder DEF Inv, TypeOK, IteratorsInv
<1>5. \A i \in Iterators : iter'[i] \in IteratorType /\ InOrder(iter'[i], history)
  <2> HIDE DEF offered, history
  <2> QED BY <1>1, <1>4, CompletedInOrder
<1>6. hot' \in Instances /\ hot'.phase = "failed" /\ hot'.completed
  BY <1>1 DEF Inv, TypeOK, Instances
<1>7. TypeOK' /\ IteratorsInv'
  BY <1>1, <1>3, <1>5, <1>6 DEF Inv, TypeOK, IteratorsInv
<1>8. /\ iter'[Monitor] = Completed([iter[Monitor] EXCEPT !.queue = Append(@, e)])
      /\ monitor.phase = "reading"
  <2> DEFINE it == iter[Monitor]
  <2>1. it.member /\ ~(it.reads > 0) /\ monitor.phase = "reading"
    BY <1>1 DEF Inv, MonitorInv
  <2>2. offered[Monitor] = Offered(it, e)
    BY MonitorsIterator
  <2>3. Offered(it, e) = [it EXCEPT !.queue = Append(@, e)]
    <3> HIDE DEF it, e
    <3> QED BY <2>1 DEF Offered
  <2> QED BY <1>1, <2>1, <2>2, <2>3, MonitorsIterator
<1>9. /\ iter'[Monitor].queue = Append(iter[Monitor].queue, e) /\ iter'[Monitor].reads = 0
      /\ iter'[Monitor].closed = iter[Monitor].closed
  BY <1>8, MonitorsIterator DEF Completed, IteratorType
<1>10. MonitorInv'
  BY <1>1, <1>6, <1>8, <1>9 DEF Inv, MonitorInv
<1>11. BufferInv'
  <2>1. Changes(iter'[Monitor].queue) = Changes(iter[Monitor].queue) + 0
        /\ Changes(iter[Monitor].queue) \in Nat
    BY <1>2, <1>9, MonitorsIterator, ChangesCounted
  <2> QED BY <1>1, <2>1 DEF Inv, TypeOK, BufferInv
<1> QED BY <1>7, <1>10, <1>11 DEF Inv

-----------------------------------------------------------------------------
(* A step of a reader changes its own iterator.                            *)
LEMMA ReaderInv ==
  ASSUME Inv, NEW r \in Readers, NEW it \in IteratorType, InOrder(it, published),
         iter' = [iter EXCEPT ![r] = it],
         UNCHANGED <<store, hot, published, monitor, buffer, announced>>
  PROVE  Inv'
<1>1. r \in Iterators /\ iter'[Monitor] = iter[Monitor]
  BY MonitorsIterator DEF Inv, TypeOK
<1>2. TypeOK' /\ IteratorsInv'
  BY <1>1 DEF Inv, TypeOK, IteratorsInv
<1>3. MonitorInv' /\ BufferInv'
  BY <1>1 DEF Inv, MonitorInv, BufferInv
<1> QED BY <1>2, <1>3 DEF Inv

LEMMA ReaderStepInv ==
  ASSUME Inv, NEW r \in Readers, Iterate(r) \/ ReadNext(r) \/ Return(r)
  PROVE  Inv'
<1>1. /\ r \in Iterators /\ iter[r] \in IteratorType /\ InOrder(iter[r], published)
      /\ hot \in Instances /\ published \in Seq(Published)
  BY MonitorsIterator DEF Inv, TypeOK, IteratorsInv
<1>2. CASE Iterate(r)
  BY <1>1, <1>2, NewIteratorInOrder, ReaderInv DEF Iterate
<1>3. CASE ReadNext(r)
  <2>1. iter' = [iter EXCEPT ![r] = Read(iter[r])]
    BY <1>3 DEF ReadNext
  <2> QED BY <1>1, <1>3, <2>1, ReadInOrder, ReaderInv DEF ReadNext
<1>4. CASE Return(r)
  <2> DEFINE it == [iter[r] EXCEPT !.closed = TRUE, !.member = FALSE, !.queue = <<>>,
                                   !.reads = 0]
  <2>1. iter' = [iter EXCEPT ![r] = it]
    BY <1>1, <1>4 DEF Return, Inv, TypeOK
  <2>2. it \in IteratorType /\ ~it.member /\ it.reads = 0 /\ it.from = iter[r].from
    <3>1. <<>> \in Seq(Published) /\ 0 \in Nat
      OBVIOUS
    <3> DEFINE old == iter[r]
    <3> HIDE DEF old
    <3>2. old \in IteratorType
      BY <1>1 DEF old
    <3> DEFINE shut == [old EXCEPT !.closed = TRUE, !.member = FALSE]
    <3>3. shut \in IteratorType /\ ~shut.member /\ shut.from = old.from
      BY <3>2 DEF IteratorType
    <3> HIDE DEF shut
    <3>4. /\ [shut EXCEPT !.queue = <<>>, !.reads = 0] \in IteratorType
          /\ ~[shut EXCEPT !.queue = <<>>, !.reads = 0].member
          /\ [shut EXCEPT !.queue = <<>>, !.reads = 0].reads = 0
          /\ [shut EXCEPT !.queue = <<>>, !.reads = 0].from = shut.from
      BY <3>1, <3>3 DEF IteratorType
    <3> QED BY <3>3, <3>4 DEF old, shut
  <2>3. InOrder(it, published)
    <3> HIDE DEF it
    <3> QED BY <1>1, <2>2 DEF InOrder
  <2> HIDE DEF it
  <2> QED BY <1>4, <2>1, <2>2, <2>3, ReaderInv DEF Return
<1> QED BY <1>2, <1>3, <1>4

-----------------------------------------------------------------------------
(* The monitor.                                                            *)

(* Steps that only move the monitor's loop between two instances.          *)
LEMMA MonitorMovesInv ==
  ASSUME Inv, UNCHANGED <<store, hot, published, iter, buffer, announced>>,
         monitor' \in [phase: {"off", "iterating", "reading", "sleeping"}, delay: Nat,
                       state: States],
         monitor'.phase = "reading" <=> monitor.phase = "reading"
  PROVE  Inv'
BY DEF Inv, TypeOK, IteratorsInv, MonitorInv, BufferInv

LEMMA WaitingInv ==
  ASSUME Inv, Consume \/ SubscribeFails \/ Retry
  PROVE  Inv'
<1>1. Doubled(monitor.delay) \in Nat
  BY ConstantsAssumption DEF Inv, TypeOK, Doubled
<1>2. /\ monitor' \in [phase: {"off", "iterating", "reading", "sleeping"}, delay: Nat,
                       state: States]
      /\ monitor.phase # "reading" /\ monitor'.phase # "reading"
      /\ UNCHANGED <<store, hot, published, iter, buffer, announced>>
  BY <1>1 DEF Inv, TypeOK, States, Consume, SubscribeFails, Retry
<1> QED BY <1>2, MonitorMovesInv

LEMMA TakeEndInv ==
  ASSUME Inv, TakeEnd
  PROVE  Inv'
<1>1. /\ iter[Monitor].over /\ iter[Monitor].queue = <<>>
      /\ monitor' = [monitor EXCEPT !.phase = "sleeping", !.state = "error"]
      /\ UNCHANGED <<store, hot, published, iter, buffer, announced>>
  BY DEF TakeEnd
<1>2. /\ monitor'.phase = "sleeping"
      /\ monitor' \in [phase: {"off", "iterating", "reading", "sleeping"}, delay: Nat,
                       state: States]
  BY <1>1 DEF Inv, TypeOK, States
<1>3. hot.completed
  BY <1>1, MonitorsIterator DEF Inv, MonitorInv, InOrder
<1> QED BY <1>1, <1>2, <1>3 DEF Inv, TypeOK, IteratorsInv, MonitorInv, BufferInv

LEMMA SubscribeInv ==
  ASSUME Inv, Subscribe
  PROVE  Inv'
<1> DEFINE it == NewIterator(NewInstance, published)
<1>1. /\ monitor.phase = "iterating" /\ hot' = NewInstance
      /\ monitor' = [monitor EXCEPT !.phase = "reading"]
      /\ iter' = [iter EXCEPT ![Monitor] = it]
      /\ UNCHANGED <<store, published, buffer, announced>>
  BY DEF Subscribe
<1>2. NewInstance \in Instances /\ ~NewInstance.completed /\ NewInstance.phase = "start"
  BY ConstantsAssumption DEF NewInstance, Instances
<1>3. /\ it \in IteratorType /\ it.member /\ ~it.closed /\ it.queue = <<>> /\ it.reads = 0
      /\ InOrder(it, published)
  BY <1>2, NewIteratorInOrder DEF Inv, TypeOK
<1> HIDE DEF it
<1>4. /\ iter'[Monitor] = it /\ iter' \in [Iterators -> IteratorType]
      /\ \A i \in Iterators : i # Monitor => iter'[i] = iter[i]
  BY <1>1, <1>3, MonitorsIterator DEF Inv, TypeOK
<1>5. monitor'.phase = "reading" /\ TypeOK'
  BY <1>1, <1>2, <1>4 DEF Inv, TypeOK
<1>6. IteratorsInv'
  BY <1>1, <1>3, <1>4 DEF Inv, IteratorsInv
<1>7. MonitorInv'
  BY <1>1, <1>2, <1>3, <1>4, <1>5 DEF MonitorInv
<1>8. BufferInv'
  <2>1. iter[Monitor].queue = <<>>
    BY <1>1 DEF Inv, MonitorInv
  <2> QED BY <1>1, <1>3, <1>4, <2>1 DEF Inv, BufferInv
<1> QED BY <1>5, <1>6, <1>7, <1>8 DEF Inv

(* An event that the monitor takes from the queue is handled: a change is  *)
(* counted in the buffer instead.                                          *)
LEMMA TakeInv ==
  ASSUME Inv, Take
  PROVE  Inv'
<1> DEFINE it == iter[Monitor]
           e == Head(it.queue)
<1>1. /\ monitor.phase = "reading" /\ it.queue # <<>>
      /\ iter' = [iter EXCEPT ![Monitor] = Read(it)] /\ HandleEvent(e)
      /\ UNCHANGED <<store, hot, published, announced>>
  BY DEF Take
<1>2. it \in IteratorType /\ InOrder(it, published) /\ it.queue \in Seq(Published) /\ ~it.closed
  BY <1>1, MonitorsIterator DEF Inv, MonitorInv
<1>3. /\ Read(it) \in IteratorType /\ InOrder(Read(it), published)
      /\ Read(it).queue = Tail(it.queue) /\ Read(it).reads = it.reads
      /\ Read(it).member = it.member /\ Read(it).closed = it.closed
  <2>1. Read(it) \in IteratorType /\ InOrder(Read(it), published)
    BY <1>2, ReadInOrder
  <2>2. Read(it) = [it EXCEPT !.queue = Tail(@), !.got = Append(@, Head(it.queue))]
    <3> HIDE DEF it
    <3> QED BY <1>1, <1>2 DEF Read
  <2> QED BY <1>2, <2>1, <2>2 DEF IteratorType
<1>4. e \in Published
  <2> HIDE DEF it
  <2> QED BY <1>1, <1>2, HeadTailProperties
<1>5. /\ Changes(it.queue) \in Nat /\ Changes(Tail(it.queue)) \in Nat
      /\ Changes(it.queue) = Changes(Tail(it.queue)) + (IF e \in Data THEN 1 ELSE 0)
  <2> DEFINE queue == it.queue
  <2>1. queue # <<>> /\ queue \in Seq(Published)
    BY <1>1, <1>2
  <2> HIDE DEF queue
  <2>2. Tail(queue) \in Seq(Published)
    BY <2>1, HeadTailProperties
  <2>3. /\ Changes(queue) \in Nat /\ Changes(Tail(queue)) \in Nat
        /\ Changes(queue) = Changes(Tail(queue)) + (IF Head(queue) \in Data THEN 1 ELSE 0)
    BY <2>1, <2>2, ChangesCounted
  <2> QED BY <2>3 DEF queue
<1>6. /\ iter'[Monitor] = Read(it) /\ iter' \in [Iterators -> IteratorType]
      /\ \A i \in Iterators : i # Monitor => iter'[i] = iter[i]
  BY <1>1, <1>3, MonitorsIterator DEF Inv, TypeOK
<1> HIDE DEF it, e
<1>7. IteratorsInv'
  BY <1>1, <1>3, <1>6 DEF Inv, IteratorsInv
<1>8. CASE e \in Data
  <2>1. /\ buffer' = Buffered(buffer, e)
        /\ monitor' = [monitor EXCEPT !.delay = InitialDelay]
    BY <1>1, <1>8 DEF HandleEvent
  <2>2. /\ buffer'.count = buffer.count + 1 /\ buffer'.kinds = buffer.kinds \cup {Kind(e)}
        /\ buffer'.timer = TRUE /\ buffer'.armed = (buffer.armed \/ ~buffer.timer)
        /\ buffer' \in [count: Nat, kinds: SUBSET {Kind(d) : d \in Data}, timer: BOOLEAN,
                        armed: BOOLEAN]
    BY <1>8, <2>1 DEF Inv, TypeOK, Buffered
  <2>3. TypeOK' /\ monitor'.phase = "reading"
    BY <1>1, <1>6, <2>1, <2>2, ConstantsAssumption DEF Inv, TypeOK
  <2>4. MonitorInv'
    BY <1>1, <1>3, <1>6, <2>3 DEF Inv, MonitorInv, it
  <2>5. BufferInv'
    <3>1. store' = announced' + buffer'.count + Changes(iter'[Monitor].queue)
      BY <1>1, <1>3, <1>5, <1>6, <1>8, <2>2 DEF Inv, TypeOK, BufferInv, it
    <3>2. buffer'.armed /\ buffer'.count > 0 /\ buffer'.kinds # {}
      BY <2>2 DEF Inv, TypeOK, BufferInv
    <3> QED BY <2>2, <3>1, <3>2 DEF BufferInv
  <2> QED BY <1>7, <2>3, <2>4, <2>5 DEF Inv
<1>9. CASE e \notin Data
  <2>1. /\ monitor' = [monitor EXCEPT !.delay = InitialDelay, !.state = StatusOf(e)]
        /\ UNCHANGED buffer
    BY <1>1, <1>9 DEF HandleEvent
  <2>2. StatusOf(e) \in States
    BY <1>4, <1>9 DEF StatusOf, States, Published, EventTypes, Data
  <2>3. TypeOK' /\ monitor'.phase = "reading"
    BY <1>1, <1>6, <2>1, <2>2, ConstantsAssumption DEF Inv, TypeOK
  <2>4. MonitorInv'
    BY <1>1, <1>3, <1>6, <2>3 DEF Inv, MonitorInv, it
  <2>5. BufferInv'
    BY <1>1, <1>3, <1>5, <1>6, <1>9, <2>1 DEF Inv, TypeOK, BufferInv, it
  <2> QED BY <1>7, <2>3, <2>4, <2>5 DEF Inv
<1> QED BY <1>8, <1>9

LEMMA FlushInv ==
  ASSUME Inv, Flush
  PROVE  Inv'
<1>1. /\ buffer' = EmptyBuffer /\ announced' = announced + buffer.count
      /\ UNCHANGED <<store, hot, published, iter, monitor>>
  BY DEF Flush, FlushedBuffer
<1>2. TypeOK'
  BY <1>1 DEF Inv, TypeOK, EmptyBuffer
<1>3. BufferInv'
  <2>1. Changes(iter[Monitor].queue) \in Nat
    BY MonitorsIterator, ChangesCounted
  <2> QED BY <1>1, <2>1 DEF Inv, TypeOK, BufferInv, EmptyBuffer
<1> QED BY <1>1, <1>2, <1>3 DEF Inv, IteratorsInv, MonitorInv

-----------------------------------------------------------------------------
LEMMA NextInv == Inv /\ [Next]_vars => Inv'
<1> SUFFICES ASSUME Inv, [Next]_vars PROVE Inv'
  OBVIOUS
<1>1. CASE StreamStep
  BY <1>1, OpenInv, YieldInv, EndInv, RestartInv, FailInv DEF StreamStep
<1>2. CASE ReaderStep
  BY <1>2, ReaderStepInv DEF ReaderStep
<1>3. CASE MonitorStep
  BY <1>3, WaitingInv, SubscribeInv, TakeInv, TakeEndInv, FlushInv DEF MonitorStep
<1>4. CASE BrowserStep
  <2>1. UNCHANGED <<store, hot, published, iter, monitor, buffer, announced>>
    BY <1>4 DEF BrowserStep, Load, Leave, Connect, Drop, Deliver, Reload
  <2> QED BY <2>1 DEF Inv, TypeOK, IteratorsInv, MonitorInv, BufferInv
<1>5. CASE UNCHANGED vars
  BY <1>5 DEF vars, Inv, TypeOK, IteratorsInv, MonitorInv, BufferInv
<1> QED BY <1>1, <1>2, <1>3, <1>4, <1>5 DEF Next

LEMMA Invariance == Spec => []Inv
BY InitInv, NextInv, PTL DEF Spec

(* The events, the iterators and the monitor stay what the code takes them  *)
(* for; no command result ever reaches an iterator.                        *)
THEOREM TypeCorrect == Spec => []TypeOK
<1>1. Inv => TypeOK
  BY DEF Inv
<1> QED BY <1>1, Invariance, PTL

(* An iterator gives out what was published since it was made, each event   *)
(* once and in order, and none waits where nothing will come (publish,      *)
(* next, return, complete).                                                *)
THEOREM InOrderAlways == Spec => []EventsInOrder
<1>1. Inv => EventsInOrder
  BY DEF Inv, IteratorsInv, InOrder, EventsInOrder
<1> QED BY <1>1, Invariance, PTL

(* Every change of the store is announced in a batch, waits in the buffer   *)
(* with its timer running, or waits in the monitor's queue, exactly once.   *)
THEOREM ChangesAnnounced == Spec => []EveryChangeAnnounced
<1>1. Inv => EveryChangeAnnounced
  BY DEF Inv, BufferInv, EveryChangeAnnounced
<1> QED BY <1>1, Invariance, PTL
=============================================================================
