--------------------------- MODULE MediaQueue_proofs ---------------------------
EXTENDS MediaQueue, FiniteSetTheorems, SequenceTheorems, WellFoundedInduction, TLAPS

-----------------------------------------------------------------------------
(* Numbers and sequences.                                                   *)

LEMMA LeastExists ==
  ASSUME NEW S \in SUBSET Nat, S # {}
  PROVE  Least(S) \in S /\ \A n \in S : Least(S) <= n
<1>1. PICK n \in S : \A v \in S : ~ (<<v, n>> \in OpToRel(<, Nat))
  BY WFMin, NatLessThanWellFounded
<1>2. ASSUME NEW v \in S, v < n PROVE FALSE
  <2>1. <<v, n>> \in OpToRel(<, Nat)
    BY <1>2 DEF OpToRel
  <2> QED BY <1>1, <2>1
<1>3. \A v \in S : n <= v
  BY <1>2
<1> QED BY <1>3 DEF Least

(* A set of the first places has as many members as its last place says.    *)
LEMMA FirstPlaces ==
  ASSUME NEW n \in Nat, NEW K \in SUBSET (1..n),
         \A i \in K : \A j \in 1..n : j < i => j \in K
  PROVE  Cardinality(K) \in 0..n /\ K = 1..Cardinality(K)
<1> DEFINE free == {j \in 1..(n + 1) : j \notin K}
<1>1. free \in SUBSET Nat /\ n + 1 \in free
  OBVIOUS
<1>2. PICK l \in free : \A j \in free : l <= j
  BY <1>1, LeastExists
<1>3. K = 1..(l - 1) /\ l - 1 \in 0..n
  <2>1. \A j \in 1..(l - 1) : j \in K
    BY <1>2
  <2>2. ASSUME NEW i \in K PROVE i \in 1..(l - 1)
    <3>1. i \in 1..n /\ l \in 1..(n + 1) /\ l \notin K
      BY <1>2
    <3>2. ~ (l < i)
      BY <3>1
    <3> QED BY <3>1, <3>2
  <2>3. l - 1 \in 0..n
    BY <1>2
  <2> QED BY <2>1, <2>2, <2>3
<1>4. Cardinality(1..(l - 1)) = l - 1
  <2>1. 1 \in Int /\ l - 1 \in Int
    BY <1>3
  <2> QED BY <1>3, <2>1, FS_Interval
<1> QED BY <1>3, <1>4

LEMMA Multiples ==
  ASSUME NEW c \in Nat \ {0}
  PROVE  /\ \A i \in Nat : i * c \in Nat /\ i <= i * c
         /\ \A a \in Nat, b \in Nat : a <= b => a * c <= b * c
<1>1. ASSUME NEW i \in Nat PROVE i * c \in Nat /\ i <= i * c
  OBVIOUS
<1>2. ASSUME NEW a \in Nat, NEW b \in Nat, a <= b PROVE a * c <= b * c
  <2>1. PICK d \in Nat : b = a + d
    BY <1>2
  <2>2. d * c \in Nat /\ b * c = a * c + d * c /\ a * c \in Nat
    BY <2>1
  <2> QED BY <2>2
<1> QED BY <1>1, <1>2

(* Every place is in one of the groups of c.                                *)
LEMMA Grouped ==
  ASSUME NEW c \in Nat \ {0}, NEW i \in Nat \ {0}
  PROVE  \E g \in 1..i : (g - 1) * c < i /\ i <= g * c
<1> DEFINE far == {g \in Nat : i <= g * c}
<1>1. far \in SUBSET Nat /\ i \in far
  BY Multiples
<1>2. PICK g \in far : \A h \in far : g <= h
  BY <1>1, LeastExists
<1>3. g # 0
  <2>1. 0 * c = 0
    OBVIOUS
  <2> QED BY <1>2, <2>1
<1>4. g \in 1..i /\ g - 1 \in Nat /\ g - 1 \notin far
  BY <1>1, <1>2, <1>3
<1>5. (g - 1) * c < i
  <2>1. (g - 1) * c \in Nat
    BY <1>4, Multiples
  <2> QED BY <1>4, <2>1
<1> QED BY <1>2, <1>4, <1>5

LEMMA Suffix ==
  ASSUME NEW S, NEW q \in Seq(S), NEW n \in 0..Len(q),
         NEW rest, rest = SubSeq(q, n + 1, Len(q))
  PROVE  /\ rest \in Seq(S) /\ Len(rest) = Len(q) - n /\ DOMAIN rest = 1..(Len(q) - n)
         /\ \A i \in 1..(Len(q) - n) : rest[i] = q[i + n]
<1>1. /\ Len(q) \in Nat /\ n \in Nat /\ n + 1 \in 1..(Len(q) + 1)
      /\ \A i \in (n + 1)..Len(q) : q[i] \in S
  BY LenProperties, ElementOfSeq
<1>2. /\ rest \in Seq(S)
      /\ Len(rest) = IF n + 1 <= Len(q) THEN Len(q) - (n + 1) + 1 ELSE 0
      /\ \A i \in 1..(Len(q) - (n + 1) + 1) : rest[i] = q[(n + 1) + i - 1]
  BY <1>1, SubSeqProperties
<1>3. Len(rest) = Len(q) - n
  BY <1>1, <1>2
<1>4. \A i \in 1..(Len(q) - n) : rest[i] = q[i + n]
  BY <1>1, <1>2
<1> QED BY <1>2, <1>3, <1>4, LenProperties

LEMMA Prefix ==
  ASSUME NEW S, NEW q \in Seq(S), NEW n \in 0..Len(q),
         NEW first, first = SubSeq(q, 1, n)
  PROVE  /\ first \in Seq(S) /\ Len(first) = n
         /\ \A i \in 1..n : first[i] = q[i]
<1>1. /\ Len(q) \in Nat /\ n \in Nat /\ \A i \in 1..n : q[i] \in S
  BY LenProperties, ElementOfSeq
<1>2. /\ first \in Seq(S)
      /\ Len(first) = IF 1 <= n THEN n - 1 + 1 ELSE 0
      /\ \A i \in 1..(n - 1 + 1) : first[i] = q[1 + i - 1]
  BY <1>1, SubSeqProperties
<1>3. Len(first) = n
  BY <1>1, <1>2
<1>4. \A i \in 1..n : first[i] = q[i]
  BY <1>1, <1>2
<1> QED BY <1>2, <1>3, <1>4

LEMMA RemoveAtPlaces ==
  ASSUME NEW S, NEW q \in Seq(S), NEW n \in 1..Len(q),
         NEW t, t = RemoveAt(q, n)
  PROVE  /\ t \in Seq(S) /\ Len(t) = Len(q) - 1 /\ DOMAIN t = 1..(Len(q) - 1)
         /\ \A i \in 1..(Len(q) - 1) : (i < n => t[i] = q[i]) /\ (~ (i < n) => t[i] = q[i + 1])
<1> DEFINE first == SubSeq(q, 1, n - 1)
           rest == SubSeq(q, n + 1, Len(q))
<1>1. Len(q) \in Nat /\ n \in Nat /\ n - 1 \in 0..Len(q) /\ n \in 0..Len(q)
  BY LenProperties
<1>2. /\ first \in Seq(S) /\ Len(first) = n - 1
      /\ \A i \in 1..(n - 1) : first[i] = q[i]
  BY <1>1, Prefix
<1>3. /\ rest \in Seq(S) /\ Len(rest) = Len(q) - n
      /\ \A i \in 1..(Len(q) - n) : rest[i] = q[i + n]
  BY <1>1, Suffix
<1>4. t = first \o rest
  BY DEF RemoveAt
<1> HIDE DEF first, rest
<1>5. /\ t \in Seq(S) /\ Len(t) = Len(first) + Len(rest)
      /\ \A i \in 1..(Len(first) + Len(rest)) :
           t[i] = IF i <= Len(first) THEN first[i] ELSE rest[i - Len(first)]
  <2>1. first \in Seq(S) /\ rest \in Seq(S)
    BY <1>2, <1>3
  <2> QED BY <1>4, <2>1, ConcatProperties
<1>6. ASSUME NEW i \in 1..(Len(q) - 1)
      PROVE  (i < n => t[i] = q[i]) /\ (~ (i < n) => t[i] = q[i + 1])
  <2>0. Len(first) = n - 1 /\ Len(rest) = Len(q) - n
    BY <1>2, <1>3
  <2>1. CASE i < n
    <3>1. i \in 1..(n - 1) /\ i \in 1..(Len(first) + Len(rest)) /\ i <= Len(first)
      BY <1>1, <2>0, <2>1
    <3> QED BY <1>2, <1>5, <2>1, <3>1
  <2>2. CASE i >= n
    <3>1. i - (n - 1) \in 1..(Len(q) - n) /\ (i - (n - 1)) + n = i + 1
      BY <1>1, <2>2
    <3>2. i \in 1..(Len(first) + Len(rest)) /\ ~ (i <= Len(first))
      BY <1>1, <2>0, <2>2
    <3>3. t[i] = rest[i - (n - 1)]
      BY <1>5, <2>0, <3>2
    <3>4. ~ (i < n)
      BY <1>1, <2>2
    <3> QED BY <1>3, <3>1, <3>3, <3>4
  <2> QED BY <1>1, <2>1, <2>2
<1> QED BY <1>1, <1>2, <1>3, <1>5, <1>6, LenProperties

LEMMA InsertAtPlaces ==
  ASSUME NEW S, NEW q \in Seq(S), NEW n \in 1..(Len(q) + 1), NEW e \in S,
         NEW t, t = InsertAt(q, n, e)
  PROVE  /\ t \in Seq(S) /\ Len(t) = Len(q) + 1 /\ DOMAIN t = 1..(Len(q) + 1)
         /\ \A i \in 1..(Len(q) + 1) :
              /\ i < n => t[i] = q[i]
              /\ i = n => t[i] = e
              /\ ~ (i < n) /\ i # n => t[i] = q[i - 1]
<1> DEFINE first == SubSeq(q, 1, n - 1)
           rest == SubSeq(q, n, Len(q))
           mid == first \o <<e>>
<1>1. Len(q) \in Nat /\ n \in Nat /\ n - 1 \in 0..Len(q) /\ (n - 1) + 1 = n
  BY LenProperties
<1>2. /\ first \in Seq(S) /\ Len(first) = n - 1
      /\ \A i \in 1..(n - 1) : first[i] = q[i]
  BY <1>1, Prefix
<1>3. /\ rest \in Seq(S) /\ Len(rest) = Len(q) - (n - 1)
      /\ \A i \in 1..(Len(q) - (n - 1)) : rest[i] = q[i + (n - 1)]
  BY <1>1, Suffix
<1>4. t = mid \o rest
  BY DEF InsertAt
<1> HIDE DEF first, rest, mid
<1>5. <<e>> \in Seq(S) /\ Len(<<e>>) = 1 /\ <<e>>[1] = e
  OBVIOUS
<1>6. /\ mid \in Seq(S) /\ Len(mid) = Len(first) + Len(<<e>>)
      /\ \A i \in 1..(Len(first) + Len(<<e>>)) :
           mid[i] = IF i <= Len(first) THEN first[i] ELSE <<e>>[i - Len(first)]
  <2>1. first \in Seq(S) /\ <<e>> \in Seq(S)
    BY <1>2, <1>5
  <2> QED BY <2>1, ConcatProperties DEF mid
<1>7. /\ Len(mid) = n
      /\ \A i \in 1..n : mid[i] = IF i < n THEN q[i] ELSE e
  <2>1. Len(mid) = n
    BY <1>1, <1>2, <1>5, <1>6
  <2>2. ASSUME NEW i \in 1..n PROVE mid[i] = IF i < n THEN q[i] ELSE e
    <3>1. CASE i < n
      <4>1. i \in 1..(n - 1) /\ i \in 1..(Len(first) + Len(<<e>>)) /\ i <= Len(first)
        BY <1>1, <1>2, <1>5, <3>1
      <4> QED BY <1>2, <1>6, <3>1, <4>1
    <3>2. CASE i = n
      <4>1. i - Len(first) = 1 /\ ~ (i <= Len(first)) /\ i \in 1..(Len(first) + Len(<<e>>))
        BY <1>1, <1>2, <1>5, <3>2
      <4> QED BY <1>5, <1>6, <3>2, <4>1
    <3> QED BY <1>1, <3>1, <3>2
  <2> QED BY <2>1, <2>2
<1>8. /\ t \in Seq(S) /\ Len(t) = Len(mid) + Len(rest)
      /\ \A i \in 1..(Len(mid) + Len(rest)) :
           t[i] = IF i <= Len(mid) THEN mid[i] ELSE rest[i - Len(mid)]
  <2>1. mid \in Seq(S) /\ rest \in Seq(S)
    BY <1>3, <1>6
  <2> QED BY <1>4, <2>1, ConcatProperties
<1>9. Len(t) = Len(q) + 1
  BY <1>1, <1>3, <1>7, <1>8
<1>10. ASSUME NEW i \in 1..(Len(q) + 1)
      PROVE  /\ i < n => t[i] = q[i]
             /\ i = n => t[i] = e
             /\ ~ (i < n) /\ i # n => t[i] = q[i - 1]
  <2>0. Len(mid) = n /\ Len(rest) = Len(q) - (n - 1)
    BY <1>3, <1>7
  <2>1. CASE i <= n
    <3>1. i \in 1..n /\ i \in 1..(Len(mid) + Len(rest)) /\ i <= Len(mid)
      BY <1>1, <2>0, <2>1
    <3>2. t[i] = mid[i]
      BY <1>8, <3>1
    <3>3. mid[i] = IF i < n THEN q[i] ELSE e
      BY <1>7, <3>1
    <3> QED BY <2>1, <3>1, <3>2, <3>3
  <2>2. CASE i > n
    <3>1. i - n \in 1..(Len(q) - (n - 1)) /\ (i - n) + (n - 1) = i - 1
      BY <1>1, <2>2
    <3>2. i \in 1..(Len(mid) + Len(rest)) /\ ~ (i <= Len(mid))
      BY <1>1, <2>0, <2>2
    <3>3. t[i] = rest[i - n]
      BY <1>8, <2>0, <3>2
    <3>4. ~ (i < n) /\ i # n
      BY <1>1, <2>2
    <3> QED BY <1>3, <3>1, <3>3, <3>4
  <2> QED BY <1>1, <2>1, <2>2
<1> QED BY <1>1, <1>8, <1>9, <1>10, LenProperties

-----------------------------------------------------------------------------
(* The machine: what its functions keep.                                    *)

Machines == [queue: Seq(Entries), timer: {NoTimer} \cup Nat, running: BOOLEAN,
             batch: SUBSET Files]

Queued(queue) == {queue[i].id : i \in DOMAIN queue}
Held(m) == Queued(m.queue) \cup m.batch

Ordered(queue) ==
  \A i, j \in DOMAIN queue :
    i < j => queue[i].wait <= queue[j].wait /\ queue[i].id # queue[j].id

Sound(m) ==
  /\ m \in Machines
  /\ Ordered(m.queue)
  /\ m.timer = IF m.running THEN NoTimer ELSE TimerFor(m.queue)
  /\ ~ m.running => m.batch = {}

LEMMA EntriesTyped ==
  ASSUME NEW q \in Seq(Entries)
  PROVE  /\ Len(q) \in Nat /\ DOMAIN q = 1..Len(q)
         /\ \A i \in 1..Len(q) : q[i] \in Entries /\ q[i].wait \in Nat /\ q[i].id \in Files
<1>1. Len(q) \in Nat /\ DOMAIN q = 1..Len(q)
  BY LenProperties
<1>2. ASSUME NEW i \in 1..Len(q)
      PROVE  q[i] \in Entries /\ q[i].wait \in Nat /\ q[i].id \in Files
  <2>1. q[i] \in Entries
    BY ElementOfSeq
  <2> QED BY <2>1 DEF Entries
<1> QED BY <1>1, <1>2

LEMMA TimerTyped ==
  ASSUME NEW q \in Seq(Entries)
  PROVE  TimerFor(q) \in {NoTimer} \cup Nat
<1>1. CASE q = <<>>
  BY <1>1 DEF TimerFor
<1>2. CASE q # <<>>
  <2>1. 1 \in 1..Len(q)
    BY <1>2, EmptySeq, LenProperties
  <2>2. q[1] \in Entries
    BY <2>1, ElementOfSeq
  <2> QED BY <1>2, <2>2 DEF TimerFor, Entries
<1> QED BY <1>1, <1>2

LEMMA SuffixOrdered ==
  ASSUME NEW q \in Seq(Entries), Ordered(q), NEW n \in 0..Len(q),
         NEW rest, rest = SubSeq(q, n + 1, Len(q))
  PROVE  /\ rest \in Seq(Entries) /\ Ordered(rest)
         /\ \A i \in 1..Len(q) : i > n => q[i].id \in Queued(rest)
<1>1. /\ rest \in Seq(Entries) /\ DOMAIN rest = 1..(Len(q) - n)
      /\ \A i \in 1..(Len(q) - n) : rest[i] = q[i + n]
  BY Suffix
<1>2. Len(q) \in Nat /\ n \in Nat /\ DOMAIN q = 1..Len(q)
  BY LenProperties
<1>3. Ordered(rest)
  <2>1. ASSUME NEW i \in DOMAIN rest, NEW j \in DOMAIN rest, i < j
        PROVE  rest[i].wait <= rest[j].wait /\ rest[i].id # rest[j].id
    <3>1. /\ i + n \in DOMAIN q /\ j + n \in DOMAIN q /\ i + n < j + n
          /\ rest[i] = q[i + n] /\ rest[j] = q[j + n]
      BY <1>1, <1>2, <2>1
    <3> QED BY <3>1 DEF Ordered
  <2> QED BY <2>1 DEF Ordered
<1>4. ASSUME NEW i \in 1..Len(q), i > n PROVE q[i].id \in Queued(rest)
  <2>1. i - n \in DOMAIN rest /\ (i - n) + n = i
    BY <1>1, <1>2, <1>4
  <2>2. rest[i - n] = q[i]
    BY <1>1, <2>1
  <2> QED BY <2>1, <2>2 DEF Queued
<1> QED BY <1>1, <1>3, <1>4

LEMMA DueTyped ==
  ASSUME NEW q \in Seq(Entries)
  PROVE  Due(q) \in 0..Len(q)
<1> DEFINE K == {i \in DOMAIN q : q[i].wait = 0}
<1>1. /\ Len(q) \in Nat /\ DOMAIN q = 1..Len(q)
  BY LenProperties
<1>2. IsFiniteSet(1..Len(q)) /\ Cardinality(1..Len(q)) = Len(q)
  BY <1>1, FS_Interval
<1>3. K \in SUBSET (1..Len(q))
  BY <1>1
<1>4. /\ Cardinality(K) <= Cardinality(1..Len(q))
      /\ IsFiniteSet(K)
  BY <1>2, <1>3, FS_Subset
<1>5. Cardinality(K) \in Nat
  BY <1>4, FS_CardinalityType
<1> QED BY <1>1, <1>2, <1>4, <1>5 DEF Due

(* Draining takes nothing pending off the queue but into the batch.         *)
LEMMA DrainKeeps ==
  ASSUME NEW m, m.queue \in Seq(Entries), Ordered(m.queue), NEW p \in SUBSET Files,
         NEW d, d = DrainOn(m, p)
  PROVE  /\ Sound(d) /\ d.batch \subseteq p
         /\ Queued(m.queue) \cap p \subseteq Held(d)
<1> DEFINE q == m.queue
           c == Concurrency
           due == Due(q)
           last(g) == Least({g * c, due})
           group(g) == {q[i].id : i \in ((g - 1) * c + 1)..last(g)}
           full == {g \in 1..due : group(g) \cap p # {}}
           rest(n) == SubSeq(q, n + 1, Len(q))
<1>1. /\ c \in Nat \ {0} /\ due \in 0..Len(q) /\ Len(q) \in Nat /\ DOMAIN q = 1..Len(q)
      /\ q \in Seq(Entries) /\ Ordered(q)
  BY ConstantsAssumption, DueTyped, LenProperties
<1>2. d = IF full = {}
          THEN [Idle(rest(due)) EXCEPT !.timer = TimerFor(rest(due))]
          ELSE [queue |-> rest(last(Least(full))), timer |-> NoTimer, running |-> TRUE,
                batch |-> group(Least(full)) \cap p]
  BY DEF DrainOn
<1>3. ASSUME NEW g \in Nat
      PROVE  last(g) \in 0..due /\ \A i \in 1..due : i <= g * c => i <= last(g)
  <2>1. g * c \in Nat
    BY <1>1, Multiples
  <2>2. {g * c, due} \in SUBSET Nat /\ {g * c, due} # {}
    BY <1>1, <2>1
  <2>3. last(g) \in {g * c, due} /\ \A n \in {g * c, due} : last(g) <= n
    BY <2>2, LeastExists
  <2> DEFINE l == last(g)
  <2>4. (l = g * c \/ l = due) /\ l <= g * c /\ l <= due
    BY <2>3
  <2>5. due \in Nat
    BY <1>1
  <2> HIDE DEF l, due
  <2>6. l \in 0..due /\ \A i \in 1..due : i <= g * c => i <= l
    BY <2>1, <2>4, <2>5
  <2> QED BY <2>6 DEF l
<1>4. ASSUME NEW i \in 1..due
      PROVE  \E g \in 1..due : g \in Nat /\ (g - 1) * c < i /\ q[i].id \in group(g)
  <2>1. PICK g \in 1..i : (g - 1) * c < i /\ i <= g * c
    <3>1. i \in Nat \ {0}
      BY <1>1
    <3> HIDE DEF c
    <3> QED BY <1>1, <3>1, Grouped
  <2>2. g \in 1..due /\ g \in Nat /\ g - 1 \in Nat
    BY <1>1
  <2>3. i <= last(g) /\ (g - 1) * c \in Nat
    BY <1>1, <1>3, <2>1, <2>2, Multiples
  <2>4. i \in ((g - 1) * c + 1)..last(g)
    <3>1. last(g) \in Nat
      BY <1>1, <1>3, <2>2
    <3> HIDE DEF last
    <3> QED BY <2>1, <2>3, <3>1
  <2> QED BY <2>1, <2>2, <2>4
<1> HIDE DEF q, c, due, last, full, rest, group
<1>5. ASSUME NEW n \in 0..Len(q)
      PROVE  /\ rest(n) \in Seq(Entries) /\ Ordered(rest(n))
             /\ \A i \in 1..Len(q) : i > n => q[i].id \in Queued(rest(n))
  BY <1>1, SuffixOrdered DEF rest
<1>6. CASE full = {}
  <2>1. /\ d = [queue |-> rest(due), timer |-> TimerFor(rest(due)), running |-> FALSE,
                batch |-> {}]
    BY <1>2, <1>6 DEF Idle
  <2>2. rest(due) \in Seq(Entries) /\ Ordered(rest(due))
    BY <1>1, <1>5
  <2>3. Sound(d)
    BY <2>1, <2>2, TimerTyped DEF Sound, Machines
  <2>4. ASSUME NEW i \in DOMAIN q, q[i].id \in p PROVE q[i].id \in Held(d)
    <3>1. CASE i > due
      BY <1>1, <1>5, <2>1, <3>1 DEF Held
    <3>2. CASE i <= due
      <4>1. i \in 1..due
        BY <1>1, <3>2
      <4>2. PICK g \in 1..due : q[i].id \in group(g)
        BY <1>4, <4>1
      <4> QED BY <1>6, <2>4, <4>2 DEF full
    <3> QED BY <1>1, <3>1, <3>2
  <2>5. d.batch \subseteq p
    BY <2>1
  <2>6. Queued(q) \cap p \subseteq Held(d)
    BY <2>4 DEF Queued
  <2> QED BY <2>3, <2>5, <2>6 DEF q
<1>7. CASE full # {}
  <2> DEFINE k == Least(full)
  <2>1. full \in SUBSET Nat
    BY <1>1 DEF full
  <2>2. k \in full /\ \A g \in full : k <= g
    BY <1>7, <2>1, LeastExists
  <2>3. k \in 1..due /\ k \in Nat
    BY <1>1, <2>2 DEF full
  <2> HIDE DEF k
  <2>4. last(k) \in 0..due /\ last(k) \in 0..Len(q)
    <3>1. last(k) \in 0..due
      BY <1>3, <2>3
    <3> QED BY <1>1, <3>1
  <2>5. d = [queue |-> rest(last(k)), timer |-> NoTimer, running |-> TRUE,
             batch |-> group(k) \cap p]
    BY <1>2, <1>7 DEF k
  <2>6. rest(last(k)) \in Seq(Entries) /\ Ordered(rest(last(k)))
    BY <1>5, <2>4
  <2>7. Sound(d) /\ d.batch \subseteq p
    BY <2>5, <2>6 DEF Sound, Machines
  <2>8. ASSUME NEW i \in DOMAIN q, q[i].id \in p PROVE q[i].id \in Held(d)
    <3>1. CASE i > last(k)
      BY <1>1, <1>5, <2>4, <2>5, <3>1 DEF Held
    <3>2. CASE i <= last(k)
      <4>1. i \in 1..due /\ last(k) <= k * c
        <5>1. {k * c, due} \in SUBSET Nat /\ {k * c, due} # {} /\ k * c \in Nat
          BY <1>1, <2>3, Multiples
        <5>2. \A n \in {k * c, due} : last(k) <= n
          BY <5>1, LeastExists DEF last
        <5> QED BY <1>1, <2>4, <3>2, <5>2
      <4>2. PICK g \in 1..due : g \in Nat /\ (g - 1) * c < i /\ q[i].id \in group(g)
        BY <1>4, <4>1
      <4>3. g \in full
        BY <2>8, <4>2 DEF full
      <4>4. k <= g
        BY <2>2, <4>3
      <4>5. g <= k
        <5>1. ASSUME k < g PROVE FALSE
          <6>1. g - 1 \in Nat /\ k <= g - 1
            BY <2>3, <4>2, <5>1
          <6>2. k * c <= (g - 1) * c /\ k * c \in Nat /\ (g - 1) * c \in Nat
            BY <1>1, <2>3, <6>1, Multiples
          <6>3. i \in Nat /\ last(k) \in Nat /\ i <= last(k) /\ last(k) <= k * c
            BY <1>1, <2>4, <3>2, <4>1
          <6> QED BY <4>2, <6>2, <6>3
        <5> QED BY <2>3, <4>2, <5>1
      <4>6. g = k
        BY <2>3, <4>2, <4>4, <4>5
      <4> QED BY <2>5, <2>8, <4>2, <4>6 DEF Held
    <3>3. i \in Nat /\ last(k) \in Nat
      BY <1>1, <2>4
    <3> QED BY <3>1, <3>2, <3>3
  <2> QED BY <2>7, <2>8 DEF Queued, q
<1> QED BY <1>6, <1>7

(* Without one entry a queue is still in order.                             *)
LEMMA RemoveKeeps ==
  ASSUME NEW q \in Seq(Entries), Ordered(q), NEW n \in 1..Len(q),
         NEW t, t = RemoveAt(q, n)
  PROVE  /\ t \in Seq(Entries) /\ Ordered(t)
         /\ q[n].id \notin Queued(t)
         /\ \A f \in Queued(q) : f = q[n].id \/ f \in Queued(t)
<1>1. /\ t \in Seq(Entries) /\ Len(t) = Len(q) - 1 /\ DOMAIN t = 1..(Len(q) - 1)
      /\ \A i \in 1..(Len(q) - 1) : (i < n => t[i] = q[i]) /\ (~ (i < n) => t[i] = q[i + 1])
  BY RemoveAtPlaces
<1>2. Len(q) \in Nat /\ n \in Nat /\ DOMAIN q = 1..Len(q)
  BY LenProperties
<1> DEFINE was(i) == IF i < n THEN i ELSE i + 1
<1>3. \A i \in DOMAIN t : was(i) \in DOMAIN q /\ was(i) # n /\ t[i] = q[was(i)]
  BY <1>1, <1>2
<1>4. \A i, j \in DOMAIN t : i < j => was(i) < was(j)
  BY <1>1, <1>2
<1>5. \A k \in DOMAIN q : k # n => \E i \in DOMAIN t : was(i) = k
  <2>1. ASSUME NEW k \in DOMAIN q, k < n PROVE \E i \in DOMAIN t : was(i) = k
    BY <1>1, <1>2, <2>1
  <2>2. ASSUME NEW k \in DOMAIN q, k > n PROVE \E i \in DOMAIN t : was(i) = k
    <3>1. k - 1 \in DOMAIN t /\ was(k - 1) = k
      BY <1>1, <1>2, <2>2
    <3> QED BY <3>1
  <2> QED BY <1>2, <2>1, <2>2
<1> HIDE DEF was
<1>6. Ordered(t)
  BY <1>3, <1>4 DEF Ordered
<1>7. q[n].id \notin Queued(t)
  <2>1. ASSUME NEW i \in DOMAIN t, t[i].id = q[n].id PROVE FALSE
    <3>1. was(i) \in DOMAIN q /\ was(i) # n /\ q[was(i)].id = q[n].id
      BY <1>3, <2>1
    <3>2. was(i) < n \/ n < was(i)
      BY <1>2, <3>1
    <3> QED BY <1>2, <3>1, <3>2 DEF Ordered
  <2> QED BY <2>1 DEF Queued
<1>8. ASSUME NEW k \in DOMAIN q PROVE q[k].id = q[n].id \/ q[k].id \in Queued(t)
  BY <1>3, <1>5 DEF Queued
<1> QED BY <1>1, <1>6, <1>7, <1>8 DEF Queued

(* A new entry goes behind those that are due no later.                     *)
LEMMA InsertionPlace ==
  ASSUME NEW q \in Seq(Entries), Ordered(q), NEW wait \in Nat
  PROVE  /\ InsertionIndex(q, wait) \in 1..(Len(q) + 1)
         /\ \A i \in 1..Len(q) : q[i].wait <= wait <=> i < InsertionIndex(q, wait)
<1> DEFINE K == {i \in DOMAIN q : q[i].wait <= wait}
<1>1. /\ Len(q) \in Nat /\ DOMAIN q = 1..Len(q)
      /\ \A i \in 1..Len(q) : q[i].wait \in Nat
  BY EntriesTyped
<1>2. K \in SUBSET (1..Len(q))
  BY <1>1
<1>3. ASSUME NEW i \in K, NEW j \in 1..Len(q), j < i PROVE j \in K
  <2>1. q[j].wait <= q[i].wait
    BY <1>1, <1>3 DEF Ordered
  <2>2. q[j].wait \in Nat /\ q[i].wait \in Nat /\ q[i].wait <= wait
    BY <1>1
  <2> QED BY <1>1, <2>1, <2>2
<1> HIDE DEF K
<1>4. Cardinality(K) \in 0..Len(q) /\ K = 1..Cardinality(K)
  BY <1>1, <1>2, <1>3, FirstPlaces
<1>5. InsertionIndex(q, wait) = 1 + Cardinality(K)
  BY DEF InsertionIndex, K
<1>6. ASSUME NEW i \in 1..Len(q) PROVE q[i].wait <= wait <=> i < 1 + Cardinality(K)
  <2>1. i \in K <=> q[i].wait <= wait
    BY <1>1 DEF K
  <2>2. i \in 1..Cardinality(K) <=> i < 1 + Cardinality(K)
    BY <1>1, <1>4
  <2> QED BY <1>4, <2>1, <2>2
<1> QED BY <1>1, <1>4, <1>5, <1>6

LEMMA InsertKeeps ==
  ASSUME NEW q \in Seq(Entries), Ordered(q), NEW e \in Entries, e.id \notin Queued(q),
         NEW n, n = InsertionIndex(q, e.wait), NEW t, t = InsertAt(q, n, e)
  PROVE  /\ t \in Seq(Entries) /\ Ordered(t) /\ t # <<>>
         /\ Queued(q) \subseteq Queued(t) /\ e.id \in Queued(t)
         /\ n # 1 => Len(q) > 0 /\ t[1] = q[1]
<1>1. /\ n \in 1..(Len(q) + 1)
      /\ \A i \in 1..Len(q) : q[i].wait <= e.wait <=> i < n
  <2>1. e.wait \in Nat
    BY DEF Entries
  <2> QED BY <2>1, InsertionPlace
<1>2. e.wait \in Nat
  BY DEF Entries
<1>3. /\ t \in Seq(Entries) /\ Len(t) = Len(q) + 1 /\ DOMAIN t = 1..(Len(q) + 1)
      /\ \A i \in 1..(Len(q) + 1) :
           /\ i < n => t[i] = q[i]
           /\ i = n => t[i] = e
           /\ ~ (i < n) /\ i # n => t[i] = q[i - 1]
  <2>1. n \in 1..(Len(q) + 1)
    BY <1>1
  <2> QED BY <2>1, InsertAtPlaces
<1>4. /\ Len(q) \in Nat /\ n \in Nat /\ DOMAIN q = 1..Len(q)
      /\ \A i \in 1..Len(q) : q[i].wait \in Nat /\ q[i].id # e.id
  BY <1>1, EntriesTyped DEF Queued
<1>5. ASSUME NEW i \in DOMAIN t, NEW j \in DOMAIN t, i < j
      PROVE  t[i].wait <= t[j].wait /\ t[i].id # t[j].id
  <2>1. CASE j < n
    <3>1. i \in DOMAIN q /\ j \in DOMAIN q /\ t[i] = q[i] /\ t[j] = q[j]
      BY <1>1, <1>3, <1>4, <1>5, <2>1
    <3> QED BY <1>5, <3>1 DEF Ordered
  <2>2. CASE j = n
    <3>1. i \in 1..Len(q) /\ i < n /\ t[i] = q[i] /\ t[j] = e
      BY <1>1, <1>3, <1>4, <1>5, <2>2
    <3> QED BY <1>1, <1>2, <1>4, <3>1
  <2>3. CASE i = n
    <3>1. j - 1 \in 1..Len(q) /\ ~ (j - 1 < n) /\ t[i] = e /\ t[j] = q[j - 1]
      BY <1>1, <1>3, <1>4, <1>5, <2>3
    <3>2. ~ (q[j - 1].wait <= e.wait) /\ q[j - 1].wait \in Nat /\ q[j - 1].id # e.id
      BY <1>1, <1>4, <3>1
    <3> QED BY <1>2, <3>1, <3>2
  <2>4. CASE i < n /\ n < j
    <3>1. i \in 1..Len(q) /\ j - 1 \in 1..Len(q) /\ ~ (j - 1 < n) /\ i < j - 1
      BY <1>1, <1>3, <1>4, <1>5, <2>4
    <3>2. t[i] = q[i] /\ t[j] = q[j - 1]
      <4>1. i \in 1..(Len(q) + 1) /\ j \in 1..(Len(q) + 1) /\ ~ (j < n) /\ j # n
        BY <1>3, <1>4, <2>4
      <4> QED BY <1>3, <2>4, <4>1
    <3> QED BY <1>4, <3>1, <3>2 DEF Ordered
  <2>5. CASE n < i
    <3>1. i - 1 \in 1..Len(q) /\ j - 1 \in 1..Len(q) /\ i - 1 < j - 1
      BY <1>1, <1>3, <1>4, <1>5, <2>5
    <3>2. t[i] = q[i - 1] /\ t[j] = q[j - 1]
      <4>1. ~ (i < n) /\ i # n /\ ~ (j < n) /\ j # n
        BY <1>3, <1>4, <1>5, <2>5
      <4> QED BY <1>3, <4>1
    <3> QED BY <1>4, <3>1, <3>2 DEF Ordered
  <2>6. j < n \/ j = n \/ i = n \/ (i < n /\ n < j) \/ n < i
    BY <1>3, <1>4, <1>5
  <2> QED BY <2>1, <2>2, <2>3, <2>4, <2>5, <2>6
<1>6. ASSUME NEW i \in DOMAIN q PROVE q[i].id \in Queued(t)
  <2>1. CASE i < n
    <3>1. i \in DOMAIN t /\ t[i] = q[i]
      BY <1>3, <1>4, <2>1
    <3> QED BY <3>1 DEF Queued
  <2>2. CASE i >= n
    <3>1. i + 1 \in DOMAIN t /\ ~ (i + 1 < n) /\ i + 1 # n /\ (i + 1) - 1 = i
      BY <1>3, <1>4, <2>2
    <3>2. t[i + 1] = q[i]
      BY <1>3, <3>1
    <3> QED BY <3>1, <3>2 DEF Queued
  <2> QED BY <1>4, <2>1, <2>2
<1>7. e.id \in Queued(t) /\ t # <<>>
  <2>1. n \in DOMAIN t /\ t[n] = e
    BY <1>1, <1>3, <1>4
  <2> QED BY <1>2, <2>1 DEF Queued
<1>8. n # 1 => Len(q) > 0 /\ t[1] = q[1]
  BY <1>1, <1>3, <1>4
<1>9. Ordered(t)
  BY <1>5 DEF Ordered
<1>10. Queued(q) \subseteq Queued(t)
  BY <1>6 DEF Queued
<1> QED BY <1>3, <1>7, <1>8, <1>9, <1>10

(* The machine s is m with the queue t, scheduled; n is where t has its new *)
(* entry.                                                                   *)
Scheduled(m, t, n, p, s) == s = ScheduleQueue([m EXCEPT !.queue = t], n = 1, p)

LEMMA ScheduleKeeps ==
  ASSUME NEW m, Sound(m), NEW t \in Seq(Entries), Ordered(t), t # <<>>,
         NEW n, n # 1 => m.queue # <<>> /\ t[1].wait = m.queue[1].wait,
         NEW p \in SUBSET Files, NEW s, Scheduled(m, t, n, p, s)
  PROVE  /\ Sound(s) /\ s.batch \subseteq p \cup m.batch
         /\ Queued(t) \cap p \subseteq Held(s)
         /\ m.running => s = [m EXCEPT !.queue = t]
<1> DEFINE x == [m EXCEPT !.queue = t]
<1>0. s = ScheduleQueue(x, n = 1, p)
  BY DEF Scheduled
<1>1. /\ m \in Machines
      /\ x = [queue |-> t, timer |-> m.timer, running |-> m.running, batch |-> m.batch]
  BY DEF Sound, Machines
<1> HIDE DEF x
<1>2. TimerFor(t) = t[1].wait /\ TimerFor(t) \in {NoTimer} \cup Nat
  BY TimerTyped DEF TimerFor
<1>3. CASE m.running
  <2>1. s = x
    BY <1>0, <1>1, <1>3 DEF ScheduleQueue
  <2>2. Sound(s)
    BY <1>1, <1>3, <2>1 DEF Sound, Machines
  <2> QED BY <1>1, <2>1, <2>2 DEF Held, x
<1>4. CASE ~ m.running /\ TimerStands(x, n = 1)
  <2>1. s = x
    BY <1>0, <1>4 DEF ScheduleQueue
  <2>2. m.timer = TimerFor(m.queue) /\ m.queue # <<>> /\ t[1].wait = m.queue[1].wait
    BY <1>1, <1>4 DEF Sound, TimerStands
  <2>3. m.timer = TimerFor(t)
    BY <1>2, <2>2 DEF TimerFor
  <2>4. Sound(s)
    BY <1>1, <1>4, <2>1, <2>3 DEF Sound, Machines
  <2> QED BY <1>1, <2>1, <2>4 DEF Held, x
<1>5. CASE ~ m.running /\ ~ TimerStands(x, n = 1) /\ t[1].wait = 0
  <2> DEFINE y == [x EXCEPT !.timer = NoTimer]
  <2>1. s = DrainOn(y, p) /\ y.queue = t
    BY <1>0, <1>1, <1>5 DEF ScheduleQueue
  <2> HIDE DEF y
  <2>2. Sound(s) /\ s.batch \subseteq p /\ Queued(t) \cap p \subseteq Held(s)
    BY <2>1, DrainKeeps
  <2> QED BY <1>5, <2>2
<1>6. CASE ~ m.running /\ ~ TimerStands(x, n = 1) /\ t[1].wait # 0
  <2>1. s = [queue |-> t, timer |-> t[1].wait, running |-> m.running, batch |-> m.batch]
    BY <1>0, <1>1, <1>6 DEF ScheduleQueue
  <2>2. m.batch = {}
    BY <1>6 DEF Sound
  <2>3. Sound(s)
    BY <1>1, <1>2, <1>6, <2>1, <2>2 DEF Sound, Machines
  <2> QED BY <1>6, <2>1, <2>3 DEF Held
<1> QED BY <1>3, <1>4, <1>5, <1>6 DEF x

(* What enqueueing a file promises of the machine e it leaves.              *)
Enqueued(m, id, p, e) ==
  /\ Sound(e) /\ e.batch \subseteq p \cup m.batch
  /\ Held(m) \cap p \subseteq Held(e)
  /\ id \in p => id \in Held(e)
  /\ m.running => /\ e.running /\ e.batch = m.batch
                  /\ Queued(m.queue) \cup {id} \subseteq Queued(e.queue)

LEMMA EnqueueKeeps ==
  ASSUME NEW m, Sound(m), NEW id \in Files, NEW wait \in Nat, NEW p \in SUBSET Files,
         NEW s, s = EnqueueFile(m, id, wait, p)
  PROVE  Enqueued(m, id, p, s)
<1> DEFINE found == {i \in DOMAIN m.queue : m.queue[i].id = id}
           at == Least(found)
           others == IF found = {} THEN m.queue ELSE RemoveAt(m.queue, at)
           index == InsertionIndex(others, wait)
           entry == [id |-> id, wait |-> wait]
           t == InsertAt(others, index, entry)
           x == [m EXCEPT !.queue = t]
<1>1. /\ m \in Machines /\ m.queue \in Seq(Entries) /\ Ordered(m.queue)
      /\ Len(m.queue) \in Nat /\ DOMAIN m.queue = 1..Len(m.queue)
      /\ \A i \in 1..Len(m.queue) : m.queue[i].wait \in Nat
  BY EntriesTyped DEF Sound, Machines
<1>2. s = IF found # {} /\ m.queue[at].wait <= wait THEN m
          ELSE ScheduleQueue(x, index = 1, p)
  BY DEF EnqueueFile
<1>3. found # {} => at \in 1..Len(m.queue) /\ m.queue[at].id = id
  <2>1. found \in SUBSET Nat
    BY <1>1
  <2>2. ASSUME found # {} PROVE at \in found
    <3> HIDE DEF found
    <3> QED BY <2>1, <2>2, LeastExists
  <2> QED BY <1>1, <2>2
<1>4. found = {} => id \notin Queued(m.queue)
  BY DEF Queued
<1>5. found # {} => id \in Queued(m.queue)
  BY DEF Queued
<1> HIDE DEF found, at
<1>6. CASE found # {} /\ m.queue[at].wait <= wait
  BY <1>2, <1>5, <1>6 DEF Enqueued, Held
<1>7. CASE ~ (found # {} /\ m.queue[at].wait <= wait)
  <2>1. /\ others \in Seq(Entries) /\ Ordered(others) /\ id \notin Queued(others)
        /\ \A f \in Queued(m.queue) : f = id \/ f \in Queued(others)
    <3>1. CASE found = {}
      BY <1>1, <1>4, <3>1
    <3>2. CASE found # {}
      <4>1. others = RemoveAt(m.queue, at)
        BY <3>2
      <4> HIDE DEF others
      <4> QED BY <1>1, <1>3, <3>2, <4>1, RemoveKeeps
    <3> QED BY <3>1, <3>2
  <2>2. entry \in Entries /\ entry.id = id /\ entry.wait = wait
    BY DEF Entries
  <2> HIDE DEF others, entry, t, index, x
  <2>3. /\ t \in Seq(Entries) /\ Ordered(t) /\ t # <<>>
        /\ Queued(others) \subseteq Queued(t) /\ entry.id \in Queued(t)
        /\ index # 1 => Len(others) > 0 /\ t[1] = others[1]
    <3>1. entry.id \notin Queued(others)
      BY <2>1, <2>2
    <3>2. index = InsertionIndex(others, entry.wait) /\ t = InsertAt(others, index, entry)
      BY <2>2 DEF index, t
    <3> QED BY <2>1, <2>2, <3>1, <3>2, InsertKeeps
  <2>4. ASSUME index # 1 PROVE m.queue # <<>> /\ t[1].wait = m.queue[1].wait
    <3>1. CASE found = {}
      BY <2>3, <2>4, <3>1 DEF others
    <3>2. CASE found # {}
      <4>1. /\ others = RemoveAt(m.queue, at) /\ at \in 1..Len(m.queue)
            /\ wait < m.queue[at].wait
        <5>1. m.queue[at].wait \in Nat
          BY <1>1, <1>3, <3>2
        <5> QED BY <1>3, <1>7, <3>2, <5>1 DEF others
      <4>2. /\ others \in Seq(Entries) /\ Len(others) = Len(m.queue) - 1
            /\ DOMAIN others = 1..(Len(m.queue) - 1)
            /\ \A i \in 1..(Len(m.queue) - 1) :
                 /\ i < at => others[i] = m.queue[i]
                 /\ ~ (i < at) => others[i] = m.queue[i + 1]
        <5>1. m.queue \in Seq(Entries) /\ at \in 1..Len(m.queue)
              /\ others = RemoveAt(m.queue, at)
          BY <1>1, <4>1
        <5> HIDE DEF others
        <5>2. PICK q : q = m.queue
          OBVIOUS
        <5>3. /\ others \in Seq(Entries) /\ Len(others) = Len(q) - 1
              /\ DOMAIN others = 1..(Len(q) - 1)
              /\ \A i \in 1..(Len(q) - 1) :
                   (i < at => others[i] = q[i]) /\ (~ (i < at) => others[i] = q[i + 1])
          <6>1. q \in Seq(Entries) /\ at \in 1..Len(q) /\ others = RemoveAt(q, at)
            BY <5>1, <5>2
          <6> QED BY <6>1, RemoveAtPlaces
        <5> QED BY <5>2, <5>3
      <4>3. 1 \in 1..Len(others) /\ Len(others) \in Nat
        BY <1>1, <2>3, <2>4, <4>2
      <4>4. others[1].wait <= wait
        <5>1. /\ index \in 1..(Len(others) + 1)
              /\ \A i \in 1..Len(others) : others[i].wait <= wait <=> i < index
          BY <2>1, InsertionPlace DEF index
        <5>2. 1 < index
          BY <2>4, <4>3, <5>1
        <5> QED BY <4>3, <5>1, <5>2
      <4>5. at # 1
        <5>1. ASSUME at = 1 PROVE FALSE
          <6>1. others[1] = m.queue[2] /\ 1 \in 1..Len(m.queue) /\ 2 \in 1..Len(m.queue)
            BY <1>1, <4>2, <4>3, <5>1
          <6>2. m.queue[1].wait <= m.queue[2].wait
            BY <1>1, <6>1 DEF Ordered
          <6>3. m.queue[1].wait \in Nat /\ m.queue[2].wait \in Nat
            BY <1>1, <6>1
          <6> QED BY <4>1, <4>4, <5>1, <6>1, <6>2, <6>3
        <5> QED BY <5>1
      <4>6. others[1] = m.queue[1] /\ t[1] = others[1] /\ m.queue # <<>>
        BY <1>1, <2>3, <2>4, <4>1, <4>2, <4>3, <4>5
      <4> QED BY <4>6
    <3> QED BY <3>1, <3>2
  <2>5. /\ Sound(s) /\ s.batch \subseteq p \cup m.batch
        /\ Queued(t) \cap p \subseteq Held(s)
        /\ m.running => s = x
    <3>1. Scheduled(m, t, index, p, s)
      BY <1>2, <1>7 DEF x, Scheduled
    <3>2. t \in Seq(Entries) /\ Ordered(t) /\ t # <<>> /\ Sound(m)
      BY <2>3
    <3>3. index # 1 => m.queue # <<>> /\ t[1].wait = m.queue[1].wait
      BY <2>4
    <3> QED BY <3>1, <3>2, <3>3, ScheduleKeeps DEF x
  <2>6. Queued(m.queue) \cup {id} \subseteq Queued(t)
    BY <2>1, <2>2, <2>3
  <2>7. CASE m.running
    <3>1. s.queue = t /\ s.batch = m.batch /\ s.running
      BY <1>1, <2>5, <2>7 DEF x, Machines
    <3> QED BY <2>5, <2>6, <2>7, <3>1 DEF Enqueued, Held
  <2>8. CASE ~ m.running
    <3>1. Held(m) = Queued(m.queue)
      BY <2>8 DEF Sound, Held
    <3> QED BY <2>5, <2>6, <2>8, <3>1 DEF Enqueued
  <2> QED BY <2>7, <2>8
<1> QED BY <1>6, <1>7

-----------------------------------------------------------------------------
(* Resuming: a file after the other is queued.                              *)

Resumed(m, p, order, n, a) ==
  a = [k \in 0..n |-> IF k = 0 THEN m ELSE EnqueueFile(a[k - 1], order[k], 0, p)]

LEMMA ResumedExists ==
  ASSUME NEW m, NEW p, NEW order, NEW last \in Nat
  PROVE  \E a : Resumed(m, p, order, last, a)
<1> DEFINE bad == {n \in Nat : ~ \E a : Resumed(m, p, order, n, a)}
<1>1. SUFFICES ASSUME bad # {} PROVE FALSE
  OBVIOUS
<1>2. PICK n \in bad : \A k \in bad : n <= k
  BY <1>1, LeastExists
<1>3. Resumed(m, p, order, 0, [k \in 0..0 |-> m])
  BY DEF Resumed
<1>4. n # 0 /\ n \in Nat
  BY <1>2, <1>3
<1>5. n - 1 \in Nat /\ n - 1 \notin bad
  BY <1>2, <1>4
<1>6. PICK a : Resumed(m, p, order, n - 1, a)
  BY <1>5
<1> DEFINE b == [k \in 0..n |-> IF k = n THEN EnqueueFile(a[n - 1], order[n], 0, p) ELSE a[k]]
<1>7. \A k \in 0..(n - 1) :
        a[k] = IF k = 0 THEN m ELSE EnqueueFile(a[k - 1], order[k], 0, p)
  BY <1>6 DEF Resumed
<1>8. \A k \in 0..n : b[k] = IF k = 0 THEN m ELSE EnqueueFile(b[k - 1], order[k], 0, p)
  <2>1. ASSUME NEW k \in 0..n
        PROVE  b[k] = IF k = 0 THEN m ELSE EnqueueFile(b[k - 1], order[k], 0, p)
    <3>1. CASE k = n
      <4>1. n - 1 \in 0..n /\ n - 1 # n
        BY <1>4
      <4>2. b[n - 1] = a[n - 1]
        BY <4>1
      <4> QED BY <1>4, <3>1, <4>2
    <3>2. CASE k # n
      <4>1. k \in 0..(n - 1)
        BY <1>4, <3>2
      <4>2. b[k] = a[k]
        BY <3>2
      <4>3. k # 0 => b[k - 1] = a[k - 1]
        BY <1>4, <4>1
      <4> QED BY <1>7, <4>1, <4>2, <4>3
    <3> QED BY <3>1, <3>2
  <2> QED BY <2>1
<1>9. Resumed(m, p, order, n, b)
  <2>1. b = [k \in 0..n |-> b[k]]
    OBVIOUS
  <2> HIDE DEF b
  <2> QED BY <1>8, <2>1 DEF Resumed
<1> QED BY <1>2, <1>9

LEMMA ResumeKeeps ==
  ASSUME NEW m, Sound(m), NEW p \in SUBSET Files, NEW order \in Orders(p),
         NEW r, r = Resume(m, p, order)
  PROVE  /\ Sound(r) /\ r.batch \subseteq p \cup m.batch /\ p \subseteq Held(r)
         /\ m.running => r.running /\ r.batch = m.batch /\ p \subseteq Queued(r.queue)
<1> DEFINE last == Len(order)
<1>1. last \in Nat /\ order \in [1..last -> p] /\ p = {order[i] : i \in 1..last}
  <2>1. Cardinality(p) \in Nat
    BY ConstantsAssumption, FS_Subset, FS_CardinalityType
  <2>2. order \in [1..Cardinality(p) -> p] /\ Range(order) = p
    BY DEF Orders
  <2>3. order \in Seq(p) /\ Len(order) = Cardinality(p)
    BY <2>1, <2>2
  <2> QED BY <2>1, <2>2, <2>3 DEF Range
<1> HIDE DEF last
<1>2. PICK a : Resumed(m, p, order, last, a) /\ r = a[last]
  <2>1. \E a : Resumed(m, p, order, last, a)
    BY <1>1, ResumedExists
  <2> DEFINE a == CHOOSE a : a = [k \in 0..last |-> IF k = 0 THEN m
                                    ELSE EnqueueFile(a[k - 1], order[k], 0, p)]
  <2>2. Resumed(m, p, order, last, a)
    BY <2>1 DEF Resumed
  <2>3. r = a[last]
    BY DEF Resume, last
  <2> QED BY <2>2, <2>3
<1>3. /\ a[0] = m
      /\ \A k \in 1..last : a[k] = EnqueueFile(a[k - 1], order[k], 0, p)
  <2>1. \A k \in 0..last : a[k] = IF k = 0 THEN m ELSE EnqueueFile(a[k - 1], order[k], 0, p)
    BY <1>2 DEF Resumed
  <2> QED BY <1>1, <2>1
<1> DEFINE Good(k) ==
      /\ Sound(a[k]) /\ a[k].batch \subseteq p \cup m.batch
      /\ \A i \in 1..k : order[i] \in Held(a[k])
      /\ m.running => /\ a[k].running /\ a[k].batch = m.batch
                      /\ \A i \in 1..k : order[i] \in Queued(a[k].queue)
<1>4. Good(0)
  BY <1>3
<1>5. ASSUME NEW k \in 1..last, Good(k - 1) PROVE Good(k)
  <2>1. k - 1 \in Nat /\ order[k] \in p /\ order[k] \in Files /\ 0 \in Nat
    BY <1>1
  <2>2. a[k] = EnqueueFile(a[k - 1], order[k], 0, p)
    BY <1>3
  <2>3. Sound(a[k - 1])
    BY <1>5
  <2>4. Enqueued(a[k - 1], order[k], p, a[k])
    BY <2>1, <2>2, <2>3, EnqueueKeeps
  <2>5. \A i \in 1..k : i = k \/ i \in 1..(k - 1)
    BY <1>1
  <2>6. \A i \in 1..k : order[i] \in p
    BY <1>1
  <2> QED BY <1>5, <2>1, <2>4, <2>5, <2>6 DEF Enqueued
<1>6. Good(last)
  <2> DEFINE bad == {k \in 0..last : ~ Good(k)}
  <2> HIDE DEF Good
  <2>1. SUFFICES ASSUME bad # {} PROVE FALSE
    BY <1>1
  <2>2. PICK k \in bad : \A j \in bad : k <= j
    <3>1. bad \in SUBSET Nat
      BY <1>1
    <3> QED BY <2>1, <3>1, LeastExists
  <2>3. k # 0
    BY <1>4, <2>2
  <2>4. k \in 1..last /\ k - 1 \in 0..last /\ ~ (k <= k - 1)
    BY <1>1, <2>2, <2>3
  <2>5. Good(k - 1)
    BY <2>2, <2>4
  <2> QED BY <1>5, <2>2, <2>4, <2>5
<1> QED BY <1>1, <1>2, <1>6

-----------------------------------------------------------------------------
(* The inductive invariant.  A row that is pending, and one that a batch    *)
(* works from, has attempts left: what is given up is never pending again.  *)

Steps == {"download", "write", "finish", "done"}
RowsTyped == files \in [Files -> Rows] /\ repairs \in SUBSET Files
WorkTyped == work \in [machine.batch -> [step: Steps, row: Rows]]
AttemptsLeft ==
  /\ \A f \in Pending : files[f].attempts < AttemptLimit
  /\ \A f \in machine.batch : work[f].row.attempts < AttemptLimit

Inv == RowsTyped /\ Sound(machine) /\ WorkTyped /\ AttemptsLeft /\ PendingIsTracked

LEMMA InvMeans ==
  ASSUME Inv
  PROVE  TypeOK /\ FilesAreScheduled
<1>1. QueueIsOrdered
  BY DEF Inv, Sound, Ordered, QueueIsOrdered
<1>2. TimerMatchesQueue
  BY DEF Inv, Sound, TimerFor, TimerMatchesQueue
<1>3. machine \in [queue: Seq(Entries), timer: {NoTimer} \cup Nat, running: BOOLEAN,
                   batch: SUBSET Files]
  BY DEF Inv, Sound, Machines
<1>4. TypeOK
  BY <1>3 DEF Inv, RowsTyped, WorkTyped, Steps, TypeOK
<1> QED BY <1>1, <1>2, <1>4 DEF Inv, FilesAreScheduled

LEMMA IdleSound == Sound(Idle(<<>>)) /\ Queued(<<>>) = {}
<1>1. <<>> \in Seq(Entries) /\ DOMAIN <<>> = {}
  BY EmptySeq, LenProperties
<1>2. Ordered(<<>>) /\ Queued(<<>>) = {}
  BY <1>1 DEF Ordered, Queued
<1>3. Idle(<<>>) = [queue |-> <<>>, timer |-> NoTimer, running |-> FALSE, batch |-> {}]
  BY DEF Idle
<1>4. TimerFor(<<>>) = NoTimer
  BY DEF TimerFor
<1>5. Idle(<<>>) \in Machines
  <2>1. \A q \in Seq(Entries) : Idle(q) \in Machines
    BY DEF Idle, Machines
  <2> QED BY <1>1, <2>1
<1> QED BY <1>2, <1>3, <1>4, <1>5 DEF Sound

LEMMA InitInv == Init => Inv
<1> SUFFICES ASSUME Init PROVE Inv
  OBVIOUS
<1>1. AttemptLimit \in Nat \ {0}
  BY ConstantsAssumption
<1>2. RowsTyped /\ Pending = {}
  BY <1>1 DEF Init, RowsTyped, Rows, NoFile, Pending
<1>3. machine.batch = {} /\ Sound(machine)
  BY IdleSound DEF Init, Idle
<1>4. DOMAIN work = {} /\ work = [f \in {} |-> work[f]]
  BY DEF Init
<1>5. WorkTyped
  BY <1>3, <1>4 DEF WorkTyped
<1> QED BY <1>2, <1>3, <1>5 DEF Inv, AttemptsLeft, PendingIsTracked

(* A batch is taken from the files p that are pending.                      *)
LEMMA StartKeeps ==
  ASSUME RowsTyped', NEW p, p = Pending', \A f \in p : files'[f].attempts < AttemptLimit,
         Sound(machine)', machine'.batch \subseteq p, p \subseteq Held(machine'),
         work' = [f \in machine'.batch |-> [step |-> "download", row |-> files'[f]]]
  PROVE  Inv'
<1>1. machine'.batch \subseteq Files /\ p \subseteq Files
  BY DEF Sound, Machines, Pending
<1>2. \A f \in machine'.batch : files'[f] \in Rows
  BY <1>1 DEF RowsTyped
<1>3. WorkTyped'
  BY <1>2 DEF WorkTyped, Steps
<1>4. AttemptsLeft'
  BY <1>3 DEF AttemptsLeft
<1>5. PendingIsTracked'
  <2>1. ASSUME NEW f \in Pending'
        PROVE  \/ \E i \in DOMAIN machine'.queue : machine'.queue[i].id = f
               \/ f \in DOMAIN work' /\ work'[f].step # "done"
    BY DEF Held, Queued
  <2> QED BY <2>1 DEF PendingIsTracked
<1> QED BY <1>3, <1>4, <1>5 DEF Inv

LEMMA PendingCounted ==
  ASSUME Inv
  PROVE  \A f \in Pending : files[f].attempts < AttemptLimit
BY DEF Inv, AttemptsLeft

(* What is not in work, or done, waits in the queue.                        *)
LEMMA PendingQueued ==
  ASSUME Inv, NEW f \in Pending
  PROVE  \/ f \in Queued(machine.queue)
         \/ f \in machine.batch /\ work[f].step # "done"
<1>1. DOMAIN work = machine.batch
  BY DEF Inv, WorkTyped
<1> QED BY <1>1 DEF Inv, PendingIsTracked, Queued

LEMMA DeliverKeeps ==
  ASSUME Inv, NEW f \in Files, Deliver(f)
  PROVE  Inv'
<1> DEFINE p == Pending \cup {g \in {f} : files'[g].status = "pending"}
<1>1. files \in [Files -> Rows] /\ AttemptLimit \in Nat \ {0}
  BY ConstantsAssumption DEF Inv, RowsTyped
<1>2. files' = [files EXCEPT ![f] = IF @.status \in {"none", "failed"} THEN FreshFile ELSE @]
  BY DEF Deliver
<1>3. FreshFile \in Rows /\ FreshFile.status = "pending" /\ FreshFile.attempts = 0
  BY <1>1 DEF FreshFile, Rows
<1>4. RowsTyped'
  BY <1>1, <1>2, <1>3 DEF Deliver, Inv, RowsTyped
<1>5. p = Pending' /\ p \in SUBSET Files
  <2>1. \A g \in Files : g # f => files'[g] = files[g]
    BY <1>1, <1>2
  <2>2. files[f].status = "pending" => files'[f] = files[f]
    BY <1>1, <1>2
  <2> QED BY <2>1, <2>2 DEF Pending
<1>6. \A g \in p : files'[g].attempts < AttemptLimit
  <2>1. ASSUME NEW g \in p PROVE files'[g].attempts < AttemptLimit
    <3>1. CASE files'[g] = files[g]
      BY <1>5, <3>1, PendingCounted DEF Pending
    <3>2. CASE files'[g] # files[g]
      BY <1>1, <1>2, <1>3, <1>5, <3>2 DEF Pending
    <3> QED BY <3>1, <3>2
  <2> QED BY <2>1
<1>7. PICK order \in Orders(p) : Become(Resume(machine, p, order))
  <2>1. {g \in {f} : files'[f].status = "pending"} = {g \in {f} : files'[g].status = "pending"}
    OBVIOUS
  <2> QED BY <2>1 DEF Deliver
<1> DEFINE r == Resume(machine, p, order)
<1>8. /\ Sound(r) /\ r.batch \subseteq p \cup machine.batch /\ p \subseteq Held(r)
      /\ machine.running => r.running /\ r.batch = machine.batch /\ p \subseteq Queued(r.queue)
  <2> HIDE DEF p
  <2> QED BY <1>5, ResumeKeeps DEF Inv
<1>9. machine' = r /\ work' = IF machine.running THEN work ELSE Started(r)
  BY <1>7 DEF Become
<1> HIDE DEF p, r
<1>10. CASE machine.running
  <2>1. work' = work /\ machine'.batch = machine.batch /\ Sound(machine)'
    BY <1>8, <1>9, <1>10
  <2>2. WorkTyped'
    BY <2>1 DEF Inv, WorkTyped
  <2>3. AttemptsLeft'
    BY <1>5, <1>6, <2>1 DEF Inv, AttemptsLeft
  <2>4. PendingIsTracked'
    BY <1>5, <1>8, <1>9, <1>10 DEF PendingIsTracked, Queued
  <2> QED BY <1>4, <2>1, <2>2, <2>3, <2>4 DEF Inv
<1>11. CASE ~ machine.running
  <2>1. machine.batch = {}
    BY <1>11 DEF Inv, Sound
  <2>2. work' = [g \in machine'.batch |-> [step |-> "download", row |-> files'[g]]]
    BY <1>9, <1>11 DEF Started
  <2>3. Sound(machine)' /\ machine'.batch \subseteq p /\ p \subseteq Held(machine')
    BY <1>8, <1>9, <2>1
  <2> QED BY <1>4, <1>5, <1>6, <2>2, <2>3, StartKeeps
<1> QED BY <1>10, <1>11

LEMMA DeleteKeeps ==
  ASSUME Inv, NEW f \in Files, Delete(f)
  PROVE  Inv'
<1>1. /\ files \in [Files -> Rows] /\ files' = [files EXCEPT ![f] = NoFile]
      /\ machine' = machine /\ work' = work /\ repairs' = repairs
  BY DEF Inv, RowsTyped, Delete
<1>2. NoFile \in Rows /\ NoFile.status = "none"
  BY ConstantsAssumption DEF NoFile, Rows
<1>3. RowsTyped'
  BY <1>1, <1>2 DEF Inv, RowsTyped
<1>4. \A g \in Pending' : g \in Pending /\ files'[g] = files[g]
  BY <1>1, <1>2 DEF Pending
<1>5. AttemptsLeft'
  BY <1>1, <1>4 DEF Inv, AttemptsLeft
<1>6. PendingIsTracked'
  BY <1>1, <1>4 DEF Inv, PendingIsTracked
<1> QED BY <1>1, <1>3, <1>5, <1>6 DEF Inv, WorkTyped, Sound

LEMMA TickKeeps ==
  ASSUME Inv, Tick
  PROVE  Inv'
<1> DEFINE q == machine.queue
           sooner(w) == IF w > 0 THEN w - 1 ELSE 0
           t == [i \in DOMAIN q |-> [q[i] EXCEPT !.wait = IF @ > 0 THEN @ - 1 ELSE 0]]
           timer == IF machine.timer = NoTimer THEN NoTimer ELSE machine.timer - 1
<1>1. /\ machine \in Machines /\ q \in Seq(Entries) /\ Ordered(q)
      /\ Len(q) \in Nat /\ DOMAIN q = 1..Len(q)
      /\ \A i \in 1..Len(q) : q[i] \in Entries
  BY EntriesTyped DEF Inv, Sound, Machines
<1>2. machine' = [queue |-> t, timer |-> timer, running |-> machine.running,
                  batch |-> machine.batch]
  <2>1. machine' = [machine EXCEPT !.queue = t, !.timer = timer]
    BY DEF Tick
  <2> HIDE DEF q, t, timer
  <2> QED BY <1>1, <2>1 DEF Machines
<1>3. /\ files' = files /\ work' = work /\ repairs' = repairs
      /\ machine.timer # 0 /\ q # <<>>
  <2>1. PICK i \in DOMAIN q : q[i].wait > 0
    BY DEF Tick
  <2>2. 1..Len(q) # {}
    BY <1>1, <2>1
  <2>3. Len(q) # 0
    BY <2>2
  <2> HIDE DEF q
  <2> QED BY <1>1, <2>3, EmptySeq DEF Tick
<1>4. \A i \in DOMAIN q : t[i] \in Entries /\ t[i].id = q[i].id /\ t[i].wait = sooner(q[i].wait)
  BY <1>1 DEF Entries
<1>5. t \in Seq(Entries) /\ DOMAIN t = DOMAIN q
  <2>1. t \in [1..Len(q) -> Entries]
    BY <1>1, <1>4
  <2> HIDE DEF t, q
  <2> QED BY <1>1, <2>1
<1> HIDE DEF t
<1>6. Ordered(t)
  <2>1. ASSUME NEW i \in DOMAIN t, NEW j \in DOMAIN t, i < j
        PROVE  t[i].wait <= t[j].wait /\ t[i].id # t[j].id
    <3>1. q[i].wait <= q[j].wait /\ q[i].id # q[j].id
      BY <1>1, <1>5, <2>1 DEF Ordered
    <3>2. q[i].wait \in Nat /\ q[j].wait \in Nat
      BY <1>1, <1>5 DEF Entries
    <3> QED BY <1>4, <1>5, <3>1, <3>2
  <2> QED BY <2>1 DEF Ordered
<1>7. timer = IF machine.running THEN NoTimer ELSE TimerFor(t)
  <2>1. machine.timer = IF machine.running THEN NoTimer ELSE q[1].wait
    BY <1>3 DEF Inv, Sound, TimerFor
  <2>2. 1 \in DOMAIN q /\ q[1].wait \in Nat /\ t # <<>>
    <3>1. 1 \in DOMAIN q
      <4> HIDE DEF q
      <4> QED BY <1>1, <1>3, EmptySeq
    <3>2. t # <<>>
      BY <1>5, <3>1
    <3> QED BY <1>1, <3>1, <3>2 DEF Entries
  <2>3. TimerFor(t) = t[1].wait /\ t[1].wait = sooner(q[1].wait)
    BY <1>4, <2>2 DEF TimerFor
  <2> HIDE DEF q
  <2> QED BY <1>3, <2>1, <2>2, <2>3, ConstantsAssumption
<1>8. timer \in {NoTimer} \cup Nat
  BY <1>1, <1>3 DEF Machines
<1> HIDE DEF timer
<1>9. Sound(machine)'
  <2>1. machine' \in Machines
    BY <1>1, <1>2, <1>5, <1>8 DEF Machines
  <2>2. ~ machine.running => machine.batch = {}
    BY DEF Inv, Sound
  <2> QED BY <1>2, <1>6, <1>7, <2>1, <2>2 DEF Sound
<1>10. PendingIsTracked'
  <2>1. \A f \in Pending : f \in Queued(q) \/ (f \in machine.batch /\ work[f].step # "done")
    BY PendingQueued
  <2>2. Queued(q) \subseteq Queued(t)
    BY <1>4, <1>5 DEF Queued
  <2>3. DOMAIN work = machine.batch /\ Pending' = Pending
    BY <1>3 DEF Inv, WorkTyped, Pending
  <2> QED BY <1>2, <1>3, <2>1, <2>2, <2>3 DEF PendingIsTracked, Queued
<1> QED BY <1>2, <1>3, <1>9, <1>10 DEF Inv, RowsTyped, WorkTyped, AttemptsLeft, Pending

LEMMA TimerFiresKeeps ==
  ASSUME Inv, TimerFires
  PROVE  Inv'
<1> DEFINE m == [machine EXCEPT !.timer = NoTimer]
<1>1. /\ machine \in Machines /\ machine.timer = 0 /\ ~ machine.running
      /\ machine.queue \in Seq(Entries) /\ Ordered(machine.queue) /\ machine.batch = {}
  BY ConstantsAssumption DEF TimerFires, Inv, Sound, Machines
<1>2. m.queue = machine.queue
  BY <1>1 DEF Machines
<1>3. /\ files' = files /\ repairs' = repairs /\ Pending' = Pending /\ Pending \in SUBSET Files
      /\ machine' = DrainOn(m, Pending)
      /\ work' = [f \in machine'.batch |-> [step |-> "download", row |-> files'[f]]]
  BY <1>1 DEF TimerFires, Become, Started, Pending
<1> HIDE DEF m
<1>4. /\ Sound(machine') /\ machine'.batch \subseteq Pending
      /\ Queued(machine.queue) \cap Pending \subseteq Held(machine')
  BY <1>1, <1>2, <1>3, DrainKeeps
<1>5. Pending \subseteq Held(machine')
  BY <1>1, <1>4, PendingQueued
<1>6. \A f \in Pending' : files'[f].attempts < AttemptLimit
  BY <1>3, PendingCounted
<1>7. RowsTyped'
  BY <1>3 DEF Inv, RowsTyped
<1>8. Sound(machine)'
  BY <1>4
<1> QED BY <1>3, <1>4, <1>5, <1>6, <1>7, <1>8, StartKeeps

LEMMA BatchDoneKeeps ==
  ASSUME Inv, BatchDone
  PROVE  Inv'
<1>1. /\ machine \in Machines /\ machine.queue \in Seq(Entries) /\ Ordered(machine.queue)
      /\ DOMAIN work = machine.batch /\ \A f \in DOMAIN work : work[f].step = "done"
  BY DEF BatchDone, Inv, Sound, Machines, WorkTyped
<1>2. /\ files' = files /\ repairs' = repairs /\ Pending' = Pending /\ Pending \in SUBSET Files
      /\ machine' = DrainOn(machine, Pending)
      /\ work' = [f \in machine'.batch |-> [step |-> "download", row |-> files'[f]]]
  BY DEF BatchDone, Pending
<1>3. /\ Sound(machine') /\ machine'.batch \subseteq Pending
      /\ Queued(machine.queue) \cap Pending \subseteq Held(machine')
  BY <1>1, <1>2, DrainKeeps
<1>4. Pending \subseteq Held(machine')
  BY <1>1, <1>3, PendingQueued
<1>5. \A f \in Pending' : files'[f].attempts < AttemptLimit
  BY <1>2, PendingCounted
<1>6. RowsTyped'
  BY <1>2 DEF Inv, RowsTyped
<1>7. Sound(machine)'
  BY <1>3
<1> QED BY <1>2, <1>3, <1>4, <1>5, <1>6, <1>7, StartKeeps

LEMMA RestartKeeps ==
  ASSUME Inv, Restart
  PROVE  Inv'
<1>1. PICK order \in Orders(Pending) :
        /\ machine' = Resume(Idle(<<>>), Pending, order)
        /\ work' = [f \in machine'.batch |-> [step |-> "download", row |-> files[f]]]
  BY DEF Restart
<1>2. files' = files /\ repairs' = repairs /\ Pending' = Pending /\ Pending \in SUBSET Files
  BY DEF Restart, Pending
<1>3. /\ Sound(machine') /\ machine'.batch \subseteq Pending \cup Idle(<<>>).batch
      /\ Pending \subseteq Held(machine')
  BY <1>1, <1>2, IdleSound, ResumeKeeps
<1>4. Idle(<<>>).batch = {}
  BY DEF Idle
<1>5. \A f \in Pending' : files'[f].attempts < AttemptLimit
  BY <1>2, PendingCounted
<1>6. RowsTyped'
  BY <1>2 DEF Inv, RowsTyped
<1>7. Sound(machine)'
  BY <1>3
<1> QED BY <1>1, <1>2, <1>3, <1>4, <1>5, <1>6, <1>7, StartKeeps

(* The files of a batch, one by one.                                        *)
LEMMA InWork ==
  ASSUME Inv, NEW f \in DOMAIN work
  PROVE  /\ DOMAIN work = machine.batch /\ f \in Files /\ machine.running
         /\ files \in [Files -> Rows] /\ work[f] \in [step: Steps, row: Rows]
         /\ work[f].row.attempts \in Nat /\ work[f].row.attempts < AttemptLimit
         /\ AttemptLimit \in Nat
<1>1. DOMAIN work = machine.batch /\ work[f] \in [step: Steps, row: Rows]
  BY DEF Inv, WorkTyped
<1>2. f \in machine.batch /\ f \in Files /\ machine.running
  BY <1>1 DEF Inv, Sound, Machines
<1>3. work[f].row.attempts \in 0..AttemptLimit /\ work[f].row.attempts < AttemptLimit
  BY <1>1, <1>2 DEF Inv, AttemptsLeft, Rows
<1> QED BY <1>1, <1>2, <1>3, ConstantsAssumption DEF Inv, RowsTyped

LEMMA GoKeeps ==
  ASSUME Inv, NEW f \in DOMAIN work, NEW step \in Steps, Go(f, step)
  PROVE  /\ work' \in [machine.batch -> [step: Steps, row: Rows]]
         /\ \A g \in machine.batch : work'[g].row = work[g].row
         /\ \A g \in machine.batch : g # f => work'[g] = work[g]
         /\ work'[f].step = step
<1>1. /\ work \in [machine.batch -> [step: Steps, row: Rows]] /\ f \in machine.batch
  BY InWork DEF Inv, WorkTyped
<1>2. work' = [work EXCEPT ![f].step = step]
  BY DEF Go
<1>3. work'[f] = [step |-> step, row |-> work[f].row]
  BY <1>1, <1>2
<1>4. work' \in [machine.batch -> [step: Steps, row: Rows]]
  BY <1>1, <1>2
<1> QED BY <1>1, <1>2, <1>3, <1>4

(* A step of the processing of a file that leaves the queue alone, and its  *)
(* row as it is or not pending.                                             *)
LEMMA StepKeeps ==
  ASSUME Inv, NEW f \in DOMAIN work, NEW step \in Steps, Go(f, step),
         machine' = machine, repairs' \in SUBSET Files,
         files' \in [Files -> Rows],
         \A g \in Files : g # f => files'[g] = files[g],
         files'[f].status = "pending" =>
           /\ files[f].status = "pending" /\ files'[f].attempts = files[f].attempts
           /\ step # "done"
  PROVE  Inv'
<1>1. /\ work' \in [machine.batch -> [step: Steps, row: Rows]]
      /\ \A g \in machine.batch : work'[g].row = work[g].row
      /\ \A g \in machine.batch : g # f => work'[g] = work[g]
      /\ work'[f].step = step
  BY GoKeeps
<1>2. f \in Files /\ DOMAIN work = machine.batch
  BY InWork
<1>3. \A g \in Pending' : g \in Pending /\ files'[g].attempts = files[g].attempts
  BY <1>2 DEF Pending
<1>4. AttemptsLeft'
  BY <1>1, <1>3 DEF Inv, AttemptsLeft
<1>5. PendingIsTracked'
  <2>1. ASSUME NEW g \in Pending', g \notin Queued(machine.queue)
        PROVE  g \in DOMAIN work' /\ work'[g].step # "done"
    <3>1. g \in machine.batch /\ work[g].step # "done"
      BY <1>3, <2>1, PendingQueued
    <3>2. g = f => step # "done"
      BY DEF Pending
    <3> QED BY <1>1, <3>1, <3>2
  <2> QED BY <2>1 DEF PendingIsTracked, Queued
<1>6. Sound(machine)' /\ WorkTyped' /\ RowsTyped'
  BY <1>1 DEF Inv, WorkTyped, RowsTyped
<1> QED BY <1>4, <1>5, <1>6 DEF Inv

LEMMA BackoffTyped ==
  ASSUME NEW attempts
  PROVE  Backoff(attempts) \in Nat
<1> DEFINE waits == {w \in 1..BackoffLimit : w = BackoffLimit \/ w = 2 ^ attempts}
<1>1. waits \in SUBSET Nat /\ BackoffLimit \in waits
  BY ConstantsAssumption
<1>2. Least(waits) \in waits
  <2> HIDE DEF waits
  <2> QED BY <1>1, LeastExists
<1> QED BY <1>1, <1>2 DEF Backoff

(* A file that failed is given up, or queued again with attempts left.      *)
LEMMA FailKeeps ==
  ASSUME Inv, NEW f \in DOMAIN work, NEW permanent \in BOOLEAN, NEW repair \in BOOLEAN,
         ~ permanent => ~ GivenUp(f), Fail(f, permanent, repair)
  PROVE  Inv'
<1> DEFINE attempts == work[f].row.attempts + 1
<1>1. /\ DOMAIN work = machine.batch /\ f \in Files /\ machine.running
      /\ files \in [Files -> Rows]
      /\ attempts \in 0..AttemptLimit /\ (~ permanent => attempts < AttemptLimit)
  BY InWork DEF GivenUp
<1>2. /\ files' = [files EXCEPT ![f] =
            IF @.status = "none" THEN @
            ELSE [@ EXCEPT !.status = IF permanent THEN "failed" ELSE "pending",
                           !.attempts = attempts]]
      /\ machine' = IF permanent THEN machine ELSE QueueRetry(f, attempts)
      /\ repairs' = IF repair THEN repairs \cup {f} ELSE repairs
      /\ Go(f, "done") /\ "done" \in Steps
  BY DEF Fail, Steps
<1> HIDE DEF attempts
<1>3. repairs' \in SUBSET Files
  BY <1>1, <1>2 DEF Inv, RowsTyped
<1>4. /\ files' \in [Files -> Rows]
      /\ \A g \in Files : g # f => files'[g] = files[g]
      /\ files'[f].status = "pending" => ~ permanent /\ files'[f].attempts = attempts
  <2>1. files[f] \in Rows
    BY <1>1
  <2>2. CASE files[f].status = "none"
    BY <1>1, <1>2, <2>2
  <2>3. CASE files[f].status # "none"
    <3>1. files'[f] = [status |-> IF permanent THEN "failed" ELSE "pending",
                       source |-> files[f].source, attempts |-> attempts]
      BY <1>1, <1>2, <2>1, <2>3 DEF Rows
    <3>2. files'[f] \in Rows
      BY <1>1, <2>1, <3>1 DEF Rows
    <3>3. /\ DOMAIN files' = Files
          /\ \A g \in Files : g # f => files'[g] = files[g]
          /\ files' = [g \in Files |-> files'[g]]
      BY <1>1, <1>2
    <3> QED BY <1>1, <3>1, <3>2, <3>3
  <2> QED BY <2>2, <2>3
<1>5. CASE permanent
  <2>1. machine' = machine
    BY <1>2, <1>5
  <2> QED BY <1>2, <1>3, <1>4, <1>5, <2>1, StepKeeps
<1>6. CASE ~ permanent
  <2>1. machine' = EnqueueFile(machine, f, Backoff(attempts), Pending)
    BY <1>2, <1>6 DEF QueueRetry
  <2>2. Pending \in SUBSET Files /\ Backoff(attempts) \in Nat /\ Sound(machine)
    BY BackoffTyped DEF Pending, Inv
  <2>3. Enqueued(machine, f, Pending, machine')
    BY <1>1, <2>1, <2>2, EnqueueKeeps
  <2>4. /\ Sound(machine)' /\ machine'.batch = machine.batch
        /\ Queued(machine.queue) \cup {f} \subseteq Queued(machine'.queue)
    BY <1>1, <2>3 DEF Enqueued
  <2>5. /\ work' \in [machine.batch -> [step: Steps, row: Rows]]
        /\ \A g \in machine.batch : work'[g].row = work[g].row
        /\ \A g \in machine.batch : g # f => work'[g] = work[g]
    BY <1>2, GoKeeps
  <2>6. \A g \in Pending' : g = f \/ (g \in Pending /\ files'[g] = files[g])
    BY <1>4 DEF Pending
  <2>7. AttemptsLeft'
    BY <1>1, <1>4, <1>6, <2>4, <2>5, <2>6 DEF Inv, AttemptsLeft, Pending
  <2>8. PendingIsTracked'
    <3>1. ASSUME NEW g \in Pending', g \notin Queued(machine'.queue)
          PROVE  g \in DOMAIN work' /\ work'[g].step # "done"
      <4>1. g # f /\ g \in Pending /\ g \notin Queued(machine.queue)
        BY <2>4, <2>6, <3>1
      <4>2. g \in machine.batch /\ work[g].step # "done"
        BY <4>1, PendingQueued
      <4> QED BY <2>5, <4>1, <4>2
    <3> QED BY <3>1 DEF PendingIsTracked, Queued
  <2>9. WorkTyped' /\ RowsTyped'
    BY <1>3, <1>4, <2>4, <2>5 DEF WorkTyped, RowsTyped
  <2> QED BY <2>4, <2>7, <2>8, <2>9 DEF Inv
<1> QED BY <1>5, <1>6

LEMMA WriteOutputKeeps ==
  ASSUME Inv, NEW f \in Files, WriteOutput(f)
  PROVE  Inv'
<1>1. PICK output \in {"output", "missing"} :
        files' = [files EXCEPT ![f] = IF @.status = "none" THEN @ ELSE [@ EXCEPT !.source = output]]
  BY DEF WriteOutput
<1>2. /\ f \in DOMAIN work /\ Go(f, "finish") /\ "finish" \in Steps /\ "finish" # "done"
      /\ machine' = machine /\ repairs' \in SUBSET Files
  BY DEF WriteOutput, At, Steps, Inv, RowsTyped
<1>3. files \in [Files -> Rows] /\ files[f] \in Rows
  BY <1>2, InWork
<1>4. files'[f] \in Rows /\ files'[f].status = files[f].status
      /\ files'[f].attempts = files[f].attempts
  BY <1>1, <1>3 DEF Rows
<1>5. files' \in [Files -> Rows] /\ \A g \in Files : g # f => files'[g] = files[g]
  BY <1>1, <1>3, <1>4
<1> QED BY <1>2, <1>4, <1>5, StepKeeps

LEMMA MarkReadyKeeps ==
  ASSUME Inv, NEW f \in Files, MarkReady(f)
  PROVE  Inv'
<1>1. /\ f \in DOMAIN work /\ Go(f, "done") /\ "done" \in Steps
      /\ machine' = machine /\ repairs' \in SUBSET Files
      /\ files' = [files EXCEPT ![f] =
            IF @.status = "none" THEN @
            ELSE [status |-> "ready", source |-> "output", attempts |-> work[f].row.attempts + 1]]
  BY DEF MarkReady, At, Steps, Inv, RowsTyped
<1>2. files \in [Files -> Rows] /\ work[f].row.attempts + 1 \in 0..AttemptLimit
  BY <1>1, InWork
<1>3. files'[f] \in Rows /\ files'[f].status # "pending"
  BY <1>1, <1>2 DEF Rows
<1>4. files' \in [Files -> Rows] /\ \A g \in Files : g # f => files'[g] = files[g]
  BY <1>1, <1>2, <1>3
<1> QED BY <1>1, <1>3, <1>4, StepKeeps

LEMMA ProcessKeeps ==
  ASSUME Inv, NEW f \in Files, Process(f)
  PROVE  Inv'
<1>1. CASE MissingSource(f)
  <2>1. f \in DOMAIN work /\ Fail(f, TRUE, TRUE)
    BY <1>1 DEF MissingSource, At
  <2> QED BY <2>1, FailKeeps
<1>2. CASE Downloaded(f)
  <2>1. /\ f \in DOMAIN work /\ Go(f, "write") /\ "write" \in Steps /\ machine' = machine
        /\ files' = files /\ repairs' = repairs /\ "write" # "done"
    BY <1>2 DEF Downloaded, At, Steps
  <2> QED BY <2>1, StepKeeps DEF Inv, RowsTyped
<1>3. CASE WriteOutput(f)
  BY <1>3, WriteOutputKeeps
<1>4. CASE MarkReady(f)
  BY <1>4, MarkReadyKeeps
<1>5. ASSUME NEW repairable \in BOOLEAN, DownloadRejected(f, repairable)
      PROVE  Inv'
  <2> DEFINE permanent == f \notin Managed \/ GivenUp(f)
             repair == repairable /\ f \notin Managed
  <2>1. f \in DOMAIN work /\ Fail(f, permanent, repair) /\ permanent \in BOOLEAN
        /\ repair \in BOOLEAN /\ (~ permanent => ~ GivenUp(f))
    BY <1>5 DEF DownloadRejected, At
  <2> HIDE DEF permanent, repair
  <2> QED BY <2>1, FailKeeps
<1>6. CASE DownloadFailed(f)
  <2>1. f \in DOMAIN work /\ Fail(f, GivenUp(f), FALSE)
    BY <1>6 DEF DownloadFailed, At
  <2>2. GivenUp(f) \in BOOLEAN
    BY DEF GivenUp
  <2> QED BY <2>1, <2>2, FailKeeps
<1>7. CASE FinishFails(f)
  <2>1. f \in DOMAIN work /\ Fail(f, GivenUp(f), FALSE)
    BY <1>7 DEF FinishFails, At
  <2>2. GivenUp(f) \in BOOLEAN
    BY DEF GivenUp
  <2> QED BY <2>1, <2>2, FailKeeps
<1> QED BY <1>1, <1>2, <1>3, <1>4, <1>5, <1>6, <1>7 DEF Process

LEMMA NextInv == Inv /\ [Next]_vars => Inv'
<1> SUFFICES ASSUME Inv, [Next]_vars PROVE Inv'
  OBVIOUS
<1>1. ASSUME NEW f \in Files, Deliver(f) \/ Delete(f) \/ Process(f) PROVE Inv'
  BY <1>1, DeliverKeeps, DeleteKeeps, ProcessKeeps
<1>2. CASE Tick \/ TimerFires \/ BatchDone \/ Restart
  BY <1>2, TickKeeps, TimerFiresKeeps, BatchDoneKeeps, RestartKeeps
<1>3. CASE UNCHANGED vars
  BY <1>3 DEF vars, Inv, RowsTyped, WorkTyped, AttemptsLeft, PendingIsTracked, Pending, Sound
<1> QED BY <1>1, <1>2, <1>3 DEF Next

-----------------------------------------------------------------------------
(* The rows, the queue, its timer and the batch have their types.           *)
THEOREM TypeCorrect == Spec => []TypeOK
<1>1. Inv => TypeOK
  BY InvMeans
<1> QED BY <1>1, InitInv, NextInv, PTL DEF Spec

(* Whatever is delivered, deleted, retried or redelivered while a batch is  *)
(* processed, and across restarts, every pending file is queued or being    *)
(* processed, the queue is sorted by due time and holds a file once, and    *)
(* the timer is set for its head (mediaQueue.ts, enqueueFile to drain).     *)
THEOREM FilesScheduled == Spec => []FilesAreScheduled
<1>1. Inv => FilesAreScheduled
  BY InvMeans
<1> QED BY <1>1, InitInv, NextInv, PTL DEF Spec
=============================================================================
