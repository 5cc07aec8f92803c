------------------------- MODULE LocalStore_proofs -------------------------
(***************************************************************************)
(* The Local Store, for any number of collections, items, references and   *)
(* files and any history of events.                                        *)
(***************************************************************************)
EXTENDS LocalStore, TLAPS, WellFoundedInduction, SequenceTheorems

(* What is stored of an item the application has been told of: a link with  *)
(* the number it stores, if it is the item's, leads where the source says.  *)
Faithful(k) ==
  /\ k[1] \in collections
  /\ Live(k)
  /\ items[k].files = source[k].files
  /\ DOMAIN items[k].refs = DOMAIN source[k].refs
  /\ \A n \in DOMAIN items[k].refs :
       /\ items[k].refs[n].slot = source[k].refs[n].slot
       /\ LET id == items[k].refs[n].link IN
          id \in DOMAIN links /\ links[id].from = k => links[id].to = source[k].refs[n].to

StoreInv == \A k \in Keys : source[k] # Absent => Faithful(k)

(* The cache completes a patch to what the source has, and knows items of   *)
(* present collections only: a rename that comes late moves none of them.   *)
BaselineInv ==
  \A k \in Keys : baseline[k] # Absent =>
    k[1] \in collections /\ (source[k] # Absent => baseline[k] = source[k])

(* A running snapshot still delivers what it has captured and the source has. *)
SnapshotInv ==
  candidates # Absent => \A k \in candidates : source[k] # Absent => k \in due

(* The table is one of links with a highest number.                         *)
LinkTable(table) ==
  /\ DOMAIN table \subseteq Nat
  /\ table \in [DOMAIN table -> Links]
  /\ \A n \in DOMAIN table : n <= LastLink(table)

(* What has to hold of the tables together.                                 *)
StoreOK == LinkTable(links) /\ StoreInv /\ LinksMatchItems /\ FilesAreOwned

Inv == TypeOK /\ StoreOK /\ BaselineInv /\ SnapshotInv

-----------------------------------------------------------------------------
(* LEMMAS on the operators.                                                 *)

LEMMA MaxExists ==
  ASSUME NEW D \in SUBSET Nat, D # {}, NEW b \in Nat, \A n \in D : n <= b
  PROVE  \E m \in D : \A n \in D : n <= m
<1> DEFINE U == {u \in Nat : \A n \in D : n <= u}
<1>1. U \subseteq Nat /\ U # {}
  OBVIOUS
<1> HIDE DEF U
<1>2. PICK u \in U : \A v \in U : ~ (<<v, u>> \in OpToRel(<, Nat))
  BY <1>1, WFMin, NatLessThanWellFounded
<1>3. u \in Nat /\ \A n \in D : n <= u
  BY DEF U
<1>4. ASSUME u \notin D PROVE FALSE
  <2>1. \A n \in D : n <= u - 1
    BY <1>3, <1>4
  <2>2. u - 1 \in Nat
    <3>1. PICK n \in D : TRUE
      OBVIOUS
    <3> QED BY <2>1, <3>1, <1>3
  <2>3. u - 1 \in U
    BY <2>1, <2>2 DEF U
  <2>4. <<u - 1, u>> \in OpToRel(<, Nat)
    BY <2>2, <1>3 DEF OpToRel
  <2> QED BY <1>2, <2>3, <2>4
<1> QED BY <1>3, <1>4

(* The highest row number of a bounded table.                               *)
LEMMA LastLinkMax ==
  ASSUME NEW table, DOMAIN table \subseteq Nat,
         NEW b \in Nat, \A n \in DOMAIN table : n <= b
  PROVE  LastLink(table) \in Nat /\ \A n \in DOMAIN table : n <= LastLink(table)
<1>1. CASE DOMAIN table = {}
  BY <1>1 DEF LastLink
<1>2. CASE DOMAIN table # {}
  <2>1. \E m \in DOMAIN table : \A n \in DOMAIN table : n <= m
    BY <1>2, MaxExists
  <2> QED BY <1>2, <2>1 DEF LastLink
<1> QED BY <1>1, <1>2

LEMMA LastLinkNat ==
  ASSUME NEW table, LinkTable(table)
  PROVE  LastLink(table) \in Nat
BY DEF LinkTable, LastLink

LEMMA WithoutLinks ==
  ASSUME NEW table, LinkTable(table), NEW rows
  PROVE  /\ LinkTable(Without(table, rows))
         /\ DOMAIN Without(table, rows) = DOMAIN table \ rows
         /\ \A n \in DOMAIN table \ rows : Without(table, rows)[n] = table[n]
<1> DEFINE left == Without(table, rows)
<1>1. DOMAIN left = DOMAIN table \ rows /\ \A n \in DOMAIN table \ rows : left[n] = table[n]
  BY DEF Without
<1>2. left \in [DOMAIN left -> Links]
  BY DEF Without, LinkTable
<1>3. DOMAIN left \subseteq Nat /\ \A n \in DOMAIN left : n <= LastLink(table)
  BY <1>1 DEF LinkTable
<1> HIDE DEF left
<1>4. \A n \in DOMAIN left : n <= LastLink(left)
  BY <1>3, LastLinkMax, LastLinkNat
<1>5. LinkTable(left)
  BY <1>2, <1>3, <1>4 DEF LinkTable
<1> QED BY <1>1, <1>5 DEF left

(* What a reference list of an item is, and how its rows are inserted.      *)
LEMMA RefsType ==
  ASSUME NEW refs \in Refs
  PROVE  /\ Len(refs) \in Nat
         /\ DOMAIN refs = 1..Len(refs)
         /\ \A n \in DOMAIN refs : refs[n] \in [slot : Slots, to : Keys]
<1>1. PICK n \in 0..MaxRefs : refs \in [1..n -> [slot : Slots, to : Keys]]
  BY DEF Refs
<1>2. n \in Nat
  BY ConstantsAssumption
<1>3. Len(refs) = n
  BY <1>1, <1>2
<1> QED BY <1>1, <1>2, <1>3

LEMMA InsertedLinks ==
  ASSUME NEW table, LinkTable(table), NEW k \in Keys, NEW refs \in Refs,
         NEW last, last = LastLink(table),
         NEW now, now = Inserted(table, k, refs)
  PROVE  /\ last \in Nat
         /\ LinkTable(now)
         /\ DOMAIN now = DOMAIN table \cup {last + n : n \in DOMAIN refs}
         /\ \A n \in DOMAIN table : now[n] = table[n]
         /\ \A n \in DOMAIN refs :
              /\ last + n \in DOMAIN now
              /\ last + n \notin DOMAIN table
              /\ now[last + n] = [from |-> k, slot |-> refs[n].slot, to |-> refs[n].to]
<1>1. last \in Nat
  BY LastLinkNat
<1>2. DOMAIN refs = 1..Len(refs) /\ Len(refs) \in Nat
  BY RefsType
<1>3. now = [m \in DOMAIN table \cup (last + 1)..(last + Len(refs)) |->
               IF m \in DOMAIN table THEN table[m]
               ELSE [from |-> k, slot |-> refs[m - last].slot, to |-> refs[m - last].to]]
  BY DEF Inserted
<1>4. DOMAIN now = DOMAIN table \cup {last + n : n \in DOMAIN refs}
  <2>1. \A m \in (last + 1)..(last + Len(refs)) : m - last \in 1..Len(refs) /\ last + (m - last) = m
    BY <1>1, <1>2
  <2> QED BY <1>1, <1>2, <1>3, <2>1
<1>5. \A n \in DOMAIN table : now[n] = table[n]
  BY <1>3
<1>6. ASSUME NEW n \in DOMAIN refs
      PROVE  /\ last + n \in DOMAIN now
             /\ last + n \notin DOMAIN table
             /\ now[last + n] = [from |-> k, slot |-> refs[n].slot, to |-> refs[n].to]
  <2>1. n \in 1..Len(refs)
    BY <1>2
  <2>2. last + n \notin DOMAIN table
    BY <1>1, <2>1 DEF LinkTable
  <2>3. last + n \in (last + 1)..(last + Len(refs)) /\ (last + n) - last = n
    BY <1>1, <1>2, <2>1
  <2> QED BY <1>3, <2>2, <2>3
<1>7. DOMAIN now \subseteq Nat
  BY <1>1, <1>2, <1>3 DEF LinkTable
<1>8. ASSUME NEW m \in DOMAIN now PROVE now[m] \in Links
  <2>1. CASE m \in DOMAIN table
    BY <2>1, <1>5 DEF LinkTable
  <2>2. CASE \E n \in DOMAIN refs : m = last + n
    <3>1. PICK n \in DOMAIN refs : m = last + n
      BY <2>2
    <3>2. refs[n].slot \in Slots /\ refs[n].to \in Keys
      BY RefsType
    <3>3. now[m] = [from |-> k, slot |-> refs[n].slot, to |-> refs[n].to]
      BY <3>1, <1>6
    <3> QED BY <3>2, <3>3 DEF Links
  <2> QED BY <2>1, <2>2, <1>4
<1>9. now = [n \in DOMAIN now |-> now[n]]
  BY <1>3
<1>10. \A m \in DOMAIN now : m <= last + Len(refs)
  BY <1>1, <1>2, <1>3 DEF LinkTable
<1>11. \A m \in DOMAIN now : m <= LastLink(now)
  BY <1>1, <1>2, <1>7, <1>10, LastLinkMax
<1>12. LinkTable(now)
  BY <1>7, <1>8, <1>9, <1>11 DEF LinkTable
<1> QED BY <1>1, <1>4, <1>5, <1>6, <1>12
-----------------------------------------------------------------------------
(* What the operations on the tables preserve.                              *)

LEMMA KeyType ==
  ASSUME NEW k \in Keys
  PROVE  k[1] \in Names /\ k[2] \in Ids /\ k = <<k[1], k[2]>>
BY DEF Keys

(* Items that go take their links and the files only they had.              *)
LEMMA DropKeeps ==
  ASSUME TypeOK, StoreOK, NEW ks \in SUBSET Keys, NEW rows,
         links' = Without(links, rows),
         \A n \in DOMAIN links : links[n].from \in ks => n \in rows,
         \A k \in Keys \ ks : items'[k] = items[k],
         \A k \in ks : ~ LiveIn(items', k) /\ source'[k] = Absent,
         \A k \in Keys : source'[k] = source[k] \/ source'[k] = Absent,
         \A k \in Keys \ ks : k[1] \in collections => k[1] \in collections',
         DeleteFilesByItems(ks)
  PROVE  StoreOK'
<1>1. /\ LinkTable(links')
      /\ DOMAIN links' = DOMAIN links \ rows
      /\ \A n \in DOMAIN links' : links'[n] = links[n]
  <2>1. LinkTable(links)
    BY DEF StoreOK
  <2>2. /\ LinkTable(Without(links, rows))
        /\ DOMAIN Without(links, rows) = DOMAIN links \ rows
        /\ \A n \in DOMAIN links \ rows : Without(links, rows)[n] = links[n]
    BY <2>1, WithoutLinks
  <2> QED BY <2>2
<1>2. StoreInv'
  <2> SUFFICES ASSUME NEW k \in Keys, source'[k] # Absent PROVE Faithful(k)'
    BY DEF StoreInv
  <2>1. k \notin ks /\ source'[k] = source[k] /\ items'[k] = items[k]
    OBVIOUS
  <2>2. Faithful(k)
    BY <2>1 DEF StoreOK, StoreInv
  <2> QED BY <1>1, <2>1, <2>2 DEF Faithful, Live, LiveIn
<1>3. LinksMatchItems'
  <2> SUFFICES ASSUME NEW id \in DOMAIN links'
               PROVE  /\ LiveIn(items', links'[id].from)
                      /\ \E n \in DOMAIN items'[links'[id].from].refs :
                           items'[links'[id].from].refs[n] = [slot |-> links'[id].slot, link |-> id]
    BY DEF LinksMatchItems, Live
  <2>1. id \in DOMAIN links /\ links'[id] = links[id] /\ links[id].from \in Keys \ ks
    BY <1>1 DEF StoreOK, LinkTable, Links
  <2> QED BY <2>1 DEF StoreOK, LinksMatchItems, Live, LiveIn
<1>4. FilesAreOwned'
  <2> DEFINE left == {kf \in itemFiles : kf[1] \notin ks}
  <2>1. itemFiles' = left /\ files' = files \ Unused(FilesOfItems(ks), left)
    BY DEF DeleteFilesByItems
  <2>2. itemFiles = {kf \in Keys \X Files : Live(kf[1]) /\ kf[2] \in items[kf[1]].files}
    BY DEF StoreOK, FilesAreOwned
  <2>3. \A k \in Keys, f \in Files :
           <<k, f>> \in left <=> LiveIn(items', k) /\ f \in items'[k].files
    BY <2>2 DEF Live, LiveIn
  <2>4. left = {kf \in Keys \X Files : LiveIn(items', kf[1]) /\ kf[2] \in items'[kf[1]].files}
    BY <2>2, <2>3
  <2>5. \A f \in Files : f \in files <=> \E k \in Keys : <<k, f>> \in itemFiles
    BY DEF StoreOK, FilesAreOwned
  <2>6. files \subseteq Files
    BY DEF TypeOK
  <2>7. \A f \in Files : f \in files' <=> \E k \in Keys : <<k, f>> \in left
    <3> TAKE f \in Files
    <3>1. (\E k \in Keys : <<k, f>> \in left) => f \in files'
      BY <2>1, <2>5 DEF Unused
    <3>2. f \in files' => \E k \in Keys : <<k, f>> \in left
      <4> SUFFICES ASSUME f \in files' PROVE \E k \in Keys : <<k, f>> \in left
        OBVIOUS
      <4>1. PICK k \in Keys : <<k, f>> \in itemFiles
        BY <2>1, <2>5
      <4>2. CASE k \in ks
        BY <4>1, <4>2, <2>1 DEF Unused, FilesOfItems
      <4>3. CASE k \notin ks
        BY <4>1, <4>3
      <4> QED BY <4>2, <4>3
    <3> QED BY <3>1, <3>2
  <2> QED BY <2>1, <2>4, <2>6, <2>7 DEF FilesAreOwned, Live
<1> QED BY <1>1, <1>2, <1>3, <1>4 DEF StoreOK, LinkTable

(* An item that is written gets rows of its own, and the files it shows.    *)
LEMMA FunctionIsSeq ==
  ASSUME NEW S, NEW n \in Nat, NEW f \in [1..n -> S]
  PROVE  f \in Seq(S)
BY SeqDef

LEMMA PersistLinks ==
  ASSUME TypeOK, StoreOK, NEW k \in Keys, NEW item \in Items, NEW processed,
         PersistItem(k, item, processed)
  PROVE  /\ LinkTable(links')
         /\ items' = [items EXCEPT ![k] = items'[k]]
         /\ items'[k] \in StoredItems /\ LiveIn(items', k)
         /\ items'[k].files = item.files
         /\ DOMAIN items'[k].refs = DOMAIN item.refs
         /\ \A n \in DOMAIN item.refs :
              /\ items'[k].refs[n] = [slot |-> item.refs[n].slot, link |-> items'[k].refs[n].link]
              /\ items'[k].refs[n].slot = item.refs[n].slot
              /\ items'[k].refs[n].link \in DOMAIN links'
              /\ links'[items'[k].refs[n].link] =
                   [from |-> k, slot |-> item.refs[n].slot, to |-> item.refs[n].to]
         /\ \A id \in DOMAIN links' :
              \/ id \in DOMAIN links /\ links[id].from # k /\ links'[id] = links[id]
              \/ \E n \in DOMAIN item.refs : id = items'[k].refs[n].link
         /\ \A id \in DOMAIN links :
              links[id].from # k => id \in DOMAIN links' /\ links'[id] = links[id]
<1> DEFINE kept == Without(links, Outgoing(links, k))
           last == LastLink(kept)
           row == [refs |-> Numbered(item.refs, last), files |-> item.files, deleted |-> FALSE]
<1>1. /\ links' = Inserted(kept, k, item.refs)
      /\ items' = [items EXCEPT ![k] = row]
  BY DEF PersistItem
<1>2. LinkTable(links)
  BY DEF StoreOK
<1>3. /\ LinkTable(kept)
      /\ DOMAIN kept = DOMAIN links \ Outgoing(links, k)
      /\ \A n \in DOMAIN links \ Outgoing(links, k) : kept[n] = links[n]
  BY <1>2, WithoutLinks
<1>4. item.refs \in Refs /\ item.files \in SUBSET Files
  BY DEF Items
<1>5. /\ DOMAIN item.refs = 1..Len(item.refs)
      /\ Len(item.refs) \in Nat
      /\ \A n \in DOMAIN item.refs : item.refs[n] \in [slot : Slots, to : Keys]
  BY <1>4, RefsType
<1>6. /\ last \in Nat
      /\ LinkTable(links')
      /\ DOMAIN links' = DOMAIN kept \cup {last + n : n \in DOMAIN item.refs}
      /\ \A n \in DOMAIN kept : links'[n] = kept[n]
      /\ \A n \in DOMAIN item.refs :
           /\ last + n \in DOMAIN links'
           /\ links'[last + n] = [from |-> k, slot |-> item.refs[n].slot, to |-> item.refs[n].to]
  <2> HIDE DEF kept
  <2>1. last = LastLink(kept)
    OBVIOUS
  <2> HIDE DEF last
  <2>2. links' = Inserted(kept, k, item.refs)
    BY <1>1
  <2>3. LinkTable(kept) /\ item.refs \in Refs
    BY <1>3, <1>4
  <2> QED BY <2>1, <2>2, <2>3, InsertedLinks
<1>7. items \in [Keys -> {Absent} \cup StoredItems]
  BY DEF TypeOK
<1> HIDE DEF last, kept
<1>8. items'[k] = row /\ items' = [items EXCEPT ![k] = items'[k]]
  BY <1>1, <1>7
<1>9. /\ row.files = item.files /\ row.deleted = FALSE
      /\ DOMAIN row.refs = DOMAIN item.refs
      /\ \A n \in DOMAIN item.refs : row.refs[n] = [slot |-> item.refs[n].slot, link |-> last + n]
  BY DEF Numbered
<1>10. row \in StoredItems
  <2>1. ASSUME NEW n \in 1..Len(item.refs)
        PROVE  [slot |-> item.refs[n].slot, link |-> last + n] \in [slot : Slots, link : Nat]
    <3>1. item.refs[n].slot \in Slots
      BY <1>5
    <3>2. last + n \in Nat
      BY <1>5, <1>6
    <3> QED BY <3>1, <3>2
  <2>2. Numbered(item.refs, last) \in [1..Len(item.refs) -> [slot : Slots, link : Nat]]
    BY <1>5, <2>1 DEF Numbered
  <2>3. Numbered(item.refs, last) \in Seq([slot : Slots, link : Nat])
    BY <2>2, <1>5, FunctionIsSeq
  <2> QED BY <2>3, <1>4 DEF StoredItems
<1> HIDE DEF row
<1>11. LiveIn(items', k)
  BY <1>8, <1>9, <1>10, ConstantsAssumption DEF LiveIn
<1>12. \A id \in DOMAIN links : id \in Outgoing(links, k) <=> links[id].from = k
  BY DEF Outgoing
<1>13. ASSUME NEW n \in DOMAIN item.refs
       PROVE  /\ items'[k].refs[n] = [slot |-> item.refs[n].slot, link |-> items'[k].refs[n].link]
              /\ items'[k].refs[n].slot = item.refs[n].slot
              /\ items'[k].refs[n].link = last + n
  <2> DEFINE slot == item.refs[n].slot
             id == last + n
  <2>1. items'[k].refs[n] = [slot |-> slot, link |-> id]
    BY <1>8, <1>9
  <2> HIDE DEF slot, id
  <2>2. items'[k].refs[n].slot = slot /\ items'[k].refs[n].link = id
    BY <2>1
  <2> QED BY <2>1, <2>2 DEF slot, id
<1>14. \A id \in DOMAIN links' :
         \/ id \in DOMAIN links /\ links[id].from # k /\ links'[id] = links[id]
         \/ \E n \in DOMAIN item.refs : id = items'[k].refs[n].link
  <2> TAKE id \in DOMAIN links'
  <2>1. CASE id \in DOMAIN kept
    BY <2>1, <1>3, <1>6, <1>12
  <2>2. CASE \E n \in DOMAIN item.refs : id = last + n
    BY <2>2, <1>13
  <2> QED BY <2>1, <2>2, <1>6
<1>15. \A id \in DOMAIN links :
         links[id].from # k => id \in DOMAIN links' /\ links'[id] = links[id]
  BY <1>3, <1>6, <1>12
<1> QED BY <1>6, <1>8, <1>9, <1>10, <1>11, <1>13, <1>14, <1>15

LEMMA PersistFiles ==
  ASSUME TypeOK, FilesAreOwned, NEW k \in Keys, NEW item \in Items, NEW processed,
         items' = [items EXCEPT ![k] = items'[k]],
         LiveIn(items', k), items'[k].files = item.files,
         \A f \in item.files \cap processed : <<k, f>> \in itemFiles,
         ProcessFiles(k, item, processed)
  PROVE  FilesAreOwned'
<1> DEFINE pending == item.files \ processed
           now == itemFiles \cup ({k} \X pending)
           stale == {f \in Files : <<k, f>> \in now /\ f \notin item.files}
           left == now \ ({k} \X stale)
<1>1. itemFiles' = left /\ files' = (files \cup pending) \ Unused(stale, left)
  BY DEF ProcessFiles, Linked
<1>2. item.files \subseteq Files /\ files \subseteq Files /\ itemFiles \subseteq Keys \X Files
  BY DEF Items, TypeOK
<1>3. \A x \in Keys, f \in Files : <<x, f>> \in itemFiles <=> Live(x) /\ f \in items[x].files
  BY DEF FilesAreOwned
<1>4. \A f \in Files : f \in files <=> \E x \in Keys : <<x, f>> \in itemFiles
  BY DEF FilesAreOwned
<1>5. \A x \in Keys : x # k => items'[x] = items[x]
  BY DEF TypeOK
<1>6. left \subseteq Keys \X Files
  BY <1>2
<1>7. \A x \in Keys, f \in Files :
        <<x, f>> \in left <=> LiveIn(items', x) /\ f \in items'[x].files
  <2> TAKE x \in Keys, f \in Files
  <2>1. CASE x = k
    <3>1. <<x, f>> \in left <=> f \in item.files
      BY <2>1, <1>2
    <3> QED BY <3>1, <2>1
  <2>2. CASE x # k
    <3>1. <<x, f>> \in left <=> <<x, f>> \in itemFiles
      BY <2>2
    <3> QED BY <3>1, <2>2, <1>3, <1>5 DEF Live, LiveIn
  <2> QED BY <2>1, <2>2
<1>8. left = {kf \in Keys \X Files : LiveIn(items', kf[1]) /\ kf[2] \in items'[kf[1]].files}
  <2> HIDE DEF left
  <2> QED BY <1>6, <1>7
<1>9. files' \subseteq Files
  BY <1>1, <1>2
<1>10. \A f \in Files : f \in files' <=> \E x \in Keys : <<x, f>> \in left
  <2> TAKE f \in Files
  <2>1. ASSUME NEW x \in Keys, <<x, f>> \in left PROVE f \in files'
    BY <2>1, <1>1, <1>4 DEF Unused
  <2>2. ASSUME f \in files' PROVE \E x \in Keys : <<x, f>> \in left
    <3>1. \E x \in Keys : <<x, f>> \in now
      BY <2>2, <1>1, <1>4
    <3>2. CASE f \in stale
      BY <2>2, <3>2, <1>1 DEF Unused
    <3>3. CASE f \notin stale
      BY <3>1, <3>3
    <3> QED BY <3>2, <3>3
  <2> QED BY <2>1, <2>2
<1> HIDE DEF left
<1> QED BY <1>1, <1>8, <1>9, <1>10 DEF FilesAreOwned, Live

LEMMA PersistKeeps ==
  ASSUME TypeOK, StoreOK, NEW k \in Keys, NEW item \in Items, NEW processed,
         k[1] \in collections,
         PersistItem(k, item, processed),
         \A f \in item.files \cap processed : <<k, f>> \in itemFiles,
         source' = [source EXCEPT ![k] = item]
  PROVE  StoreOK' /\ items' \in [Keys -> {Absent} \cup StoredItems]
<1>1. /\ LinkTable(links')
      /\ items' = [items EXCEPT ![k] = items'[k]]
      /\ items'[k] \in StoredItems /\ LiveIn(items', k)
      /\ items'[k].files = item.files
  BY PersistLinks
<1>2. DOMAIN items'[k].refs = DOMAIN item.refs
  BY PersistLinks
<1>3. \A n \in DOMAIN item.refs :
        /\ items'[k].refs[n] = [slot |-> item.refs[n].slot, link |-> items'[k].refs[n].link]
        /\ items'[k].refs[n].slot = item.refs[n].slot
        /\ items'[k].refs[n].link \in DOMAIN links'
        /\ links'[items'[k].refs[n].link] =
             [from |-> k, slot |-> item.refs[n].slot, to |-> item.refs[n].to]
  BY PersistLinks
<1>4. \A id \in DOMAIN links' :
        \/ id \in DOMAIN links /\ links[id].from # k /\ links'[id] = links[id]
        \/ \E n \in DOMAIN item.refs : id = items'[k].refs[n].link
  BY PersistLinks
<1>5. collections' = collections
  BY DEF PersistItem
<1>6. items \in [Keys -> {Absent} \cup StoredItems] /\ source \in [Keys -> {Absent} \cup Items]
  BY DEF TypeOK
<1>7. \A x \in Keys : x # k => items'[x] = items[x] /\ source'[x] = source[x]
  BY <1>1, <1>6
<1>8. source'[k] = item
  BY <1>6
<1>9. ASSUME NEW n \in DOMAIN item.refs
       PROVE  /\ links'[items'[k].refs[n].link].from = k
              /\ links'[items'[k].refs[n].link].slot = item.refs[n].slot
              /\ links'[items'[k].refs[n].link].to = item.refs[n].to
  <2> DEFINE row == links'[items'[k].refs[n].link]
             slot == item.refs[n].slot
             to == item.refs[n].to
  <2>1. row = [from |-> k, slot |-> slot, to |-> to]
    BY <1>3
  <2> HIDE DEF row, slot, to
  <2>2. row.from = k /\ row.slot = slot /\ row.to = to
    BY <2>1
  <2> QED BY <2>2 DEF row, slot, to
<1>10. StoreInv'
  <2> SUFFICES ASSUME NEW x \in Keys, source'[x] # Absent PROVE Faithful(x)'
    BY DEF StoreInv
  <2>1. CASE x = k
    <3>1. \A n \in DOMAIN item.refs : items'[k].refs[n].slot = item.refs[n].slot
      BY <1>3
    <3>2. \A n \in DOMAIN item.refs : links'[items'[k].refs[n].link].to = item.refs[n].to
      BY <1>9
    <3> QED BY <2>1, <3>1, <3>2, <1>1, <1>2, <1>5, <1>8 DEF Faithful, Live
  <2>2. CASE x # k
    <3>1. Faithful(x)
      BY <2>2, <1>7 DEF StoreOK, StoreInv
    <3>2. items'[x] = items[x] /\ source'[x] = source[x]
      BY <2>2, <1>7
    <3>3. \A id \in DOMAIN links' : links'[id].from = x => id \in DOMAIN links /\ links'[id] = links[id]
      BY <2>2, <1>9, <1>4
    <3> QED BY <3>1, <3>2, <3>3, <1>5 DEF Faithful, Live, LiveIn
  <2> QED BY <2>1, <2>2
<1>11. LinksMatchItems'
  <2> SUFFICES ASSUME NEW id \in DOMAIN links'
               PROVE  /\ LiveIn(items', links'[id].from)
                      /\ \E n \in DOMAIN items'[links'[id].from].refs :
                           items'[links'[id].from].refs[n] = [slot |-> links'[id].slot, link |-> id]
    BY DEF LinksMatchItems, Live
  <2>1. CASE id \in DOMAIN links /\ links[id].from # k /\ links'[id] = links[id]
    <3>1. links[id].from \in Keys
      BY <2>1 DEF StoreOK, LinkTable, Links
    <3> QED BY <2>1, <3>1, <1>7 DEF StoreOK, LinksMatchItems, Live, LiveIn
  <2>2. CASE \E n \in DOMAIN item.refs : id = items'[k].refs[n].link
    <3>1. PICK n \in DOMAIN item.refs : id = items'[k].refs[n].link
      BY <2>2
    <3>2. links'[id].from = k /\ links'[id].slot = item.refs[n].slot
      BY <3>1, <1>9
    <3> QED BY <3>1, <3>2, <1>1, <1>2, <1>3
  <2> QED BY <2>1, <2>2, <1>4
<1>12. FilesAreOwned'
  BY <1>1, PersistFiles DEF StoreOK, PersistItem
<1>13. items' \in [Keys -> {Absent} \cup StoredItems]
  BY <1>1, <1>6
<1> QED BY <1>1, <1>10, <1>11, <1>12, <1>13 DEF StoreOK, LinkTable

LEMMA RenamedKeyType ==
  ASSUME NEW k \in Keys, NEW old \in Names, NEW new \in Names, old # new
  PROVE  /\ RenamedKey(k, old, new) \in Keys
         /\ RenamedKey(k, old, new)[1] # old
         /\ RenamedKey(k, old, new)[2] = k[2]
         /\ k[1] = old => RenamedKey(k, old, new) = <<new, k[2]>>
         /\ k[1] # old => RenamedKey(k, old, new) = k
BY KeyType DEF RenamedKey, Keys

(* The key that what bears key k after a rename bore before it.             *)
FormerKey(k, old, new) == IF k[1] = new /\ old \in collections THEN <<old, k[2]>> ELSE k

(* Whether a rename comes in time or late, it moves the rows of present     *)
(* collections to where they belong, and no two to one place.               *)
LEMMA MovedRows ==
  ASSUME NEW table, NEW old \in Names, NEW new \in Names, old # new,
         ~(old \in collections /\ new \in collections),
         \A k \in Keys : table[k] # Absent => k[1] \in collections
  PROVE  /\ \A k \in Keys : k[1] = old => Moved(table, old, new)[k] = Absent
         /\ \A k \in Keys : k[1] # old =>
              /\ FormerKey(k, old, new) \in Keys
              /\ RenamedKey(FormerKey(k, old, new), old, new) = k
              /\ Moved(table, old, new)[k] = table[FormerKey(k, old, new)]
         /\ \A k \in Keys : k[1] \in collections =>
              /\ RenamedKey(k, old, new) \in Keys
              /\ Moved(table, old, new)[RenamedKey(k, old, new)] = table[k]
<1>1. \A k \in Keys : k[1] = old => Moved(table, old, new)[k] = Absent
  BY DEF Moved
<1>2. ASSUME NEW k \in Keys, k[1] # old
      PROVE  /\ FormerKey(k, old, new) \in Keys
             /\ RenamedKey(FormerKey(k, old, new), old, new) = k
             /\ Moved(table, old, new)[k] = table[FormerKey(k, old, new)]
  <2>1. <<old, k[2]>> \in Keys /\ k = <<k[1], k[2]>>
    BY KeyType DEF Keys
  <2>2. CASE k[1] = new /\ old \in collections
    <3>1. FormerKey(k, old, new) = <<old, k[2]>> /\ table[k] = Absent
      BY <2>2 DEF FormerKey
    <3>2. RenamedKey(<<old, k[2]>>, old, new) = k
      BY <2>1, <2>2 DEF RenamedKey
    <3> QED BY <2>1, <2>2, <3>1, <3>2, <1>2 DEF Moved
  <2>3. CASE k[1] = new /\ old \notin collections
    <3>1. FormerKey(k, old, new) = k /\ table[<<old, k[2]>>] = Absent
      BY <2>1, <2>3 DEF FormerKey
    <3>2. RenamedKey(k, old, new) = k
      BY <1>2 DEF RenamedKey
    <3> QED BY <2>3, <3>1, <3>2, <1>2 DEF Moved
  <2>4. CASE k[1] # new
    BY <1>2, <2>4 DEF FormerKey, RenamedKey, Moved
  <2> QED BY <2>2, <2>3, <2>4
<1>3. ASSUME NEW k \in Keys, k[1] \in collections
      PROVE  /\ RenamedKey(k, old, new) \in Keys
             /\ Moved(table, old, new)[RenamedKey(k, old, new)] = table[k]
  <2> DEFINE now == RenamedKey(k, old, new)
  <2>1. now \in Keys /\ now[1] # old /\ now[2] = k[2]
    BY RenamedKeyType
  <2>2. FormerKey(now, old, new) = k
    <3>1. k = <<k[1], k[2]>>
      BY KeyType
    <3> QED BY <1>3, <2>1, <3>1 DEF FormerKey, RenamedKey
  <2> QED BY <1>2, <2>1, <2>2
<1> QED BY <1>1, <1>2, <1>3

(* Two items of present collections are not given one key.                  *)
LEMMA RenamedApart ==
  ASSUME NEW old \in Names, NEW new \in Names, old # new,
         ~(old \in collections /\ new \in collections),
         NEW a \in Keys, NEW b \in Keys, a[1] \in collections, b[1] \in collections,
         RenamedKey(a, old, new) = RenamedKey(b, old, new)
  PROVE  a = b
<1>1. a = <<a[1], a[2]>> /\ b = <<b[1], b[2]>>
  BY KeyType
<1>2. a[2] = b[2]
  BY RenamedKeyType
<1>3. a[1] = b[1]
  <2>1. CASE a[1] = old
    <3>1. RenamedKey(a, old, new)[1] = new
      BY <2>1 DEF RenamedKey
    <3> QED BY <2>1, <3>1 DEF RenamedKey
  <2>2. CASE a[1] # old
    <3>1. RenamedKey(a, old, new) = a
      BY <2>2 DEF RenamedKey
    <3>2. CASE b[1] = old
      <4>1. RenamedKey(b, old, new)[1] = new
        BY <3>2 DEF RenamedKey
      <4> QED BY <3>1, <3>2, <4>1
    <3>3. CASE b[1] # old
      BY <3>1, <3>3 DEF RenamedKey
    <3> QED BY <3>2, <3>3
  <2> QED BY <2>1, <2>2
<1> QED BY <1>1, <1>2, <1>3

(* The row that a row is after a rename, under its own key: owners move with *)
(* their items.                                                             *)
LEMMA RenameKeeps ==
  ASSUME TypeOK, StoreOK, NEW old \in Names, NEW new \in Names, old # new,
         RenameTables(old, new),
         source' = [k \in Keys |-> RenamedRefs(Moved(source, old, new)[k], old, new)]
  PROVE  StoreOK'
<1> DEFINE ren(k) == RenamedKey(k, old, new)
<1>1. ~(old \in collections /\ new \in collections)
  BY DEF RenameTables
<1>2. collections' = (IF old \in collections THEN (collections \ {old}) \cup {new} ELSE collections)
      /\ items' = Moved(items, old, new)
      /\ links' = RenamedLinks(old, new)
      /\ itemFiles' = {<<ren(kf[1]), kf[2]>> : kf \in itemFiles} /\ files' = files
  BY DEF RenameTables
<1>3. /\ \A k \in Keys : items[k] # Absent => k[1] \in collections
      /\ \A k \in Keys : source[k] # Absent => k[1] \in collections
  BY DEF TypeOK, StoreOK, StoreInv, Faithful
<1>4. DOMAIN links' = DOMAIN links
  BY <1>2 DEF RenamedLinks
<1>5. ASSUME NEW n \in DOMAIN links
      PROVE  /\ links[n] \in Links /\ links'[n] \in Links
             /\ links'[n].from = ren(links[n].from)
             /\ links'[n].slot = links[n].slot
             /\ links'[n].to = ren(links[n].to)
  <2>1. links[n] \in Links
    BY DEF StoreOK, LinkTable
  <2>2. links'[n] = [from |-> ren(links[n].from), slot |-> links[n].slot, to |-> ren(links[n].to)]
    BY <1>2 DEF RenamedLinks
  <2>3. ren(links[n].from) \in Keys /\ ren(links[n].to) \in Keys
    BY <2>1, RenamedKeyType DEF Links
  <2> HIDE DEF ren
  <2>4. /\ links'[n].from = ren(links[n].from)
        /\ links'[n].slot = links[n].slot
        /\ links'[n].to = ren(links[n].to)
    BY <2>2
  <2> QED BY <2>1, <2>2, <2>3, <2>4 DEF Links
<1>6. LinkTable(links')
  <2>1. links' \in [DOMAIN links -> Links]
    BY <1>2, <1>5 DEF RenamedLinks
  <2>2. LastLink(links') = LastLink(links)
    BY <1>4 DEF LastLink
  <2> QED BY <1>4, <2>1, <2>2 DEF LinkTable, StoreOK
(* A row that is live under its new key was live under its old one.         *)
<1>7. ASSUME NEW k \in Keys, Live(k)
      PROVE  k[1] \in collections /\ ren(k) \in Keys /\ items'[ren(k)] = items[k]
  <2>1. k[1] \in collections
    BY <1>3, <1>7 DEF Live, LiveIn
  <2> QED BY <2>1, <1>1, <1>2, <1>3, MovedRows
<1>8. ASSUME NEW k \in Keys, items'[k] # Absent \/ source'[k] # Absent
      PROVE  \E was \in Keys : /\ k = ren(was) /\ was[1] \in collections
                               /\ items'[k] = items[was]
                               /\ source'[k] = RenamedRefs(source[was], old, new)
  <2> DEFINE was == FormerKey(k, old, new)
  <2>1. source'[k] = RenamedRefs(Moved(source, old, new)[k], old, new)
    OBVIOUS
  <2>2. k[1] # old
    <3> SUFFICES ASSUME k[1] = old PROVE FALSE
      OBVIOUS
    <3>1. Moved(items, old, new)[k] = Absent /\ Moved(source, old, new)[k] = Absent
      BY DEF Moved
    <3>2. items'[k] = Absent
      BY <3>1, <1>2
    <3>3. source'[k] = Absent
      BY <3>1, <2>1 DEF RenamedRefs
    <3> QED BY <3>2, <3>3, <1>8
  <2>3. /\ was \in Keys /\ ren(was) = k
        /\ Moved(items, old, new)[k] = items[was]
        /\ Moved(source, old, new)[k] = source[was]
    BY <2>2, <1>1, <1>3, MovedRows
  <2>4. items'[k] = items[was] /\ source'[k] = RenamedRefs(source[was], old, new)
    BY <2>1, <2>3, <1>2
  <2>5. was[1] \in collections
    BY <2>3, <2>4, <1>3, <1>8 DEF RenamedRefs
  <2> QED BY <2>3, <2>4, <2>5
<1>9. StoreInv'
  <2> SUFFICES ASSUME NEW k \in Keys, source'[k] # Absent PROVE Faithful(k)'
    BY DEF StoreInv
  <2>1. PICK was \in Keys : /\ k = ren(was) /\ was[1] \in collections
                            /\ items'[k] = items[was]
                            /\ source'[k] = RenamedRefs(source[was], old, new)
    BY <1>8
  <2>2. source[was] # Absent
    BY <2>1 DEF RenamedRefs
  <2>3. Faithful(was)
    BY <2>2 DEF StoreOK, StoreInv
  <2>4. /\ source'[k].files = source[was].files
        /\ DOMAIN source'[k].refs = DOMAIN source[was].refs
        /\ \A n \in DOMAIN source[was].refs :
             /\ source'[k].refs[n].slot = source[was].refs[n].slot
             /\ source'[k].refs[n].to = ren(source[was].refs[n].to)
    BY <2>1, <2>2 DEF RenamedRefs
  <2>5. k[1] \in collections'
    <3>1. CASE was[1] = old
      <4>1. k[1] = new
        BY <2>1, <3>1 DEF RenamedKey
      <4> QED BY <4>1, <2>1, <3>1, <1>2
    <3>2. CASE was[1] # old
      <4>1. k = was
        BY <2>1, <3>2, RenamedKeyType
      <4> QED BY <4>1, <2>1, <3>2, <1>2
    <3> QED BY <3>1, <3>2
  <2>6. \A id \in DOMAIN links' : links'[id].from = k => links[id].from = was
    <3> SUFFICES ASSUME NEW id \in DOMAIN links, links'[id].from = k PROVE links[id].from = was
      BY <1>4
    <3>1. links[id].from \in Keys /\ ren(links[id].from) = ren(was)
      BY <1>5, <2>1 DEF Links
    <3>2. links[id].from[1] \in collections
      BY <3>1, <1>7 DEF StoreOK, LinksMatchItems
    <3> QED BY <3>1, <3>2, <2>1, <1>1, RenamedApart
  <2> HIDE DEF ren
  <2>7. ASSUME NEW n \in DOMAIN items'[k].refs,
               items'[k].refs[n].link \in DOMAIN links',
               links'[items'[k].refs[n].link].from = k
        PROVE  links'[items'[k].refs[n].link].to = source'[k].refs[n].to
    <3> DEFINE id == items[was].refs[n].link
    <3>1. id \in DOMAIN links /\ links[id].from = was
      BY <2>1, <2>6, <2>7, <1>4
    <3>2. n \in DOMAIN items[was].refs /\ n \in DOMAIN source[was].refs
      BY <2>1, <2>3 DEF Faithful
    <3>3. links[id].to = source[was].refs[n].to
      BY <3>1, <3>2, <2>3 DEF Faithful
    <3>4. links'[id].to = ren(links[id].to)
      BY <3>1, <1>5
    <3> QED BY <2>1, <2>4, <3>2, <3>3, <3>4
  <2> QED BY <2>1, <2>3, <2>4, <2>5, <2>7 DEF Faithful, Live, LiveIn
<1>10. LinksMatchItems'
  <2> SUFFICES ASSUME NEW id \in DOMAIN links
               PROVE  /\ LiveIn(items', links'[id].from)
                      /\ \E n \in DOMAIN items'[links'[id].from].refs :
                           items'[links'[id].from].refs[n] = [slot |-> links'[id].slot, link |-> id]
    BY <1>4 DEF LinksMatchItems, Live
  <2>1. /\ links[id].from \in Keys /\ Live(links[id].from)
        /\ \E n \in DOMAIN items[links[id].from].refs :
             items[links[id].from].refs[n] = [slot |-> links[id].slot, link |-> id]
    BY <1>5 DEF StoreOK, LinksMatchItems, Links
  <2>2. items'[links'[id].from] = items[links[id].from] /\ links'[id].slot = links[id].slot
    BY <2>1, <1>5, <1>7
  <2> QED BY <2>1, <2>2 DEF Live, LiveIn
<1>11. FilesAreOwned'
  <2>1. /\ itemFiles \subseteq Keys \X Files /\ files \subseteq Files
        /\ \A kf \in Keys \X Files : kf \in itemFiles <=> Live(kf[1]) /\ kf[2] \in items[kf[1]].files
        /\ \A f \in Files : f \in files <=> \E k \in Keys : <<k, f>> \in itemFiles
    BY DEF StoreOK, FilesAreOwned, TypeOK
  <2>2. \A kf \in itemFiles : kf[1] \in Keys /\ kf[2] \in Files /\ kf = <<kf[1], kf[2]>>
    BY <2>1
  <2>3. ASSUME NEW kf \in itemFiles
        PROVE  /\ ren(kf[1]) \in Keys
               /\ LiveIn(items', ren(kf[1])) /\ kf[2] \in items'[ren(kf[1])].files
    BY <2>1, <2>2, <1>7 DEF Live, LiveIn
  <2>4. ASSUME NEW k \in Keys, NEW f \in Files, LiveIn(items', k), f \in items'[k].files
        PROVE  \E kf \in itemFiles : <<k, f>> = <<ren(kf[1]), kf[2]>>
    <3>1. PICK was \in Keys : k = ren(was) /\ items'[k] = items[was]
      BY <2>4, <1>8 DEF LiveIn
    <3>2. <<was, f>> \in itemFiles
      BY <3>1, <2>1, <2>4 DEF Live, LiveIn
    <3> QED BY <3>1, <3>2
  <2> HIDE DEF ren
  <2>5. itemFiles' = {kf \in Keys \X Files : LiveIn(items', kf[1]) /\ kf[2] \in items'[kf[1]].files}
    <3> DEFINE owned == {kf \in Keys \X Files : LiveIn(items', kf[1]) /\ kf[2] \in items'[kf[1]].files}
    <3>1. itemFiles' \subseteq owned
      BY <1>2, <2>2, <2>3
    <3>2. owned \subseteq itemFiles'
      BY <1>2, <2>4
    <3> QED BY <3>1, <3>2
  <2>6. \A f \in Files : f \in files' <=> \E k \in Keys : <<k, f>> \in itemFiles'
    <3> TAKE f \in Files
    <3>1. ASSUME NEW k \in Keys, <<k, f>> \in itemFiles PROVE <<ren(k), f>> \in itemFiles' /\ ren(k) \in Keys
      BY <3>1, <1>2, <2>3
    <3>2. ASSUME NEW k \in Keys, <<k, f>> \in itemFiles' PROVE \E was \in Keys : <<was, f>> \in itemFiles
      <4>1. PICK kf \in itemFiles : <<k, f>> = <<ren(kf[1]), kf[2]>>
        BY <3>2, <1>2
      <4> QED BY <4>1, <2>2
    <3> QED BY <3>1, <3>2, <1>2, <2>1
  <2> QED BY <1>2, <2>1, <2>5, <2>6 DEF FilesAreOwned, Live
<1> QED BY <1>4, <1>6, <1>9, <1>10, <1>11 DEF StoreOK, LinkTable
-----------------------------------------------------------------------------
(* Types.                                                                   *)

OptItems == [Keys -> {Absent} \cup Items]
OptStored == [Keys -> {Absent} \cup StoredItems]
OptKeys == {Absent} \cup SUBSET Keys

LEMMA Types ==
  ASSUME TypeOK
  PROVE  /\ source \in OptItems /\ baseline \in OptItems /\ items \in OptStored
         /\ collections \subseteq Names
         /\ \A k \in Keys : items[k] # Absent => k[1] \in collections
         /\ candidates \in OptKeys /\ due \in OptKeys
         /\ events \in 0..MaxEvents
BY DEF TypeOK, OptItems, OptStored, OptKeys

(* The tables of links and files have their types because StoreOK holds.    *)
LEMMA TypesKept ==
  ASSUME StoreOK', source' \in OptItems, baseline' \in OptItems, items' \in OptStored,
         collections' \subseteq Names,
         \A k \in Keys : items'[k] # Absent => k[1] \in collections',
         candidates' \in OptKeys, due' \in OptKeys,
         events' \in 0..MaxEvents
  PROVE  TypeOK'
BY DEF TypeOK, StoreOK, LinkTable, FilesAreOwned, OptItems, OptStored, OptKeys

LEMMA EventType == ASSUME TypeOK, Event PROVE events' \in 0..MaxEvents
BY ConstantsAssumption DEF TypeOK, Event

LEMMA LessItemType ==
  ASSUME NEW set \in OptKeys, NEW k
  PROVE  LessItem(set, k) \in OptKeys
BY DEF LessItem, OptKeys

LEMMA RenamedRefsType ==
  ASSUME NEW item \in {Absent} \cup Items, NEW old \in Names, NEW new \in Names, old # new
  PROVE  RenamedRefs(item, old, new) \in {Absent} \cup Items
<1>1. CASE item = Absent
  BY <1>1 DEF RenamedRefs
<1>2. CASE item # Absent
  <2> DEFINE row(n) == [slot |-> item.refs[n].slot, to |-> RenamedKey(item.refs[n].to, old, new)]
  <2>1. item.refs \in Refs /\ item.files \in SUBSET Files
    BY <1>2 DEF Items
  <2>2. PICK m \in 0..MaxRefs : item.refs \in [1..m -> [slot : Slots, to : Keys]]
    BY <2>1 DEF Refs
  <2>3. ASSUME NEW n \in 1..m PROVE row(n) \in [slot : Slots, to : Keys]
    <3>1. item.refs[n].slot \in Slots /\ item.refs[n].to \in Keys
      BY <2>2
    <3>2. RenamedKey(item.refs[n].to, old, new) \in Keys
      BY <3>1, RenamedKeyType
    <3> QED BY <3>1, <3>2
  <2>4. [n \in DOMAIN item.refs |-> row(n)] \in [1..m -> [slot : Slots, to : Keys]]
    BY <2>2, <2>3
  <2>5. [n \in DOMAIN item.refs |-> row(n)] \in Refs
    BY <2>4 DEF Refs
  <2> QED BY <1>2, <2>1, <2>5 DEF RenamedRefs, Items
<1> QED BY <1>1, <1>2

LEMMA RenamedType ==
  ASSUME NEW table \in OptItems, NEW old \in Names, NEW new \in Names, old # new
  PROVE  [k \in Keys |-> RenamedRefs(Moved(table, old, new)[k], old, new)] \in OptItems
<1>1. ASSUME NEW k \in Keys PROVE Moved(table, old, new)[k] \in {Absent} \cup Items
  <2>1. <<old, k[2]>> \in Keys
    BY KeyType DEF Keys
  <2> QED BY <2>1 DEF Moved, OptItems
<1> QED BY <1>1, RenamedRefsType DEF OptItems

LEMMA DeletedRowsType ==
  ASSUME TypeOK, NEW k \in Keys
  PROVE  /\ DeletedRows(k) \in OptStored
         /\ ~ LiveIn(DeletedRows(k), k)
         /\ \A x \in Keys : x # k => DeletedRows(k)[x] = items[x]
         /\ \A x \in Keys : DeletedRows(k)[x] # Absent => items[x] # Absent
<1>1. items \in OptStored
  BY Types
<1>2. CASE items[k] = Absent
  BY <1>1, <1>2 DEF DeletedRows, OptStored, LiveIn
<1>3. CASE items[k] # Absent
  <2> DEFINE row == [items[k] EXCEPT !.deleted = TRUE]
  <2>1. items[k] \in StoredItems
    BY <1>1, <1>3 DEF OptStored
  <2>2. row \in StoredItems /\ row.deleted = TRUE
    BY <2>1 DEF StoredItems
  <2> HIDE DEF row
  <2>3. DeletedRows(k) = [items EXCEPT ![k] = row]
    BY <1>3 DEF DeletedRows, row
  <2> QED BY <1>1, <1>3, <2>2, <2>3 DEF OptStored, LiveIn
<1> QED BY <1>2, <1>3
-----------------------------------------------------------------------------
(* One lemma per action.                                                    *)

LEMMA InitInv == Init => Inv
<1> SUFFICES ASSUME Init PROVE Inv
  OBVIOUS
<1>1. DOMAIN links = {} /\ links \in [DOMAIN links -> Links]
  BY DEF Init
<1>2. LinkTable(links)
  BY <1>1 DEF LinkTable
<1>3. StoreOK
  BY <1>1, <1>2 DEF Init, StoreOK, StoreInv, LinksMatchItems, FilesAreOwned, Live, LiveIn
<1>4. TypeOK
  BY <1>1, ConstantsAssumption DEF Init, TypeOK
<1> QED BY <1>3, <1>4 DEF Init, Inv, BaselineInv, SnapshotInv

(* Steps that leave the tables of items alone.                              *)
LEMMA SameStore ==
  ASSUME StoreOK, collections \subseteq collections',
         items' = items, links' = links, files' = files, itemFiles' = itemFiles,
         \A k \in Keys : source'[k] = source[k] \/ source'[k] = Absent
  PROVE  StoreOK'
<1>1. StoreInv'
  <2> SUFFICES ASSUME NEW k \in Keys, source'[k] # Absent PROVE Faithful(k)'
    BY DEF StoreInv
  <2>1. source'[k] = source[k] /\ Faithful(k)
    BY DEF StoreOK, StoreInv
  <2> QED BY <2>1 DEF Faithful, Live, LiveIn
<1>2. LinksMatchItems' /\ FilesAreOwned' /\ LinkTable(links')
  BY DEF StoreOK, LinksMatchItems, FilesAreOwned, Live, LiveIn
<1> QED BY <1>1, <1>2 DEF StoreOK, LinkTable

LEMMA StutterInv == ASSUME Inv, UNCHANGED vars PROVE Inv'
<1>1. StoreOK'
  BY SameStore DEF vars, Inv
<1>2. TypeOK' /\ BaselineInv' /\ SnapshotInv'
  BY DEF vars, Inv, TypeOK, BaselineInv, SnapshotInv
<1> QED BY <1>1, <1>2 DEF Inv

LEMMA CollectionSchemaInv ==
  ASSUME Inv, NEW c \in Names, CollectionSchema(c)
  PROVE  Inv'
<1> USE DEF CollectionSchema
<1>1. StoreOK'
  BY SameStore DEF Inv
<1>2. TypeOK'
  BY EventType DEF Inv, TypeOK
<1> QED BY <1>1, <1>2 DEF Inv, BaselineInv, SnapshotInv

LEMMA ItemVanishesInv ==
  ASSUME Inv, NEW k \in Keys, ItemVanishes(k)
  PROVE  Inv'
<1> USE DEF ItemVanishes, store
<1>1. TypeOK /\ source \in OptItems /\ due \in OptKeys /\ candidates \in OptKeys
  BY Types DEF Inv
<1>2. source' \in OptItems /\ \A x \in Keys : source'[x] = IF x = k THEN Absent ELSE source[x]
  BY <1>1 DEF OptItems
<1>3. StoreOK'
  BY <1>2, SameStore DEF Inv
<1>4. TypeOK'
  BY <1>1, <1>2, <1>3, Types, TypesKept, EventType, LessItemType
<1>5. BaselineInv'
  BY <1>2 DEF Inv, BaselineInv
<1>6. SnapshotInv'
  BY <1>1, <1>2 DEF Inv, SnapshotInv, LessItem, OptKeys
<1> QED BY <1>3, <1>4, <1>5, <1>6 DEF Inv

LEMMA DisconnectedInv == ASSUME Inv, Disconnected PROVE Inv'
<1> USE DEF Disconnected, store
<1>1. StoreOK'
  BY SameStore DEF Inv
<1>2. TypeOK'
  BY DEF Inv, TypeOK
<1> QED BY <1>1, <1>2 DEF Inv, BaselineInv, SnapshotInv

LEMMA SnapshotStartInv ==
  ASSUME Inv, NEW scope \in SUBSET Names, SnapshotStart(scope)
  PROVE  Inv'
<1> USE DEF SnapshotStart, store
<1>1. StoreOK'
  BY SameStore DEF Inv
<1>2. TypeOK /\ baseline \in OptItems
  BY Types DEF Inv
<1>3. baseline' \in OptItems
  BY <1>2 DEF OptItems
<1>4. candidates' \in OptKeys /\ due' \in OptKeys
  BY DEF OptKeys
<1>5. TypeOK'
  BY <1>1, <1>2, <1>3, <1>4, Types, TypesKept, EventType
<1>6. BaselineInv' /\ SnapshotInv'
  BY DEF Inv, BaselineInv, SnapshotInv
<1> QED BY <1>1, <1>5, <1>6 DEF Inv

(* What persisting an item keeps, and what it says of the snapshot.         *)
LEMMA PersistInv ==
  ASSUME Inv, Event, NEW k \in Keys, NEW item \in Items, NEW processed,
         k[1] \in collections,
         PersistItem(k, item, processed),
         \A f \in item.files \cap processed : <<k, f>> \in itemFiles,
         source' = [source EXCEPT ![k] = item],
         baseline' = [baseline EXCEPT ![k] = item]
  PROVE  Inv'
<1>1. TypeOK /\ StoreOK
  BY DEF Inv
<1>2. StoreOK' /\ items' \in OptStored
  BY <1>1, PersistKeeps DEF OptStored
<1>3. /\ candidates' = LessItem(candidates, k) /\ due' = LessItem(due, k)
      /\ collections' = collections
  BY DEF PersistItem, Confirmed
<1>4. /\ source \in OptItems /\ baseline \in OptItems
      /\ candidates \in OptKeys /\ due \in OptKeys
      /\ collections \subseteq Names
      /\ \A x \in Keys : items[x] # Absent => x[1] \in collections
  BY <1>1, Types
<1>5. source' \in OptItems /\ baseline' \in OptItems
  BY <1>4 DEF OptItems
<1>6. \A x \in Keys : items'[x] # Absent => x[1] \in collections'
  <2>1. \A x \in Keys : x # k => items'[x] = items[x]
    BY <1>1, Types, PersistLinks DEF OptStored
  <2> QED BY <2>1, <1>3, <1>4
<1>7. TypeOK'
  BY <1>1, <1>2, <1>3, <1>4, <1>5, <1>6, TypesKept, EventType, LessItemType
<1>8. BaselineInv'
  BY <1>3, <1>4 DEF Inv, BaselineInv, OptItems
<1>9. SnapshotInv'
  <2>1. \A x \in Keys : x # k => source'[x] = source[x]
    BY <1>4 DEF OptItems
  <2> QED BY <2>1, <1>3, <1>4 DEF Inv, SnapshotInv, LessItem, OptKeys
<1> QED BY <1>2, <1>7, <1>8, <1>9 DEF Inv

LEMMA ItemChangedInv ==
  ASSUME Inv, NEW k \in Keys, NEW item \in Items, ItemChanged(k, item)
  PROVE  Inv'
BY PersistInv DEF ItemChanged

LEMMA ItemPatchedInv ==
  ASSUME Inv, NEW k \in Keys, ItemPatched(k)
  PROVE  Inv'
<1> USE DEF ItemPatched
<1>1. source \in OptItems /\ baseline \in OptItems
  BY Types DEF Inv
<1>2. baseline[k] = source[k] /\ baseline[k] \in Items
  BY <1>1 DEF Inv, BaselineInv, OptItems
<1>3. source' = [source EXCEPT ![k] = baseline[k]] /\ baseline' = [baseline EXCEPT ![k] = baseline[k]]
  BY <1>1, <1>2 DEF OptItems
<1>4. Faithful(k)
  BY DEF Inv, StoreOK, StoreInv
<1>5. \A f \in baseline[k].files : <<k, f>> \in itemFiles
  <2>1. baseline[k].files \subseteq Files
    BY <1>2 DEF Items
  <2> QED BY <2>1, <1>2, <1>4 DEF Faithful, Inv, StoreOK, FilesAreOwned
<1> QED BY <1>2, <1>3, <1>4, <1>5, PersistInv DEF Faithful

LEMMA ItemDeletedInv ==
  ASSUME Inv, NEW k \in Keys, ItemDeleted(k)
  PROVE  Inv'
<1>1. TypeOK /\ StoreOK
  BY DEF Inv
<1>2. /\ source \in OptItems /\ baseline \in OptItems
      /\ candidates \in OptKeys /\ due \in OptKeys
      /\ collections \subseteq Names /\ collections' = collections
      /\ \A x \in Keys : items[x] # Absent => x[1] \in collections
  BY <1>1, Types DEF ItemDeleted
<1>3. /\ items' \in OptStored /\ ~ LiveIn(items', k)
      /\ \A x \in Keys : x # k => items'[x] = items[x]
      /\ \A x \in Keys : items'[x] # Absent => items[x] # Absent
  BY <1>1, DeletedRowsType DEF ItemDeleted
<1>4. source' = [source EXCEPT ![k] = Absent] /\ baseline' = [baseline EXCEPT ![k] = Absent]
  BY DEF ItemDeleted
<1>5. /\ source' \in OptItems /\ baseline' \in OptItems
      /\ \A x \in Keys : source'[x] = IF x = k THEN Absent ELSE source[x]
      /\ \A x \in Keys : baseline'[x] = IF x = k THEN Absent ELSE baseline[x]
  BY <1>2, <1>4 DEF OptItems
<1>6. StoreOK'
  <2>1. links' = Without(links, LinksByRef(links, k)) /\ DeleteFilesByItems({k})
    BY DEF ItemDeleted
  <2>2. \A n \in DOMAIN links : links[n].from \in {k} => n \in LinksByRef(links, k)
    BY DEF LinksByRef
  <2>3. {k} \in SUBSET Keys
    OBVIOUS
  <2> QED BY <1>1, <1>2, <1>3, <1>5, <2>1, <2>2, <2>3, DropKeeps
<1>7. /\ candidates' = LessItem(candidates, k) /\ due' = LessItem(due, k)
      /\ Event
  BY DEF ItemDeleted
<1>8. TypeOK'
  BY <1>1, <1>2, <1>3, <1>5, <1>6, <1>7, TypesKept, EventType, LessItemType
<1>9. BaselineInv'
  BY <1>2, <1>5 DEF Inv, BaselineInv
<1>10. SnapshotInv'
  BY <1>2, <1>5, <1>7 DEF Inv, SnapshotInv, LessItem, OptKeys
<1> QED BY <1>6, <1>8, <1>9, <1>10 DEF Inv

LEMMA SnapshotEndInv == ASSUME Inv, SnapshotEnd PROVE Inv'
<1>1. TypeOK /\ StoreOK
  BY DEF Inv
<1>2. /\ source \in OptItems /\ baseline \in OptItems /\ items \in OptStored
      /\ candidates \in OptKeys
      /\ collections \subseteq Names
      /\ \A x \in Keys : items[x] # Absent => x[1] \in collections
  BY <1>1, Types
<1>3. /\ candidates' = Absent /\ due' = Absent /\ collections' = collections
      /\ source' = source /\ baseline' = baseline /\ Event
  BY DEF SnapshotEnd, store
<1>4. BaselineInv' /\ SnapshotInv'
  BY <1>3 DEF Inv, BaselineInv, SnapshotInv
<1>5. CASE candidates = Absent
  <2>1. UNCHANGED store
    BY <1>5 DEF SnapshotEnd
  <2>2. StoreOK'
    BY <1>1, <1>3, <2>1, SameStore DEF store
  <2>3. TypeOK'
    BY <1>1, <1>2, <1>3, <2>1, <2>2, TypesKept, EventType DEF store, OptKeys
  <2> QED BY <1>4, <2>2, <2>3 DEF Inv
<1>6. CASE candidates # Absent
  <2>1. /\ DeleteFilesByItems(candidates)
        /\ links' = Without(links, UNION {LinksByRef(links, k) : k \in candidates})
        /\ items' = [k \in Keys |-> IF k \in candidates THEN DeletedRows(k)[k] ELSE items[k]]
        /\ collections' = collections
    BY <1>6 DEF SnapshotEnd
  <2>2. candidates \in SUBSET Keys
    BY <1>2, <1>6 DEF OptKeys
  <2>3. \A k \in candidates : source[k] = Absent
    BY <1>6, <2>2 DEF Inv, SnapshotInv, SnapshotEnd
  <2>4. ASSUME NEW k \in Keys
        PROVE  /\ items'[k] \in {Absent} \cup StoredItems
               /\ k \in candidates => ~ LiveIn(items', k)
               /\ k \notin candidates => items'[k] = items[k]
               /\ items'[k] # Absent => items[k] # Absent
    <3>1. CASE k \in candidates
      <4>1. /\ items'[k] = DeletedRows(k)[k]
            /\ DeletedRows(k) \in OptStored /\ ~ LiveIn(DeletedRows(k), k)
            /\ DeletedRows(k)[k] # Absent => items[k] # Absent
        BY <1>1, <2>1, <3>1, DeletedRowsType
      <4> QED BY <3>1, <4>1 DEF OptStored, LiveIn
    <3>2. CASE k \notin candidates
      BY <3>2, <2>1, <1>2 DEF OptStored
    <3> QED BY <3>1, <3>2
  <2>5. items' \in OptStored
    BY <2>1, <2>4 DEF OptStored
  <2>6. StoreOK'
    <3> DEFINE rows == UNION {LinksByRef(links, k) : k \in candidates}
    <3>1. \A n \in DOMAIN links : links[n].from \in candidates => n \in rows
      BY DEF LinksByRef
    <3>2. links' = Without(links, rows)
      BY <2>1
    <3> HIDE DEF rows
    <3> QED BY <1>1, <1>3, <2>1, <2>2, <2>3, <2>4, <3>1, <3>2, DropKeeps
  <2>7. TypeOK'
    BY <1>1, <1>2, <1>3, <2>1, <2>4, <2>5, <2>6, TypesKept, EventType DEF OptKeys
  <2> QED BY <1>4, <2>6, <2>7 DEF Inv
<1> QED BY <1>5, <1>6

(* Removing a collection takes every link of its items: a link has a live   *)
(* owner, so no row of the collection is missed.                            *)
LEMMA RemoveKeeps ==
  ASSUME TypeOK, StoreOK, NEW c \in Names, RemoveTables(c),
         \A k \in Keys : source'[k] = IF k[1] = c THEN Absent ELSE source[k]
  PROVE  StoreOK' /\ items' \in OptStored /\ collections' \subseteq Names
         /\ \A k \in Keys : items'[k] # Absent => k[1] \in collections'
<1>1. /\ collections' = collections \ {c}
      /\ DeleteFilesByItems(KeysOf(c))
      /\ links' = Without(links, RowsRemoved(c))
      /\ items' = [k \in Keys |-> IF k[1] = c THEN Absent ELSE items[k]]
  BY DEF RemoveTables
<1>2. KeysOf(c) \in SUBSET Keys /\ \A k \in Keys : k \in KeysOf(c) <=> k[1] = c
  BY DEF KeysOf
<1>3. ASSUME NEW n \in DOMAIN links, links[n].from \in KeysOf(c)
      PROVE  n \in RowsRemoved(c)
  <2>1. items[links[n].from] # Absent
    BY DEF StoreOK, LinksMatchItems, Live, LiveIn
  <2>2. n \in LinksByRef(links, links[n].from)
    BY DEF LinksByRef
  <2> QED BY <1>3, <2>1, <2>2 DEF RowsRemoved
<1>4. \A k \in KeysOf(c) : ~ LiveIn(items', k) /\ source'[k] = Absent
  BY <1>1, <1>2 DEF LiveIn
<1>5. \A k \in Keys \ KeysOf(c) : items'[k] = items[k]
  BY <1>1, <1>2
<1>6. \A k \in Keys \ KeysOf(c) : k[1] \in collections => k[1] \in collections'
  BY <1>1, <1>2
<1>7. \A k \in Keys : source'[k] = source[k] \/ source'[k] = Absent
  OBVIOUS
<1>8. StoreOK'
  BY <1>1, <1>2, <1>3, <1>4, <1>5, <1>6, <1>7, DropKeeps
<1> QED BY <1>1, <1>8, Types DEF OptStored

LEMMA CollectionRemovedInv ==
  ASSUME Inv, NEW c \in Names, CollectionRemoved(c)
  PROVE  Inv'
<1>1. TypeOK /\ StoreOK
  BY DEF Inv
<1>2. source \in OptItems /\ baseline \in OptItems /\ due \in OptKeys
  BY <1>1, Types
<1>3. /\ source' = [k \in Keys |-> IF k[1] = c THEN Absent ELSE source[k]]
      /\ baseline' = [k \in Keys |-> IF k[1] = c THEN Absent ELSE baseline[k]]
      /\ candidates' = Absent
      /\ due' = IF due = Absent THEN Absent ELSE due \ KeysOf(c)
      /\ collections' = collections \ {c} /\ Event /\ RemoveTables(c)
  BY DEF CollectionRemoved, RemoveTables
<1>4. source' \in OptItems /\ baseline' \in OptItems /\ due' \in OptKeys /\ candidates' \in OptKeys
  BY <1>2, <1>3 DEF OptItems, OptKeys
<1>6. /\ StoreOK' /\ items' \in OptStored /\ collections' \subseteq Names
      /\ \A k \in Keys : items'[k] # Absent => k[1] \in collections'
  BY <1>1, <1>3, RemoveKeeps
<1>7. TypeOK'
  BY <1>1, <1>3, <1>4, <1>6, TypesKept, EventType
<1>8. BaselineInv' /\ SnapshotInv'
  BY <1>3 DEF Inv, BaselineInv, SnapshotInv
<1> QED BY <1>6, <1>7, <1>8 DEF Inv

LEMMA CollectionRenamedInv ==
  ASSUME Inv, NEW old \in Names, NEW new \in Names, CollectionRenamed(old, new)
  PROVE  Inv'
<1>1. TypeOK /\ StoreOK
  BY DEF Inv
<1>2. /\ source \in OptItems /\ baseline \in OptItems /\ items \in OptStored
      /\ due \in OptKeys /\ collections \subseteq Names
      /\ \A k \in Keys : items[k] # Absent => k[1] \in collections
      /\ \A k \in Keys : source[k] # Absent => k[1] \in collections
      /\ \A k \in Keys : baseline[k] # Absent => k[1] \in collections
  BY <1>1, Types DEF Inv, BaselineInv, StoreOK, StoreInv, Faithful
<1>3. /\ old # new /\ ~(old \in collections /\ new \in collections)
      /\ Event /\ RenameTables(old, new)
      /\ collections' = IF old \in collections THEN (collections \ {old}) \cup {new} ELSE collections
      /\ items' = Moved(items, old, new)
      /\ source' = [k \in Keys |-> RenamedRefs(Moved(source, old, new)[k], old, new)]
      /\ baseline' = [k \in Keys |-> RenamedRefs(Moved(baseline, old, new)[k], old, new)]
      /\ candidates' = Absent
      /\ due' = IF due = Absent THEN Absent ELSE {RenamedKey(k, old, new) : k \in due}
  BY DEF CollectionRenamed, RenameTables, RenamedBaseline
<1>4. StoreOK'
  BY <1>1, <1>3, RenameKeeps
<1>5. source' \in OptItems /\ baseline' \in OptItems
  BY <1>2, <1>3, RenamedType
<1>6. due' \in OptKeys /\ candidates' \in OptKeys
  <2>1. CASE due = Absent
    BY <2>1, <1>3 DEF OptKeys
  <2>2. CASE due # Absent
    <3>1. due \in SUBSET Keys
      BY <2>2, <1>2 DEF OptKeys
    <3>2. \A k \in due : RenamedKey(k, old, new) \in Keys
      BY <3>1, <1>3, RenamedKeyType
    <3> QED BY <2>2, <3>2, <1>3 DEF OptKeys
  <2> QED BY <2>1, <2>2, <1>3 DEF OptKeys
<1>7. collections' \subseteq Names
  BY <1>2, <1>3
<1>8. ASSUME NEW k \in Keys, k[1] # old, FormerKey(k, old, new)[1] \in collections
      PROVE  k[1] \in collections'
  BY <1>3, <1>8 DEF FormerKey
<1>9. ASSUME NEW k \in Keys
      PROVE  /\ items'[k] \in {Absent} \cup StoredItems
             /\ items'[k] # Absent => k[1] \in collections'
  <2>1. CASE k[1] = old
    BY <2>1, <1>3 DEF Moved
  <2>2. CASE k[1] # old
    <3>1. FormerKey(k, old, new) \in Keys /\ items'[k] = items[FormerKey(k, old, new)]
      BY <2>2, <1>2, <1>3, MovedRows
    <3> QED BY <2>2, <3>1, <1>2, <1>8 DEF OptStored
  <2> QED BY <2>1, <2>2
<1>10. items' \in OptStored
  BY <1>3, <1>9 DEF OptStored, Moved
<1>11. TypeOK'
  BY <1>1, <1>3, <1>4, <1>5, <1>6, <1>7, <1>9, <1>10, TypesKept, EventType
<1>12. BaselineInv'
  <2> SUFFICES ASSUME NEW k \in Keys, baseline'[k] # Absent
               PROVE  k[1] \in collections' /\ (source'[k] # Absent => baseline'[k] = source'[k])
    BY DEF BaselineInv
  <2> DEFINE was == FormerKey(k, old, new)
  <2>1. /\ source'[k] = RenamedRefs(Moved(source, old, new)[k], old, new)
        /\ baseline'[k] = RenamedRefs(Moved(baseline, old, new)[k], old, new)
    BY <1>3
  <2>2. k[1] # old
    <3>1. RenamedRefs(Absent, old, new) = Absent
      BY DEF RenamedRefs
    <3> QED BY <2>1, <3>1, <1>2, <1>3, MovedRows
  <2>3. /\ was \in Keys
        /\ Moved(source, old, new)[k] = source[was]
        /\ Moved(baseline, old, new)[k] = baseline[was]
    BY <2>2, <1>2, <1>3, MovedRows
  <2>4. baseline[was] # Absent /\ (source'[k] # Absent => source[was] # Absent)
    BY <2>1, <2>3 DEF RenamedRefs
  <2>5. was[1] \in collections /\ (source[was] # Absent => baseline[was] = source[was])
    BY <2>3, <2>4 DEF Inv, BaselineInv
  <2> HIDE DEF was
  <2>6. k[1] \in collections'
    BY <2>2, <2>5, <1>8 DEF was
  <2> QED BY <2>1, <2>3, <2>4, <2>5, <2>6
<1>13. SnapshotInv'
  BY <1>3 DEF SnapshotInv
<1> QED BY <1>4, <1>11, <1>12, <1>13 DEF Inv
-----------------------------------------------------------------------------
LEMMA NextInv == ASSUME Inv, [Next]_vars PROVE Inv'
<1>1. CASE \E c \in Names : CollectionSchema(c) \/ CollectionRemoved(c)
  BY <1>1, CollectionSchemaInv, CollectionRemovedInv
<1>2. CASE \E old, new \in Names : CollectionRenamed(old, new)
  BY <1>2, CollectionRenamedInv
<1>4. CASE SnapshotEnd
  BY <1>4, SnapshotEndInv
<1>5. CASE Disconnected
  BY <1>5, DisconnectedInv
<1>6. CASE \E scope \in SUBSET Names : SnapshotStart(scope)
  BY <1>6, SnapshotStartInv
<1>7. CASE \E k \in Keys : ItemPatched(k) \/ ItemDeleted(k) \/ ItemVanishes(k)
  BY <1>7, ItemPatchedInv, ItemDeletedInv, ItemVanishesInv
<1>8. CASE \E k \in Keys, item \in Items : ItemChanged(k, item)
  BY <1>8, ItemChangedInv
<1>9. CASE UNCHANGED vars
  BY <1>9, StutterInv
<1> QED BY <1>1, <1>2, <1>4, <1>5, <1>6, <1>7, <1>8, <1>9 DEF Next

(* What the tables promise follows from the invariant.                      *)
LEMMA InvRefs == ASSUME Inv PROVE RefsAreTrue
<1> SUFFICES ASSUME NEW k \in Keys, source[k] # Absent
             PROVE  /\ Live(k)
                    /\ DOMAIN items[k].refs = DOMAIN source[k].refs
                    /\ \A n \in DOMAIN items[k].refs :
                         Resolved(k, items[k].refs[n]) \in {source[k].refs[n].to, Absent}
  BY DEF RefsAreTrue
<1>1. Faithful(k)
  BY DEF Inv, StoreOK, StoreInv
<1> QED BY <1>1 DEF Faithful, Resolved, ResolvedIn

(* The tables are right at every moment, whatever the number of             *)
(* collections, items and references and however events are interleaved     *)
(* with reconnections: this is the invariant the others come from.          *)
THEOREM TablesAreRight == Spec => []Inv
<1>1. Init => Inv
  BY InitInv
<1>2. Inv /\ [Next]_vars => Inv'
  BY NextInv
<1> QED BY <1>1, <1>2, PTL DEF Spec

(* Rows keep their types, and an item has a collection: the upserts, moves   *)
(* and cascades of connect.ts leave no row half changed.                     *)
THEOREM TypeCorrect == Spec => []TypeOK
<1>1. Inv => TypeOK
  BY DEF Inv
<1> QED BY <1>1, TablesAreRight, PTL

(* A stored reference never resolves to another item than the one its source *)
(* names, although the numbers of deleted rows are given again (link.ts).    *)
THEOREM ReferencesAreTrue == Spec => []RefsAreTrue
<1>1. Inv => RefsAreTrue
  BY InvRefs
<1> QED BY <1>1, TablesAreRight, PTL

(* internal_links has exactly the rows that live items point to: the deletes *)
(* of persistItem, deleteItem and the two lifecycle handlers miss none.      *)
THEOREM LinksAreOwned == Spec => []LinksMatchItems
<1>1. Inv => LinksMatchItems
  BY DEF Inv, StoreOK
<1> QED BY <1>1, TablesAreRight, PTL

(* Neither the pruning at the end of a snapshot nor a rename loses an item   *)
(* that its source still has.                                                *)
THEOREM NoLiveItemLost == Spec => []LiveItemsKept
<1>1. Inv => LiveItemsKept
  BY DEF Inv, StoreOK, StoreInv, Faithful, LiveItemsKept
<1> QED BY <1>1, TablesAreRight, PTL

(* A file is kept while an item shows it and deleted with the last one       *)
(* (deleteFilesByItems, processFiles).                                       *)
THEOREM FilesFollowItems == Spec => []FilesAreOwned
<1>1. Inv => FilesAreOwned
  BY DEF Inv, StoreOK
<1> QED BY <1>1, TablesAreRight, PTL
-----------------------------------------------------------------------------
(* Relations.                                                               *)

(* A snapshot captures live items, and none of them goes before it ends.    *)
CapturedInv == candidates # Absent => \A k \in candidates : Live(k)

LEMMA CapturedStep == ASSUME Inv, CapturedInv, [Next]_vars PROVE CapturedInv'
<1>1. TypeOK /\ StoreOK /\ candidates \in OptKeys /\ items \in OptStored
  BY Types DEF Inv
<1>2. CASE candidates' = Absent
  BY <1>2 DEF CapturedInv
<1>3. CASE candidates' = candidates /\ items' = items
  BY <1>3 DEF CapturedInv, Live, LiveIn
<1>4. ASSUME NEW scope \in SUBSET Names, SnapshotStart(scope) PROVE CapturedInv'
  BY <1>4 DEF SnapshotStart, store, CapturedInv, Live, LiveIn
<1>5. ASSUME NEW k \in Keys, NEW item \in Items, NEW processed, PersistItem(k, item, processed)
      PROVE  CapturedInv'
  <2>1. LiveIn(items', k) /\ items' = [items EXCEPT ![k] = items'[k]]
    BY <1>1, <1>5, PersistLinks
  <2>2. \A x \in Keys : x # k => items'[x] = items[x]
    BY <1>1, <2>1 DEF OptStored
  <2>3. candidates' = LessItem(candidates, k)
    BY <1>5 DEF PersistItem, Confirmed
  <2> QED BY <1>1, <2>1, <2>2, <2>3 DEF CapturedInv, Live, LiveIn, LessItem, OptKeys
<1>6. ASSUME NEW k \in Keys, ItemPatched(k) PROVE CapturedInv'
  <2>1. baseline[k] \in Items /\ PersistItem(k, baseline[k], ContentFiles)
    BY <1>1, <1>6, Types DEF ItemPatched, OptItems
  <2> QED BY <2>1, <1>5
<1>7. ASSUME NEW k \in Keys, ItemDeleted(k) PROVE CapturedInv'
  <2>1. \A x \in Keys : x # k => items'[x] = items[x]
    BY <1>1, <1>7, DeletedRowsType DEF ItemDeleted
  <2>2. candidates' = LessItem(candidates, k)
    BY <1>7 DEF ItemDeleted
  <2> QED BY <1>1, <2>1, <2>2 DEF CapturedInv, Live, LiveIn, LessItem, OptKeys
<1>8. CASE \E c \in Names : CollectionSchema(c) \/ CollectionRemoved(c)
  BY <1>2, <1>3, <1>8 DEF CollectionSchema, CollectionRemoved
<1>9. CASE \E old, new \in Names : CollectionRenamed(old, new)
  BY <1>2, <1>9 DEF CollectionRenamed
<1>10. CASE SnapshotEnd \/ Disconnected
  BY <1>2, <1>10 DEF SnapshotEnd, Disconnected
<1>11. CASE \E k \in Keys : ItemVanishes(k)
  BY <1>3, <1>11 DEF ItemVanishes, store
<1>12. CASE \E k \in Keys, item \in Items : ItemChanged(k, item)
  BY <1>5, <1>12 DEF ItemChanged
<1>13. CASE UNCHANGED vars
  BY <1>3, <1>13 DEF vars
<1> QED BY <1>4, <1>6, <1>7, <1>8, <1>9, <1>10, <1>11, <1>12, <1>13 DEF Next

(* What RelationsStay says of a step and one item.                          *)
RelationsKept(k) ==
  LET now == RenamedTo(k) IN
  source[k] # Absent /\ source'[now] # Absent =>
    \A n \in DOMAIN items[k].refs \cap DOMAIN items'[now].refs :
      Resolved(k, items[k].refs[n]) # Absent =>
        \/ Goes(source[k].refs[n].to)
        \/ ResolvedIn(links', now, items'[now].refs[n]) = source'[now].refs[n].to

(* While no collection goes or comes in place of another, names stay.       *)
LEMMA NamesStay ==
  ASSUME collections' \subseteq collections \/ collections \subseteq collections'
  PROVE  \A k : RenamedTo(k) = k
BY DEF RenamedTo

(* A reference that resolves has a row, and it leads where the source says. *)
LEMMA ResolvedRow ==
  ASSUME Inv, NEW k \in Keys, source[k] # Absent,
         NEW n \in DOMAIN items[k].refs, Resolved(k, items[k].refs[n]) # Absent
  PROVE  /\ Live(k) /\ k[1] \in collections
         /\ n \in DOMAIN source[k].refs
         /\ items[k].refs[n].link \in DOMAIN links
         /\ links[items[k].refs[n].link].from = k
         /\ links[items[k].refs[n].link].slot = items[k].refs[n].slot
         /\ links[items[k].refs[n].link].to = source[k].refs[n].to
<1>1. Faithful(k)
  BY DEF Inv, StoreOK, StoreInv
<1> QED BY <1>1 DEF Faithful, Resolved, ResolvedIn

(* Steps that take some items, with the links from and to them, and leave   *)
(* the other rows alone.                                                    *)
LEMMA DropStays ==
  ASSUME Inv, \A x : RenamedTo(x) = x,
         NEW ks \in SUBSET Keys, NEW rows,
         links' = Without(links, rows),
         \A n \in DOMAIN links : n \in rows => links[n].from \in ks \/ links[n].to \in ks,
         \A x \in Keys \ ks : items'[x] = items[x] /\ source'[x] = source[x],
         \A x \in ks : source'[x] = Absent /\ Goes(x),
         NEW k \in Keys
  PROVE  RelationsKept(k)
<1> SUFFICES ASSUME source[k] # Absent, source'[k] # Absent,
                    NEW n \in DOMAIN items[k].refs, Resolved(k, items[k].refs[n]) # Absent
             PROVE  \/ Goes(source[k].refs[n].to)
                    \/ ResolvedIn(links', k, items'[k].refs[n]) = source'[k].refs[n].to
  BY DEF RelationsKept
<1> DEFINE id == items[k].refs[n].link
           to == source[k].refs[n].to
<1>1. /\ id \in DOMAIN links /\ links[id].from = k
      /\ links[id].slot = items[k].refs[n].slot /\ links[id].to = to
  BY ResolvedRow
<1>2. k \notin ks /\ items'[k] = items[k] /\ source'[k] = source[k]
  OBVIOUS
<1>3. CASE to \in ks
  BY <1>3
<1>4. CASE to \notin ks
  <2>1. id \notin rows
    BY <1>1, <1>2, <1>4
  <2>2. id \in DOMAIN links' /\ links'[id] = links[id]
    BY <1>1, <2>1 DEF Without
  <2> QED BY <1>1, <1>2, <2>2 DEF ResolvedIn
<1> QED BY <1>3, <1>4

LEMMA SameStays ==
  ASSUME Inv, \A x : RenamedTo(x) = x, links' = links, items' = items,
         \A x \in Keys : source'[x] = source[x] \/ source'[x] = Absent,
         NEW k \in Keys
  PROVE  RelationsKept(k)
<1> SUFFICES ASSUME source[k] # Absent, source'[k] # Absent,
                    NEW n \in DOMAIN items[k].refs, Resolved(k, items[k].refs[n]) # Absent
             PROVE  ResolvedIn(links', k, items'[k].refs[n]) = source'[k].refs[n].to
  BY DEF RelationsKept
<1> QED BY ResolvedRow DEF ResolvedIn

(* An item that is written gets new rows, which lead where its source says; *)
(* the rows of other items stay.                                            *)
LEMMA PersistStays ==
  ASSUME Inv, \A x : RenamedTo(x) = x,
         NEW w \in Keys, NEW item \in Items, NEW processed,
         PersistItem(w, item, processed), source' = [source EXCEPT ![w] = item],
         NEW k \in Keys
  PROVE  RelationsKept(k)
<1>1. TypeOK /\ StoreOK /\ items \in OptStored /\ source \in OptItems
  BY Types DEF Inv
<1> SUFFICES ASSUME source[k] # Absent,
                    NEW n \in DOMAIN items[k].refs \cap DOMAIN items'[k].refs,
                    Resolved(k, items[k].refs[n]) # Absent
             PROVE  ResolvedIn(links', k, items'[k].refs[n]) = source'[k].refs[n].to
  BY DEF RelationsKept
<1> DEFINE id == items[k].refs[n].link
<1>2. /\ id \in DOMAIN links /\ links[id].from = k
      /\ links[id].slot = items[k].refs[n].slot /\ links[id].to = source[k].refs[n].to
  BY ResolvedRow
<1> HIDE DEF id
<1>3. items' = [items EXCEPT ![w] = items'[w]] /\ DOMAIN items'[w].refs = DOMAIN item.refs
  BY <1>1, PersistLinks
<1>4. \A m \in DOMAIN item.refs :
        /\ items'[w].refs[m] = [slot |-> item.refs[m].slot, link |-> items'[w].refs[m].link]
        /\ items'[w].refs[m].slot = item.refs[m].slot
        /\ items'[w].refs[m].link \in DOMAIN links'
        /\ links'[items'[w].refs[m].link] =
             [from |-> w, slot |-> item.refs[m].slot, to |-> item.refs[m].to]
  BY <1>1, PersistLinks
<1>5. \A i \in DOMAIN links :
        links[i].from # w => i \in DOMAIN links' /\ links'[i] = links[i]
  BY <1>1, PersistLinks
<1>6. CASE k # w
  <2>1. items'[k] = items[k] /\ source'[k] = source[k]
    BY <1>1, <1>3, <1>6 DEF OptStored, OptItems
  <2>2. id \in DOMAIN links' /\ links'[id] = links[id]
    BY <1>2, <1>5, <1>6
  <2> QED BY <1>2, <2>1, <2>2 DEF id, ResolvedIn
<1>7. CASE k = w
  <2>1. n \in DOMAIN item.refs /\ source'[k] = item
    BY <1>1, <1>3, <1>7 DEF OptItems
  <2>2. /\ items'[k].refs[n].link \in DOMAIN links'
        /\ links'[items'[k].refs[n].link] =
             [from |-> k, slot |-> items'[k].refs[n].slot, to |-> item.refs[n].to]
    BY <1>4, <1>7, <2>1
  <2> QED BY <2>1, <2>2 DEF ResolvedIn
<1> QED BY <1>6, <1>7

(* A rename takes items, the owners of their links and the targets alike.   *)
LEMMA RenameStays ==
  ASSUME Inv, NEW old \in Names, NEW new \in Names, CollectionRenamed(old, new),
         NEW k \in Keys
  PROVE  RelationsKept(k)
<1> DEFINE now == RenamedTo(k)
<1> SUFFICES ASSUME source[k] # Absent,
                    NEW n \in DOMAIN items[k].refs, Resolved(k, items[k].refs[n]) # Absent
             PROVE  ResolvedIn(links', now, items'[now].refs[n]) = source'[now].refs[n].to
  BY DEF RelationsKept
<1> DEFINE id == items[k].refs[n].link
           to == source[k].refs[n].to
<1>1. /\ \A x \in Keys : items[x] # Absent => x[1] \in collections
      /\ \A x \in Keys : source[x] # Absent => x[1] \in collections
  BY Types DEF Inv, StoreOK, StoreInv, Faithful
<1>2. /\ old # new /\ ~(old \in collections /\ new \in collections)
      /\ collections' = (IF old \in collections THEN (collections \ {old}) \cup {new} ELSE collections)
      /\ items' = Moved(items, old, new) /\ links' = RenamedLinks(old, new)
      /\ source' = [x \in Keys |-> RenamedRefs(Moved(source, old, new)[x], old, new)]
  BY DEF CollectionRenamed, RenameTables
<1>3. /\ id \in DOMAIN links /\ links[id].from = k /\ k[1] \in collections
      /\ links[id].slot = items[k].refs[n].slot /\ links[id].to = to
      /\ n \in DOMAIN source[k].refs
  BY ResolvedRow
<1>4. now = RenamedKey(k, old, new)
  <2>1. CASE old \in collections
    <3>1. collections \ collections' = {old} /\ collections' \ collections = {new}
      BY <1>2, <2>1
    <3> QED BY <3>1 DEF RenamedTo, RenamedKey
  <2>2. CASE old \notin collections
    <3>1. now = k /\ k[1] # old
      BY <1>2, <1>3, <2>2, NamesStay
    <3> QED BY <3>1 DEF RenamedKey
  <2> QED BY <2>1, <2>2
<1> HIDE DEF now
<1>5. now \in Keys /\ Moved(items, old, new)[now] = items[k]
  BY <1>1, <1>2, <1>3, <1>4, MovedRows
<1>6. Moved(source, old, new)[now] = source[k]
  BY <1>1, <1>2, <1>3, <1>4, MovedRows
<1>7. items'[now] = items[k] /\ source'[now].refs[n].to = RenamedKey(to, old, new)
  BY <1>2, <1>3, <1>5, <1>6 DEF RenamedRefs
<1>8. /\ id \in DOMAIN links'
      /\ links'[id].from = now
      /\ links'[id].slot = items[k].refs[n].slot
      /\ links'[id].to = RenamedKey(to, old, new)
  BY <1>2, <1>3, <1>4 DEF RenamedLinks
<1> QED BY <1>7, <1>8 DEF ResolvedIn

LEMMA RemoveStays ==
  ASSUME Inv, NEW c \in Names, CollectionRemoved(c), NEW k \in Keys
  PROVE  RelationsKept(k)
<1> DEFINE ks == {x \in KeysOf(c) : items[x] # Absent}
<1>1. /\ collections' \subseteq collections /\ links' = Without(links, RowsRemoved(c))
      /\ items' = [x \in Keys |-> IF x[1] = c THEN Absent ELSE items[x]]
      /\ source' = [x \in Keys |-> IF x[1] = c THEN Absent ELSE source[x]]
  BY DEF CollectionRemoved, RemoveTables
<1>2. \A x : RenamedTo(x) = x
  BY <1>1, NamesStay
<1>3. ks \in SUBSET Keys /\ \A x \in Keys : x \in ks <=> x[1] = c /\ items[x] # Absent
  BY DEF KeysOf
<1>4. \A n \in DOMAIN links : n \in RowsRemoved(c) => links[n].from \in ks \/ links[n].to \in ks
  BY DEF RowsRemoved, LinksByRef
<1> HIDE DEF ks
<1>5. ASSUME NEW x \in Keys \ ks PROVE items'[x] = items[x] /\ source'[x] = source[x]
  <2>1. CASE x[1] = c
    <3>1. items[x] = Absent
      BY <1>3, <2>1
    <3>2. source[x] = Absent
      BY <3>1 DEF Inv, StoreOK, StoreInv, Faithful, Live, LiveIn
    <3> QED BY <1>1, <3>1, <3>2
  <2>2. CASE x[1] # c
    BY <1>1, <2>2
  <2> QED BY <2>1, <2>2
<1>6. ASSUME NEW x \in ks PROVE source'[x] = Absent /\ Goes(x)
  <2>1. items[x] # Absent /\ items'[x] = Absent /\ source'[x] = Absent
    BY <1>1, <1>3
  <2> QED BY <2>1, <1>2 DEF Goes, LiveIn
<1> QED BY <1>1, <1>2, <1>3, <1>4, <1>5, <1>6, DropStays

LEMMA DeleteStays ==
  ASSUME Inv, NEW w \in Keys, ItemDeleted(w), NEW k \in Keys
  PROVE  RelationsKept(k)
<1>1. TypeOK /\ source \in OptItems
  BY Types DEF Inv
<1>2. /\ links' = Without(links, LinksByRef(links, w)) /\ collections' = collections
      /\ items' = DeletedRows(w) /\ source' = [source EXCEPT ![w] = Absent]
  BY DEF ItemDeleted
<1>3. \A x : RenamedTo(x) = x
  BY <1>2, NamesStay
<1>4. \A x \in Keys \ {w} : items'[x] = items[x] /\ source'[x] = source[x]
  BY <1>1, <1>2, DeletedRowsType DEF OptItems
<1>5. \A x \in {w} : source'[x] = Absent /\ Goes(x)
  <2>1. source'[w] = Absent
    BY <1>1, <1>2 DEF OptItems
  <2>2. Goes(w)
    BY DEF Goes
  <2> QED BY <2>1, <2>2
<1>6. \A n \in DOMAIN links :
         n \in LinksByRef(links, w) => links[n].from \in {w} \/ links[n].to \in {w}
  BY DEF LinksByRef
<1>7. {w} \in SUBSET Keys
  OBVIOUS
<1> QED BY <1>2, <1>3, <1>4, <1>5, <1>6, <1>7, DropStays

LEMMA PruneStays ==
  ASSUME Inv, CapturedInv, SnapshotEnd, NEW k \in Keys
  PROVE  RelationsKept(k)
<1>1. TypeOK /\ StoreOK /\ candidates \in OptKeys /\ source' = source
  BY Types DEF Inv, SnapshotEnd
<1>2. CASE candidates = Absent
  <2>1. links' = links /\ items' = items /\ collections' = collections
    BY <1>2 DEF SnapshotEnd, store
  <2> QED BY <1>1, <2>1, NamesStay, SameStays
<1>3. CASE candidates # Absent
  <2> DEFINE rows == UNION {LinksByRef(links, x) : x \in candidates}
  <2>1. /\ links' = Without(links, rows) /\ collections' = collections
        /\ items' = [x \in Keys |-> IF x \in candidates THEN DeletedRows(x)[x] ELSE items[x]]
    BY <1>3 DEF SnapshotEnd
  <2>2. candidates \in SUBSET Keys /\ \A x \in candidates : Live(x)
    BY <1>1, <1>3 DEF OptKeys, CapturedInv
  <2>3. \A n \in DOMAIN links :
           n \in rows => links[n].from \in candidates \/ links[n].to \in candidates
    BY DEF LinksByRef
  <2>4. \A x \in Keys \ candidates : items'[x] = items[x] /\ source'[x] = source[x]
    BY <1>1, <2>1
  <2>5. \A x : RenamedTo(x) = x
    BY <2>1, NamesStay
  <2>6. ASSUME NEW x \in candidates PROVE source'[x] = Absent /\ Goes(x)
    <3>1. items'[x] = DeletedRows(x)[x] /\ ~LiveIn(DeletedRows(x), x)
      BY <1>1, <2>1, <2>2, DeletedRowsType
    <3>2. items[x] # Absent /\ ~LiveIn(items', x) /\ items'[x] # items[x]
      BY <2>2, <3>1 DEF Live, LiveIn
    <3>3. source[x] = Absent
      BY <1>3, <2>2 DEF Inv, SnapshotInv, SnapshotEnd
    <3> QED BY <1>1, <2>5, <3>2, <3>3 DEF Goes
  <2> HIDE DEF rows
  <2> QED BY <2>1, <2>2, <2>3, <2>4, <2>5, <2>6, DropStays
<1> QED BY <1>2, <1>3

LEMMA RelationsStep ==
  ASSUME Inv, CapturedInv, [Next]_vars, NEW k \in Keys
  PROVE  RelationsKept(k)
<1>1. ASSUME collections \subseteq collections', links' = links, items' = items,
             \A x \in Keys : source'[x] = source[x] \/ source'[x] = Absent
      PROVE  RelationsKept(k)
  BY <1>1, NamesStay, SameStays
<1>2. ASSUME NEW w \in Keys, NEW item \in Items, ItemChanged(w, item) PROVE RelationsKept(k)
  <2>1. /\ PersistItem(w, item, {}) /\ source' = [source EXCEPT ![w] = item]
        /\ collections' = collections
    BY <1>2 DEF ItemChanged, PersistItem
  <2> QED BY <2>1, NamesStay, PersistStays
<1>3. ASSUME NEW w \in Keys, ItemPatched(w) PROVE RelationsKept(k)
  <2>1. /\ PersistItem(w, baseline[w], ContentFiles) /\ source' = source
        /\ source[w] # Absent /\ baseline[w] # Absent /\ collections' = collections
    BY <1>3 DEF ItemPatched, PersistItem
  <2>2. baseline[w] \in Items /\ source' = [source EXCEPT ![w] = baseline[w]]
    BY <2>1, Types DEF Inv, BaselineInv, OptItems
  <2> QED BY <2>1, <2>2, NamesStay, PersistStays
<1>4. ASSUME NEW w \in Keys, ItemVanishes(w) PROVE RelationsKept(k)
  <2>1. /\ collections' = collections /\ links' = links /\ items' = items
        /\ source' = [source EXCEPT ![w] = Absent] /\ source \in OptItems
    BY <1>4, Types DEF Inv, ItemVanishes, store
  <2> QED BY <1>1, <2>1 DEF OptItems
<1>5. CASE \E c \in Names : CollectionSchema(c) \/ CollectionRemoved(c)
  BY <1>1, <1>5, RemoveStays DEF CollectionSchema
<1>6. CASE \E old, new \in Names : CollectionRenamed(old, new)
  BY <1>6, RenameStays
<1>7. CASE SnapshotEnd
  BY <1>7, PruneStays
<1>8. CASE Disconnected \/ \E scope \in SUBSET Names : SnapshotStart(scope)
  BY <1>1, <1>8 DEF Disconnected, SnapshotStart, store
<1>9. CASE \E w \in Keys : ItemPatched(w) \/ ItemDeleted(w) \/ ItemVanishes(w)
  BY <1>3, <1>4, <1>9, DeleteStays
<1>10. CASE UNCHANGED vars
  BY <1>1, <1>10 DEF vars
<1> QED BY <1>2, <1>5, <1>6, <1>7, <1>8, <1>9, <1>10 DEF Next

(* A reference that resolves goes on resolving, to the same item by its new  *)
(* name, until its owner refers elsewhere or one of the two goes: link.ts,   *)
(* persistItem, deleteItem, renameCollection and the pruning of connect.ts   *)
(* take no row of a relation that still holds.                               *)
THEOREM RelationsGoOn == Spec => RelationsStay
<1>1. Init => Inv /\ CapturedInv
  BY InitInv DEF Init, CapturedInv
<1>2. Inv /\ CapturedInv /\ [Next]_vars => (Inv /\ CapturedInv)'
  BY NextInv, CapturedStep
<1>3. Inv /\ CapturedInv /\ [Next]_vars => [\A k \in Keys : RelationsKept(k)]_vars
  BY RelationsStep
<1>4. Spec => [][\A k \in Keys : RelationsKept(k)]_vars
  BY <1>1, <1>2, <1>3, PTL DEF Spec
<1> QED BY <1>4 DEF RelationsStay, RelationsKept
=============================================================================
