----------------------------- MODULE LocalStore -----------------------------
(***************************************************************************)
(* The tables of the Local Store under the events of the stream            *)
(* (contfu/src/connect.ts, features/collections, features/items): items of *)
(* named collections, the references between them, and their files.        *)
(*                                                                         *)
(* A reference is not stored in the item: the item holds the number of a   *)
(* row of internal_links, and the row holds owner, slot (a property, or    *)
(* the content) and target.  Row numbers are SQLite rowids, the highest    *)
(* plus one, so the number of a deleted row comes back.  Collections are   *)
(* renamed and removed under their items, and identity is by name.         *)
(*                                                                         *)
(* What the application did not acknowledge comes again, after whatever    *)
(* came since, and the handlers cannot tell.  So no event is tied here to  *)
(* what came before: any collection may be renamed or removed and any item *)
(* deleted, known to the application or not, once or once more.            *)
(*                                                                         *)
(* Every event is one transaction.  The Connector's cache of items is here *)
(* as well, because a sparse patch is completed from it, and a rename has  *)
(* to rewrite it.  Patches and the ACK are the subject of SyncStream, the  *)
(* download of files that of MediaQueue.  Links to URLs have a table and   *)
(* numbers of their own and are left out, as is the display data.          *)
(***************************************************************************)
EXTENDS Naturals, Sequences, FiniteSets

CONSTANTS
  Names,         \* collection names
  Ids,           \* item ids, unique within a collection only
  Slots,         \* where an item refers to another: a reference property or the content
  Files,         \* file ids
  ContentFiles,  \* the files that items show in their content; the others are in properties
  Absent,        \* no item, no reference, no snapshot, no event
  InitialNames,  \* collections already synchronised
  MaxRefs,       \* most references of an item
  MaxEvents      \* bound: events of the stream

Keys == Names \X Ids
Refs == UNION {[1..n -> [slot : Slots, to : Keys]] : n \in 0..MaxRefs}
Items == [refs : Refs, files : SUBSET Files]

\* An item as its row has it: a reference is a slot and a link number.
StoredItems == [refs : Seq([slot : Slots, link : Nat]), files : SUBSET Files,
                deleted : BOOLEAN]
Links == [from : Keys, slot : Slots, to : Keys]

ASSUME ConstantsAssumption ==
  /\ ContentFiles \subseteq Files /\ InitialNames \subseteq Names
  /\ MaxRefs \in Nat /\ MaxEvents \in Nat
  /\ Absent \notin Items \cup StoredItems

VARIABLES
  source,       \* items the application has been told of, as their source has them
  collections,  \* table collections
  items,        \* table items
  links,        \* table internal_links, by row number
  files,        \* table files
  itemFiles,    \* table item_files
  candidates,   \* snapshotCandidates, as item identities
  baseline,     \* the Connector's materializedItems
  due,          \* items the running snapshot has yet to deliver
  events

store == <<collections, items, links, files, itemFiles>>
stream == <<source, candidates, baseline, due>>
vars == <<source, collections, items, links, files, itemFiles, candidates,
          baseline, due, events>>

LiveIn(table, k) == table[k] # Absent /\ ~table[k].deleted
Live(k) == LiveIn(items, k)
KeysOf(c) == {k \in Keys : k[1] = c}

-----------------------------------------------------------------------------
(* internal_links.                                                         *)

LastLink(table) ==
  IF DOMAIN table = {} THEN 0 ELSE CHOOSE n \in DOMAIN table : \A m \in DOMAIN table : m <= n

Without(table, rows) == [n \in DOMAIN table \ rows |-> table[n]]

Outgoing(table, k) == {n \in DOMAIN table : table[n].from = k}

Incoming(table, k) == {n \in DOMAIN table : table[n].to = k}

LinksByRef(table, k) == {n \in DOMAIN table : table[n].from = k \/ table[n].to = k}

Inserted(table, k, refs) ==
  LET last == LastLink(table) IN
  [n \in DOMAIN table \cup (last + 1)..(last + Len(refs)) |->
     IF n \in DOMAIN table THEN table[n]
     ELSE [from |-> k, slot |-> refs[n - last].slot, to |-> refs[n - last].to]]

\* The references as the item stores them, once their rows are inserted after "last".
Numbered(refs, last) == [n \in DOMAIN refs |-> [slot |-> refs[n].slot, link |-> last + n]]

\* What a reference stored in item k stands for: the row has to be the item's own.
AnyOwner(table, k, ref) ==
  IF ref.link \in DOMAIN table /\ table[ref.link].slot = ref.slot
  THEN table[ref.link].to ELSE Absent

ResolvedIn(table, k, ref) ==
  IF /\ ref.link \in DOMAIN table
     /\ table[ref.link].from = k
     /\ table[ref.link].slot = ref.slot
  THEN table[ref.link].to ELSE Absent

Resolved(k, ref) == ResolvedIn(links, k, ref)

-----------------------------------------------------------------------------
(* Files of an item.                                                       *)

Unused(removed, left) == {f \in removed : \A k \in Keys : <<k, f>> \notin left}

FilesOfItems(ks) == {f \in Files : \E k \in ks : <<k, f>> \in itemFiles}

DeleteFilesByItems(ks) ==
  LET left == {kf \in itemFiles : kf[1] \notin ks} IN
  /\ itemFiles' = left
  /\ files' = files \ Unused(FilesOfItems(ks), left)

\* Content shown once before carries stored file ids in place of URLs: no row is
\* prepared for them, but they count as linked.
ForgetProcessed(item, processed) == item.files \ processed

Linked(item, processed) == item.files

ProcessFiles(k, item, processed) ==
  LET pending == item.files \ processed
      now == itemFiles \cup ({k} \X pending)
      stale == {f \in Files : <<k, f>> \in now /\ f \notin Linked(item, processed)}
      left == now \ ({k} \X stale)
  IN /\ itemFiles' = left
     /\ files' = (files \cup pending) \ Unused(stale, left)

-----------------------------------------------------------------------------
(* Names.                                                                  *)

RenamedKey(k, old, new) == IF k[1] = old THEN <<new, k[2]>> ELSE k

RenamedRefs(item, old, new) ==
  IF item = Absent THEN Absent
  ELSE [refs |-> [n \in DOMAIN item.refs |->
                    [slot |-> item.refs[n].slot, to |-> RenamedKey(item.refs[n].to, old, new)]],
        files |-> item.files]

\* What bears the old name bears the new one.
Moved(table, old, new) ==
  [k \in Keys |->
     CASE k[1] = old -> Absent
       [] k[1] = new /\ table[<<old, k[2]>>] # Absent -> table[<<old, k[2]>>]
       [] OTHER -> table[k]]

\* ON UPDATE CASCADE renames the owners, renameCollection the targets.
OwnersOnly(old, new) ==
  [n \in DOMAIN links |-> [links[n] EXCEPT !.from = RenamedKey(@, old, new)]]

RenamedLinks(old, new) ==
  [n \in DOMAIN links |-> [from |-> RenamedKey(links[n].from, old, new),
                           slot |-> links[n].slot,
                           to |-> RenamedKey(links[n].to, old, new)]]

KeysOnly(old, new) == Moved(baseline, old, new)

RenamedBaseline(old, new) ==
  [k \in Keys |-> RenamedRefs(Moved(baseline, old, new)[k], old, new)]

-----------------------------------------------------------------------------

Init ==
  /\ source = [k \in Keys |-> Absent]
  /\ collections = InitialNames
  /\ items = [k \in Keys |-> Absent]
  /\ links = <<>>
  /\ files = {} /\ itemFiles = {}
  /\ candidates = Absent
  /\ baseline = [k \in Keys |-> Absent]
  /\ due = Absent
  /\ events = 0

Event == events < MaxEvents /\ events' = events + 1

LessItem(set, k) == IF set = Absent THEN Absent ELSE set \ {k}

Unconfirmed(k) == candidates

\* An item the running snapshot has shown is no longer to be pruned.
Confirmed(k) == LessItem(candidates, k)

\* COLLECTION_SCHEMA of a collection new to the application.
CollectionSchema(c) ==
  /\ Event
  /\ c \notin collections
  /\ collections' = collections \cup {c}
  /\ UNCHANGED <<items, links, files, itemFiles, source, candidates, baseline, due>>

\* renameCollection.  Names are unique: where both are taken it fails, and the stream
\* with it.
RenameTables(old, new) ==
  /\ ~(old \in collections /\ new \in collections)
  /\ collections' = IF old \in collections THEN (collections \ {old}) \cup {new} ELSE collections
  /\ links' = RenamedLinks(old, new)
  /\ items' = Moved(items, old, new)
  /\ itemFiles' = {<<RenamedKey(kf[1], old, new), kf[2]>> : kf \in itemFiles}
  /\ UNCHANGED files

CollectionRenamed(old, new) ==
  /\ Event
  /\ old # new
  /\ RenameTables(old, new)
  /\ baseline' = RenamedBaseline(old, new)
  /\ candidates' = Absent  \* a lifecycle event invalidates the scope of the snapshot
  /\ source' = [k \in Keys |-> RenamedRefs(Moved(source, old, new)[k], old, new)]
  /\ due' = IF due = Absent THEN Absent ELSE {RenamedKey(k, old, new) : k \in due}

RowsRemoved(c) ==
  UNION {LinksByRef(links, k) : k \in {x \in KeysOf(c) : items[x] # Absent}}

\* removeCollectionByName deletes the rows, soft-deleted ones included.
RemoveTables(c) ==
  /\ collections' = collections \ {c}
  /\ DeleteFilesByItems(KeysOf(c))
  /\ links' = Without(links, RowsRemoved(c))
  /\ items' = [k \in Keys |-> IF k[1] = c THEN Absent ELSE items[k]]

CollectionRemoved(c) ==
  /\ Event
  /\ RemoveTables(c)
  /\ baseline' = [k \in Keys |-> IF k[1] = c THEN Absent ELSE baseline[k]]
  /\ candidates' = Absent
  /\ source' = [k \in Keys |-> IF k[1] = c THEN Absent ELSE source[k]]
  /\ due' = IF due = Absent THEN Absent ELSE due \ KeysOf(c)

\* Persisting an item, from a whole patch or completed from the baseline.
PersistItem(k, item, processed) ==
  LET kept == Without(links, Outgoing(links, k)) IN
  /\ links' = Inserted(kept, k, item.refs)
  /\ items' = [items EXCEPT ![k] = [refs |-> Numbered(item.refs, LastLink(kept)),
                                    files |-> item.files, deleted |-> FALSE]]
  /\ ProcessFiles(k, item, processed)
  /\ candidates' = Confirmed(k)
  /\ due' = LessItem(due, k)
  /\ UNCHANGED collections

ItemChanged(k, item) ==
  /\ Event
  /\ k[1] \in collections
  /\ PersistItem(k, item, {})
  /\ source' = [source EXCEPT ![k] = item]
  /\ baseline' = [baseline EXCEPT ![k] = item]

\* A sparse patch that leaves references and files as they are.
ItemPatched(k) ==
  /\ Event
  /\ source[k] # Absent /\ baseline[k] # Absent
  /\ PersistItem(k, baseline[k], ContentFiles)
  /\ UNCHANGED <<source, baseline>>

DeletedRows(k) == [items EXCEPT ![k] = IF @ = Absent THEN Absent ELSE [@ EXCEPT !.deleted = TRUE]]

ItemDeleted(k) ==
  /\ Event
  /\ DeleteFilesByItems({k})
  /\ links' = Without(links, LinksByRef(links, k))
  /\ items' = DeletedRows(k)
  /\ candidates' = LessItem(candidates, k)
  /\ due' = LessItem(due, k)
  /\ baseline' = [baseline EXCEPT ![k] = Absent]
  /\ source' = [source EXCEPT ![k] = Absent]
  /\ UNCHANGED collections

\* An item goes without an ITEM_DELETED: the next snapshot shows it.
ItemVanishes(k) ==
  /\ Event
  /\ source[k] # Absent
  /\ source' = [source EXCEPT ![k] = Absent]
  /\ due' = LessItem(due, k)
  /\ UNCHANGED <<store, candidates, baseline>>

SnapshotStart(scope) ==
  /\ Event
  /\ due = Absent
  /\ scope # {} /\ scope \subseteq collections
  /\ candidates' = {k \in Keys : k[1] \in scope /\ Live(k)}
  /\ baseline' = [k \in Keys |-> IF k[1] \in scope THEN Absent ELSE baseline[k]]
  /\ due' = {k \in Keys : k[1] \in scope /\ source[k] # Absent}
  /\ UNCHANGED <<store, source>>

SnapshotEnd ==
  /\ Event
  /\ due = {}
  /\ IF candidates = Absent THEN UNCHANGED store
     ELSE /\ DeleteFilesByItems(candidates)
          /\ links' = Without(links, UNION {LinksByRef(links, k) : k \in candidates})
          /\ items' = [k \in Keys |-> IF k \in candidates THEN DeletedRows(k)[k] ELSE items[k]]
          /\ UNCHANGED collections
  /\ candidates' = Absent
  /\ due' = Absent
  /\ UNCHANGED <<source, baseline>>

\* The connection ends, or the process does: the tables are all that stays.
Disconnected ==
  /\ candidates' = Absent
  /\ due' = Absent
  /\ baseline' = [k \in Keys |-> Absent]
  /\ UNCHANGED <<store, source, events>>

Next ==
  \/ \E c \in Names : CollectionSchema(c) \/ CollectionRemoved(c)
  \/ \E old, new \in Names : CollectionRenamed(old, new)
  \/ SnapshotEnd \/ Disconnected
  \/ \E scope \in SUBSET Names : SnapshotStart(scope)
  \/ \E k \in Keys : ItemPatched(k) \/ ItemDeleted(k) \/ ItemVanishes(k)
  \/ \E k \in Keys, item \in Items : ItemChanged(k, item)

Spec == Init /\ [][Next]_vars

-----------------------------------------------------------------------------
(* Properties.                                                             *)

\* The variables have their types, and an item belongs to a collection there is.
TypeOK ==
  /\ source \in [Keys -> {Absent} \cup Items]
  /\ collections \subseteq Names
  /\ items \in [Keys -> {Absent} \cup StoredItems]
  /\ \A k \in Keys : items[k] # Absent => k[1] \in collections
  /\ DOMAIN links \subseteq Nat
  /\ links \in [DOMAIN links -> Links]
  /\ files \subseteq Files /\ itemFiles \subseteq Keys \X Files
  /\ candidates \in {Absent} \cup SUBSET Keys
  /\ baseline \in [Keys -> {Absent} \cup Items]
  /\ due \in {Absent} \cup SUBSET Keys
  /\ events \in 0..MaxEvents

\* A stored reference resolves to the item its source refers to, or to nothing:
\* never to another item, whatever rows were deleted and numbers given again,
\* and whatever collections were renamed or removed in between.
RefsAreTrue ==
  \A k \in Keys : source[k] # Absent =>
    /\ Live(k)
    /\ DOMAIN items[k].refs = DOMAIN source[k].refs
    /\ \A n \in DOMAIN items[k].refs :
         Resolved(k, items[k].refs[n]) \in {source[k].refs[n].to, Absent}

\* The rows of internal_links, which linksTo and linkedFrom search, are exactly
\* the references that live items resolve: none is left behind by an item that
\* was deleted, rewritten, renamed or removed, and none is shared.
LinksMatchItems ==
  \A id \in DOMAIN links :
    /\ Live(links[id].from)
    /\ \E n \in DOMAIN items[links[id].from].refs :
         items[links[id].from].refs[n] = [slot |-> links[id].slot, link |-> id]

\* A part of RefsAreTrue: no item that its source still has is pruned by a snapshot or lost by a
\* lifecycle event: it is live under its current name.
LiveItemsKept == \A k \in Keys : source[k] # Absent => Live(k)

\* The files there are, are those of the live items, shared ones included: none is
\* left without an item, and none that an item shows is deleted.
FilesAreOwned ==
  /\ itemFiles = {kf \in Keys \X Files : Live(kf[1]) /\ kf[2] \in items[kf[1]].files}
  /\ files = {f \in Files : \E k \in Keys : <<k, f>> \in itemFiles}

RenamedTo(k) ==
  LET gone == collections \ collections'
      new == collections' \ collections
  IN IF k[1] \in gone /\ new # {} THEN <<CHOOSE n \in new : TRUE, k[2]>> ELSE k

\* The target goes in this step, or the application is told so once more.
Goes(to) ==
  \/ /\ items[to] # Absent /\ ~LiveIn(items', RenamedTo(to))
     /\ items'[RenamedTo(to)] # items[to]
  \/ ItemDeleted(to)

\* A reference that resolves goes on resolving, to what its owner now refers to by its
\* present name: through renames, patches and redeliveries, until the target goes.
RelationsStay ==
  [][\A k \in Keys :
       LET now == RenamedTo(k) IN
       source[k] # Absent /\ source'[now] # Absent =>
         \A n \in DOMAIN items[k].refs \cap DOMAIN items'[now].refs :
           Resolved(k, items[k].refs[n]) # Absent =>
             \/ Goes(source[k].refs[n].to)
             \/ ResolvedIn(links', now, items'[now].refs[n]) = source'[now].refs[n].to]_vars

\* docs/integrations.md:217: a reference to a target that is not synchronised stays
\* pending, and resolves when the target is (again), without refetching its owner.
SyncedTargetResolves ==
  \A k \in Keys : source[k] # Absent /\ Live(k) =>
    \A n \in DOMAIN items[k].refs :
      LET to == source[k].refs[n].to IN
      to # k /\ source[to] # Absent => Resolved(k, items[k].refs[n]) = to
=============================================================================
