# TLA+ models of Contfu

Contfu replicates CMS content into an application's own SQLite database (the
*Local Store*).  A hosted sync service holds the sources; the *Connector*
(`packages/connect`) keeps a stream open to it, the *runtime*
(`packages/contfu`) persists the stream and serves queries and files, and CMS
plugins (`packages/plugins`) push changes to the service.  A CLI administers the
service, and clients, a server and adapters bring what is stored to a page.

The modules are of two kinds.  Where the order of steps matters there are state
machines; where the code is a function of its input (filters, queries, mappings,
schemas, rendering) there are operators, checked case by case against what their
result should be.  Every definition that stands for code is listed with its
source lines in `PROJECT.json` under `map`.

## The system

| Component | State | Operations | What is hard |
|---|---|---|---|
| Sync service (not in this repository) | what it owes each application, baselines of sparse patches | item and snapshot payloads, ACK counting, commands, leases | external; modelled as its client relies on it |
| Connector, decoding (`connect/src/stream-client.ts`, `core/src/wire.ts`) | `materializedItems`, the open payload | decode, patch, ACK after a payload | baselines against reconnects, snapshots and deletions; lost ACKs, and ACKs counted on a later connection |
| Connector, loop (`connect/src/stream-client.ts`) | current connection, pending commands and leases, stall timer | open, read, report, back off, `return()`, `sendCommand`, `resolveFileLease` | callbacks of sockets and timers between the steps of a suspended generator |
| Runtime persistence (`contfu/src/connect.ts`) | items, links, collections, snapshot candidates | one transaction per event, pruning at the end of a snapshot | crash between persisting and acknowledging, interrupted snapshots |
| Media repair coordinator (`contfu/src/features/sync`) | queued and outstanding repairs per collection | merge, flush, settle, requeue | results of a stream that has gone |
| Media queue (`contfu/src/shared/files/mediaQueue.ts`) | ordered queue, active count, one timer, file rows | enqueue, drain, process, retry with backoff, give up | row read before an await and written after it; timer that stands for the wrong file |
| Strapi plugin, outgoing (`plugins/strapi/src/server/index.ts`) | durable sequence and outbox, promise chain | flush, allocate, post, remove | crash between the writes; refused bodies; events of an entry already waiting |
| Hot event stream, runtime monitor, UI live updates (`contfu/src/contfu.ts`, `runtime-monitor.ts`, `server`, `ui/src/lib/live`) | iterators with queues and waiting reads, batch buffer and timer, one event source per browser | publish, read, return, restart with backoff, announce, reload | reads that wait while the stream ends; a batch sent while a page has no connection |
| Local Store: items, links, collections (`contfu/src/features`, `contfu/src/infra/db`) | tables `collections`, `items`, `internal_links`, `files`, `item_files` | persist, delete, prune, rename, remove, resolve a reference | references are numbers of rows, numbers come back, names change under them |
| File serving (`contfu/src/features/files`, `contfu/src/infra/http.ts`) | file rows, media masters with fingerprints, variants, conversions at work | process, reconcile, rederive, convert on request | a conversion that ends after its row has changed; a crash between a file and its fingerprint |
| Media optimizers (`files/media-optimizer*`) | none | make the pictures of a rule, with two encoders and a remote service | options one encoder does not know; labels against outputs |
| Queries (`contfu/src/infra/filter`, `features/items`, `client`, `server`) | none | build, parse and compile filters; find, group, sort and page items; relations | text built from values, null, locales and their fallback in three places |
| Core and service rules (`core/src`, `service/core/src`) | none | map and type items, plan resolutions of incidents, recognise locales, render blocks | types that say less than the values; ids that stand for a plan |
| Sanity plugin (`plugins/sanity`) | none | turn a Studio's schema into property types | aliases, recursive types, callbacks that can only be run, not read |
| Adapters (React, Vue, Solid, Svelte, Angular) | none | show blocks | five walks over the same blocks |
| CLI (`packages/cli`) | the env file, `.gitignore`, `config.json`; integrations and operations of the service | update, delete, add, create, setup, rotate a key, log in and out, switch, sync with `--wait` | several requests and writes per command, with kills, lost answers and other commands between them |
| UI pages, webhook packages | none or request-local | presentation, one request each | see *Not modelled* |

`PROJECT.json` lists every component with its status, and under `hazards` the
places where this code can go wrong in a way a unit test would hardly reach,
with the properties that look for it.

## Modules

| Module | Models | Notes |
|---|---|---|
| `SyncStream` | service, Connector decoding, runtime persistence and the channel between them | one action per payload sent, per event decoded and persisted (`EventLoop`), per ACK, and for every fault |
| `Replica` | the promise of `SyncStream`: per item, a value of its source is stored, or the item is removed once it is gone | the refinement target |
| `MCSyncStream` | constants and symmetry for TLC | |
| `SyncStream_proofs` | theorems about `SyncStream`, among them that it implements `Replica` | |
| `Session` | the connection loop with both transports | the contents of events are left to `SyncStream` |
| `MCSession` | the options a generator may be made with, for TLC | |
| `Session_proofs` | theorems about `Session` | |
| `MediaRepair` | `createMediaRepairCoordinator` over a stream that connects and disconnects | a request is a set of items, or `Whole` from the threshold on |
| `MediaQueue` | the media queue and the rows it works on | download, optimizer and store succeed or fail nondeterministically |
| `MediaQueue_proofs` | theorems about `MediaQueue` | |
| `OutboxPromise` | what the plugin's store and the receiver promise each other | extended by `StrapiOutbox` |
| `StrapiOutbox` | `sendContfuWebhook` behind `createOrderedSender` | each `await` is a place where the process may stop or a write may fail |
| `MCStrapiOutbox` | symmetry for TLC | |
| `Delivery_proofs` | theorems about `MediaRepair` and about `StrapiOutbox` | |
| `LocalStore` | the tables and the Connector's cache of items under every event of the stream | an event is one transaction, so one action |
| `MCLocalStore` | constants and symmetry for TLC | |
| `LocalStore_proofs` | theorems about `LocalStore` | |
| `LiveUpdates` | from an event of the stream to the reload of an open page | composes `contfu.ts`, `runtime-monitor.ts`, the server's `/api/live` and the browser |
| `LiveUpdates_proofs` | theorems about `LiveUpdates` | |
| `FileServing` | file rows, masters, variants and the requests for them | the queue itself is in `MediaQueue`: here a pending file may be taken at any time |
| `FileServing_proofs` | theorems about `FileServing` | |
| `Cli` | up to two overlapping commands, the service and the files they write | |
| `Cli_proofs` | theorems about `Cli` | |
| `Subject` | one step that chooses a case | extended by the modules of pure rules |
| `Filters`, `Queries`, `Relations` | filter texts, queries and relations of the Local Store | `Relations` extends `Queries` extends `Filters` |
| `Mappings` | mapping rules on items and on schemas, wiring, generated types | |
| `Incidents`, `Locales` | plans to resolve incidents; locale maps and recognition | |
| `Rendering` | blocks to HTML, Markdown and the five adapters | |
| `Optimizers` | rules and presets to pictures | |
| `Sanity` | a Studio's schema to property types | |
| `MCRules` | the cases of all pure rules and their properties | |

### SyncStream

`owed`/`settled` state of the service is keyed by item identity
(collection, id).  A payload is a sequence of events; an `ITEM_CHANGED` is a
patch against the version the service last sent on this connection (`base`), and
the Connector applies it to `materialized`.  `Take` decodes one event and the
runtime persists it in the same step, because the code does so without an
`await` in between; `Crash` may fall between any two events and before the ACK.
`acks` counts the ACKs on their way.  On a WebSocket they end with their
connection.  Over HTTP an ACK is a request of its own (`stream-client.ts:782`)
that names the key, and neither payload nor connection: the ones on their way
become `stray` when the connection ends, and `ReceiveStrayAck` counts one for
what the next connection has sent.  What the service makes of such an ACK is not in
the repository; the model has it take the request for what it says.  From then on
every ACK of that connection settles a payload too many.  The history `ahead` says
that this has happened on the connection, and `misled` holds the items last
settled on such a connection; `AcksFollowPersistence`, `Abstract` and `Converges`
exempt what these name and nothing else.  On a connection without strays, which
is every WebSocket, there is no exemption.

### Session

The generator of the code is suspended whenever its consumer is busy, and while
it awaits the response to an HTTP acknowledgement.  `pc` names these places, and
callbacks (socket, timers, `sendCommand`, `return`) are actions that may fall into
any of them.  A WebSocket's handlers are attached by the first read, an HTTP body
buffers; both are in `Receive` and `Closed`.  `options` is chosen at the start:
whether connection events and command results are yielded, and whether the
generator reconnects.  `IsYielded` and `IsAcked` are the two questions of the
reading loop, which have different answers: a marker of a snapshot is acknowledged
also where nobody gets it.  `SessionEnds` is the end of the transport,
`SessionFails` the catch block; a generator that returns and one that throws are
both at the place `stopped`.

A generator without connection events that is stopped while it opens a connection
does not look at `shouldReconnect` before it reads (`stream-client.ts:377-389`).
It goes on reading until it has something to hand out or the connection ends, and
holds the connection meanwhile.  `StopStops` says so (`OpenedAfterReturn`); with
connection events, as the runtime has them, it stops without that exception.

### MediaRepair

`pending` and `inFlight` are the coordinator's maps, `commands` the promises that
are open, `old` ones those of streams that have gone.  A refused command's request
is put back without a flush (`mediaRepairCoordinator.ts:49-53`), so on a stream
that stays open it waits until a request, a settlement or a connection flushes:
`refused` remembers the collections this is true of.

### MediaQueue

`queue` is the code's sorted array with due times, `timer` its one timer, `rows`
the file table.  `Deliver` and `Delete` are the runtime's persistence of an
item, `Process` the attempt of one file with its possible outcomes, and
`Restart` loses the queue and the timer and resumes from the rows.

### StrapiOutbox

`store` is the durable record, `job` the event whose handler runs, `waiting` the
chain of events behind it.  `Post`, `FlushPost` and `PushPost` are deliveries
the receiver accepts or refuses, `Remove`, `FlushRemove` and `PushRemove` the
writes that may fail.

### LocalStore

`collections`, `items`, `links`, `files` and `itemFiles` are the tables,
`candidates` the runtime's `snapshotCandidates`, `baseline` the Connector's
`materializedItems`.  Any event may come at any time: what was not acknowledged is
delivered again, after whatever else came in between, and the handlers cannot tell,
so renames, removals and deletions are not tied to what the tables hold.  A removal
or deletion delivered again takes what has the name by now, and its incoming links,
until that is sent again.  A rename whose old and new name are both taken violates
the unique name (`renameCollection.ts:33`): it changes nothing and the stream fails,
which is the guard of `RenameTables`.  A stored item holds the *numbers* of its link rows; `ResolvedIn` is the lookup of
`resolve-relations.ts` by number, owner and property.  `source` is what the
application has been told, under the current names: the properties compare the
tables with it.  `ItemPatched` is the sparse patch that leaves references and
files alone, the case in which the runtime persists what the cache holds and
not what the service has just sent; content has its stored file ids already
then, because `processFilesSync` writes them into the cached blocks.

Two documented sentences decide what is right here.  Identity is by name
(`docs/release-notes.md:54`), so a reference follows a rename but a removed
collection and a new one of the same name are the same collection.  And a target
that is not synchronised is pending, so a reference resolves to its target
whether or not that is stored.

### LiveUpdates

`hot` is the instance that `run()` drives, `iter` the iterators with their queue
and the number of reads that wait, `monitor` the monitor's loop over one of them,
`buffer` the batch and its timer, `live` the server's side of the browser's
connection and `page` the browser's.  The runtime stores a change before it
yields its event, so `Yield` does both.  `complete()` is reached only when
`run()` itself rejects; it is an action all the same.  The home page loads again
when its event source connects; other pages do not, so a change announced while
they have no connection is theirs only with the next one: `PagesCatchUp` makes
that exception and no other.

### FileServing

A content is the version of the source it was downloaded from, so that a row, a
master and a variant can be compared.  `work`, `reconcile` and `requests` are the
three places where something reads a row, awaits, and writes: each is several
actions, one for each write.  A derivation writes the output to the file store
(`DBStore` sets the data of the row), then the variants, then the row and the
fingerprint, of which only the last two are without an `await` between them; the
process may stop after each, and each may fail.

Three histories are what the properties allow.  `outlived` are the requests whose
file was deleted while they converted, and `outdated` the variants they have
written since: if the file is delivered again in the meantime, the old picture is
in the cache of the new one, until it is deleted or derived again.  `torn` are the
files whose derivation is written in part: their bytes and variants are those of
the new settings under the row and the fingerprint of the old.  The next start
derives them, unless it has the old settings again; then nothing tells, until
another derivation.

### Cli

`run[p]` is what a process is doing: its command, the place in the code, what it
has read, and its exit.  Each request is one step at the service and one answer
that may not arrive; each file is replaced by a rename (`env`) or written in
place (`config`), and `Kill` may come between any two steps.  XX  `before`, `after`
and `made` are history for the properties.  `Spare` are the ids for the
applications that commands create: a bound, since the service has always one more.

### The pure rules

One step of `MCRules` chooses a case of one kind, and the invariants compare
what the modelled code computes for it with an independent definition of what it
should: the rows a filter means, the same query over the other client, all pages
together, the members of a generated type, the tree of a document.

- `Filters` keeps the code's chain: helpers build a text, the text is split into
  tokens, parsed and compiled.  Texts are sequences of words and marks; a quote
  is one of them, because quoting is what the chain is about.  What the code throws
  at (a text that does not parse, `$id` against something else than an identity) is
  the result `Throws` of a query.
- `Queries` has `findItems` with its i18n plan, grouping and sorting,
  `queryItems`, and the three stations of a query: client settings, URL
  parameters, server settings.
- `Mappings` has values by type and with what a cast makes of them; a declared
  type is the set of values its generated TypeScript admits.
- `Rendering` compares HTML as the tree a browser builds, so escaping does not
  show; the five adapters are written down one by one, as in the code.
- `Optimizers` takes a picture for the set of settings in effect for it.  A file is
  made of its download or, with masters on, of the master's bytes
  (`MediaMaster`, `ProcessImage`), while the rule is asked about the extension of
  the download.
- `Sanity` represents a validation callback by the rules it calls and the way it
  ends; diagnostics are a set, and the path of a list's member has no number.

## Runs

| Run | Question | Bounds and why they are enough |
|---|---|---|
| `sync` | Do patches, batches, ACKs, snapshots and faults keep replica and service in agreement, does synchronisation implement `Replica`, and does it converge, also when ACKs outlive their connection? | two collections (pruning needs one in and one out of scope), one id, one property, batches of two so that a crash can fall within a payload, one change, one snapshot besides those the service needs, one fault, one stray ACK (left behind by the connection the fault ends, and counted on the next); three events on the wire, enough for a batch behind a marker |
| `session` | Is any event missed, any caller left waiting, does the loop go on? | one command and one lease, two sessions (what one session leaves behind meets the next), two events in a session; generators with the runtime's options, without connection events, without reconnection, and without either |
| `session_slow_consumer` | *Violated*: loss of a connection is always noticed | the runtime's options, with a consumer that may take its time over `STREAM_CONNECTED` |
| `media_repair` | Are repair requests lost, doubled or forgotten? | two collections and two items with threshold 2, so that a merge passes the threshold; three requests; a command outlives its stream |
| `media_queue` | Order, timer, no forgotten file, every file settles | three files with two workers, so that one waits; one with media masters; two attempts; a restart |
| `strapi_outbox` | Is an allocated sequence ever lost or overtaken? | two entries, four changes, two refusals, two failed writes or restarts |
| `local_store` | Do references, links and files stay right under every event? | three names, two of them in use, so that a rename has somewhere to go and a rename back or a removal can follow; items that refer to one other or to themselves; one shared file in the content; six events of any kind in any order, enough for a deleted row's number to come back to another owner and for a snapshot that prunes |
| `live_updates` | Does each iterator get every event once, does every change reach an open page? | one reader besides the monitor; two events, so that one falls while the other is in the buffer; three types (one resets the delay, one is data, one is not passed on); one fault; two reads that wait |
| `file_serving` | Are cached variants current, fingerprints true, and late derivations written to the row they were made for? | one file with two contents, two requests (a race is between two), one preset, four events (delivered, deleted, delivered again, changed), three starts (a crash or failure between any two writes of a derivation, and a start that repairs it) |
| `rules` | Do the pure rules compute what they should? | every case of `MCRules`, some 170,000: each helper, type, cast, block, encoder and validation alone, in pairs where two meet, and nested once where nesting matters |
| `nested_images` | *Violated*: an image is shown wherever it stands, with the URL options of the context | an image in each block that holds others |
| `cli` | Do commands that overlap, fail or are killed leave what they should? | two processes, so that one command can overtake another or be repeated after a kill; a deadline and a longest pause of two intervals, so that a pause can pass the deadline |

The invariants of `rules` are each about one kind of case: `FiltersAreMeant`
(helpers, printed and compiled filters, and composed relation filters),
`ClientsGiveTheSame` (languages, fields and sorting in both clients and the
server), `PagesShowEverything`, `SchemasAreTrue` (mapped values against declared
types), `PlansBindWhatIsDone`, `LocaleMapsDecide`, `DocumentsAreShown` (adapters
and Markdown) and `OptimizersAgree` (the encoders, on files that match a rule);
`nested_images` checks `ImagesAreServed`.

The bounds (`MaxChanges`, `MaxFaults`, `MaxSnapshots`, `MaxSessions`,
`MaxEvents`, `MaxRepairs`, `MaxCommands`, `MaxCrashes`, `MaxRefusals`,
`MaxFailures`, `MaxReads`, `MaxVersions`, `MaxStarts`) count environment steps and
appear in the guards of those only: once they are used up the program still runs
to its rest.  `MaxStray` and `MaxWire` are capacities: more stray ACKs are lost, and
the service waits until the Connector has taken an event.  The runs switch off
the deadlock check because the systems come to rest when the environment does.

Two runs end in a violation, each of a sentence of the documentation; the
`findings` of `PROJECT.json` quote it and say what the code does instead.

The runs spend their properties on what is hard.  What a checked property implies
is not checked again: that what was acknowledged is stored, but for what
a stray ACK settled, follows from `ImplementsReplica`, that no live item is lost from `RefsAreTrue` (and is the
theorem `NoLiveItemLost`), that the next file is scheduled from
`FilesAreScheduled`.  `TypeOK` is a theorem of each
module that has proofs.

### Other differences between code and documentation

The modules state these as well, and TLC finds each violated when the definition
is checked in the run of its module (`LocalStore` needs five events); they are not
among the runs because each shows one thing that is now known.

| Definition | What the code does |
|---|---|
| `Session!ConflictIsFinal` | `docs/offline-replicas.md:3` says that the Connector stops retrying after a 409; the loop opens again after the delay. |
| `MediaQueue!LostSourceIsRepaired` | The output is stored in the column of the source URL before the row is marked ready (`db-store.ts:11`); after a failure in between, the URL is gone and every attempt fails. |
| `StrapiOutbox!UnseenChangeLeavesGap` | When an event's key is in the outbox already, the older body is sent and the event is dropped without a sequence of its own (`server/index.ts:477`). |
| `SyncStream!ConfirmedIsStored` | `docs/deployment.md:191` says that an ACK confirms that the runtime accepted the item into its Local Store.  Over HTTP the ACK is a POST that names the key, and neither payload nor connection (`stream-client.ts:782-791`), so one that arrives after a reconnection can only be counted for what the next connection has sent, and is not stored yet.  The service is not in the repository; nothing in the request lets it tell. |
| `LocalStore!SyncedTargetResolves` | Deleting a target deletes the links to it; when it is synchronised again its owners still hold the old numbers until they are sent again. |
| `FileServing!PregeneratedIsHit` | The queue and a request hash different options, so a picture made in advance is not the cache hit that `contfu/docs/media-optimization.md:118` promises. |
| `FileServing!OmittedKeepsSettings` | A row that has become ready keeps none of its settings, so a start that omits the options derives the file again without them, against `contfu/docs/media-optimization.md:85`. |
| `MCRules!UnmatchedPassThrough` | `contfu/docs/media-optimization.md:79` has files that match no rule pass through untouched.  For an image `optimizeFile` asks the optimizer all the same and stores the first variant, an AVIF (`mediaQueue.ts:341-354`). |
| `MCRules!FitsAreKept` | `contfu/docs/media-optimization.md:96`, `:104` and `:147` have presets and URLs ask for `cover` or `contain`.  The fit is dropped on the way (`loadFile.ts:193`, `mediaQueue.ts:213-224`, `mediaMasterOptimize.ts:20`) and the encoder is given `inside` (`m4k-optimizer.ts:287`). |
| `Queries!SortListIsSplit` | `docs/querying.md:65` has a comma list as a sort; it is taken as the name of one field. |

Read in the code and not stated as definitions: nested relations number parents
from the outermost in the types (`core/src/query-types.ts:195` and its spec) and
from the nearest at runtime (`findItems.ts:343`); with `--env-file other` the
`setup` command looks for an existing key in `.env` only, so each setup makes
another app; a key that cannot be written to the env file is not printed; a kill
between truncating and filling `config.json` loses the login, and one between
writing and renaming the temporary file of the env file (`env.ts:155-161`) leaves
that file, with the key, beside it; `logout` reports success when its write fails;
and in Sanity the first of two documents of the same name keeps its reference
targets while the second has the schema.

Of repairs and files: a refused repair waits on an open stream until something
else flushes (`mediaRepairCoordinator.ts:49-53`); a request whose file is deleted
and delivered again while it converts stores the old picture under the new file
(`loadFile.ts:136`), and an attempt of the queue that ends late writes its failure
over the row delivered again (`mediaQueue.ts:664`); a derivation that was written
in part and is followed by a return to the settings before it is not noticed, since
`files.data` has changed under the old fingerprint.  With the store `DBStore`, a
preset without a size has the path of the file itself, so its variant is written
over the output until the row update sets it again.  Of pictures: with masters
on, a file whose extension a rule excludes is given the master's bytes under the
extension of the download (`mediaQueue.ts:335`, `:577-585`); pregeneration drops a
preset's rotation, crop and fit.  A relation filter that compares `$id` with a text
throws (`compiler.ts:35`).

## Fairness

Fairness is assumed of steps the program takes on its own and of an environment
that answers, never of a particular outcome:

- `SyncStream`: the event loop runs, the service sends what it owes and ends its
  snapshots; faults are bounded, as a stream that always breaks before its first
  event delivers nothing.
- `Session`: the consumer asks for the next value, timers fire, an opening and a
  request return one way or the other, a transport that was closed reports it, the
  server answers what it was asked on a connection that lives.
- `MediaRepair`: the promise of each command settles, either way, which is what
  `RequestsSettle` of `Session` says of it.  Nothing is assumed of the stream, which
  need not connect, stay up or drop, nor of what the server answers; so
  `RepairsDelivered` is about a stream that stays up from some time on, and about
  requests that are not refused.
- `MediaQueue`: time passes, the timer fires, an attempt ends.
- `LiveUpdates`: the monitor's loop goes on when it can, the batch timer fires,
  the browser connects again and its handlers run.  The stream itself is under no
  fairness: nothing has to happen at the source.
- `Cli`: a process that is not killed takes its next step.  That includes the
  answer to a request, for which the code has no timeout.  Nothing is assumed of a
  person at a prompt, nor of the program that opens the browser, so `CommandsEnd`
  says that a command ends or comes to one of these (`Asking`).

## Proofs

Every invariant and every action property that the runs of the stateful modules
check is a theorem; so is the refinement of `Replica`.  The theorems hold for
every value of the constants, so for any number of items, collections, readers,
requests, processes, faults and restarts; the runs check the same
formulas, and the inductive invariants were checked with TLC before they were
proved.

| Property | Theorem | What makes it inductive |
|---|---|---|
| `BaselineAgreement` | `SyncStream_proofs!BaselinesAgree` | all that is in flight |
| `AcksFollowPersistence` | `SyncStream_proofs!AcksFollow` | counts of payloads sent, decoded, acknowledged |
| `SentIsInFlightOrStored` | `SyncStream_proofs!SentArrives` | `DeliveryInv`: for each item its last event in flight, and whether an open snapshot takes it away |
| `ImplementsReplica` | `SyncStream_proofs!SyncImplementsReplica` | step by step, from all of the above |
| `NothingLeftBehind` | `Session_proofs!LeavesNothingBehind` | `LinkInv`: where a transport may be open |
| `NothingMissed` | `Session_proofs!MissesNothing` | the same, and `EventsInv`: events sent, taken and queued |
| `NoRequestLost`, `OneAtATime`, `WaitsOnlyWhenRefused` | `Delivery_proofs!NothingLost`, `NoSecondCommand`, `NothingForgotten` | `Kept`, stated of the maps as parameters |
| `FilesAreScheduled` | `MediaQueue_proofs!FilesScheduled` | the queue, timer and batch as one machine (`Sound`), and `AttemptsLeft` |
| `NothingAllocatedIsLost`, `OutboxIsReady` | `Delivery_proofs!NoBodyLost`, `OutboxReady` | what the handler has read, by its place in the code |
| `RefsAreTrue`, `LinksMatchItems`, `FilesAreOwned` | `LocalStore_proofs!ReferencesAreTrue`, `LinksAreOwned`, `FilesFollowItems` | `StoreOK` with the cache and the snapshot |
| `RelationsStay` | `LocalStore_proofs!RelationsGoOn` | the same, and `CapturedInv` |
| `EventsInOrder` | `LiveUpdates_proofs!InOrderAlways` | itself, with the instance a reader belongs to |
| `EveryChangeAnnounced` | `LiveUpdates_proofs!ChangesAnnounced` | `MonitorInv`: the monitor reads the instance that publishes |
| `CachedVariantsAreCurrent`, `FingerprintsAreTrue`, `DerivationsMeetTheirRow` | `FileServing_proofs!VariantsCurrent`, `FingerprintsTrue`, `DerivationsMeet` | what each of the three kinds of work holds of its row |
| `KeysStayUsable` | `Cli_proofs!KeysUsable` | `KeysInv`: who has outdone each key that was made, and who wrote over it |
| `ExitTellsOutcome` | `Cli_proofs!ExitsTell` | `OutcomeInv`: what a wait has seen, and what has been written at each place of the code |
| `OnlyWhatIsNamed` | `Cli_proofs!OnlyNamed` | `NamedInv`: the places as a process that runs alone found them |

`TypeOK` is a theorem `TypeCorrect` of each of these modules; for `StrapiOutbox`
and `Cli` the types are part of the invariant instead.

`SyncStream_proofs`.  Type correctness needs that patches of items against items
decode to items.  `BaselineAgreement` is inductive once stated over all that is
in flight: the service's baseline is the Connector's cache after every queued
payload has been decoded; the proof follows `Take` through the head of the queue
and `SendItems` through its tail.  `AcksFollowPersistence` relates the number of
payloads sent, decoded and acknowledged.  For `SentIsInFlightOrStored` the
service's record of an item has to be tied to what is on its way: `Delivered`
says that the last event of the item in flight, or the store where there is none,
agrees with the source, `OnItsWay` that an event of it is behind all that could
undo it, and `Opened` and `WillBePruned` follow a snapshot's start and end
through the queue, because an item that is neither sent nor captured within it is
removed at its end.  `DeliveryInv` says this for the items the service counts as
clean, as sent, and has no record of (`ForgottenInv`), the last because a deletion
is only settled if nothing in flight brings the item back.  Once an ACK of an earlier
connection is counted, the bounds of `AckInv` do not hold on that connection; what
is settled there joins `misled`, and `CleanInv` is about the settled items without
those (`AckDelivery` has the two cases).  `SentInv` and `ForgottenInv` do not speak of
settled items, so a stray ACK cannot weaken them: no theorem has a hypothesis about
ACKs, and what was sent arrives whether it was settled too early on an earlier
connection or not.  From the invariant each step of
`SyncStream` is a step of `Replica` or leaves the mapped variables alone:
`Change`, `Owe`, `Apply` and `Settle` are the cases of `SyncImplementsReplica`.

`Session_proofs`.  A transport is open only while the generator is in the session
that opened it (`LinkInv`).  That is why each of the ways out of a session (the
end of the transport, a failed attempt, `return()` at a yield or within a read)
may leave the transport alone or closes it, and why no request stays in the maps.
`MissesNothing` has the hypothesis `PromptConsumer`: that the consumer of
`STREAM_CONNECTED` asks for more at once, as the runtime's loop does.  Without it
the property is false, which `session_slow_consumer` shows of its consequence.

`LiveUpdates_proofs`.  An iterator's queue is the part of the history after what
it has given out; the proof is over one iterator and one event (`OfferedInOrder`)
and then over all of them.  Each change is announced, in the buffer with the
timer running, or in the monitor's queue, and the counts of the three add up.
Lemmas on sequences come first: what an append, a tail and a concatenation do to
the order of the messages, and to the number of those of a kind.

`FileServing_proofs`.  The queue's work, the start's list and the requests each
hold what they read while they wait.  `WorkInv`, `ReconcileInv` and `RequestsInv`
say what of it is still so, or which of the histories (`outlived`, `outdated`,
`torn`) excuses it; `MasterInv`, `VariantsInv` and `RowInv` say the same of what is
stored.  A derivation meets its row because no sync event is handled
before the start has ended, and the queue only writes rows that are not ready.

`Delivery_proofs`, outbox.  The inductive invariant adds what the handler's place in
the code implies for the record it has read: the local copy of the state equals
the stored one except for the row being removed.

`LocalStore_proofs`.  The properties are not inductive one by one.  What holds
them together is `Inv`:

- `StoreOK`, of the tables alone: `LinkTable` (the rows have a highest number,
  so an inserted row meets no other), `Faithful` for each item of the source
  (its row has the source's slots and files, and a link of *its own* under the
  stored number leads where the source says; a stale number may be anyone's),
  `LinksMatchItems` (so a deleted owner leaves no row) and `FilesAreOwned`;
- `BaselineInv`: what the cache holds belongs to a collection there is, and is
  what the source has, also after a rename has rewritten it.  So a removed
  collection leaves nothing behind that a later patch could be completed from;
- `SnapshotInv`: an item captured for pruning that the source has is still due.

Three lemmas carry the tables: `DropKeeps` (deletion, pruning, removal),
`PersistKeeps` (an item is written) and `RenameKeeps`; one lemma per action
combines them with the other parts.  `RelationsStay` is about one step, and has a
lemma for each way to change the tables (`DropStays`, `PersistStays`,
`RenameStays`); that pruning takes a row of its own is `CapturedInv`: whatever a
snapshot has captured is live until it ends.

`Delivery_proofs`, repair.  `Kept` is the invariant, stated of the two maps, the open
commands and the needs as parameters, because a flush happens in the middle of a
step: `FlushKeeps` carries it over the flush that ends a request, a connection or
a settlement.  It says of a collection in flight that its command is open,
belongs to this connection, and together with the waiting request covers what is
owed (`Carried`), and of one that waits without a command that its last was
refused and nothing has flushed since.

`MediaQueue_proofs`.  The synchronous code of the queue is a set of functions on a
machine (queue, timer, drain), and each has a lemma that it keeps the machine
`Sound`: sorted, without a file twice, its timer set for the head.
`InsertionPlace` says that the entries due no later are the first ones, so that
the insertion keeps the order; `DrainKeeps` that the first group with a pending
file leaves no pending file behind in an earlier one; `ScheduleKeeps` and
`EnqueueKeeps` that a timer may only stand where the head has not changed, which
takes that an entry is only moved forward, to before the old head if it was the
head.  `Resume` queues a file after the other and the first may start the drain,
so `ResumeKeeps` is an induction over the files queued so far, from the least
number of them that would not do, and `ResumedExists` shows first that the
recursive function is there.  Of the rows the invariant only needs that what is
pending, or in work, has attempts left (`AttemptsLeft`).

`Cli_proofs`.  A process is a record that is put together as the command runs,
so `Processes` and `Stores` come first: which command can be at which place of
the code (`CommandsAt`), what it has read by then, and what the files and the
service hold.  `EveryStep` then sorts the steps of a process: they ask only
(`Quiet`), change a row of the service (`Serves`) or the configuration
(`Configures`), make a key (`Makes`), write the env file (`Writes`) or
`.gitignore` (`Closes`).  Each invariant has one lemma that goes through these.

- `Outdone`: for a key that is not its integration's any more there is the process
  that made the newer one, and it had not ended when the maker of the older one
  started.  So whoever writes the older key into an env file later overlaps the
  one whose key is lost, which is what `KeysStayUsable` excuses.  `Overwritten`:
  a key that was written is still there at the last place of the command, or
  another process that made a key overlaps it.
- `OutcomeInv` states what `ExitTellsOutcome` says of an end together with what a
  wait has read of its operation (`Waiting`) and what is written before
  `.gitignore` is (`Found`).  `Alone` shows that any step of another process
  makes it one that ran at the same time or later, so only the command's own
  steps are left to consider.
- `OnlyWhatIsNamed` is about the step that ends a command.  `Snap` compares every
  place with what it was at the start, but for those `Touched` so far; and a
  reference was resolved to what it stood for at the start (`Meant`).

Assumed are only the `ASSUME`s of the modules, which TLC evaluates on each run:
the special values (`Absent`, `None`, `Whole`) are none of the values they stand
beside, bounds are natural numbers, and sets contain the values used.

Only model-checked:

- liveness under fairness (`Converges`, `RequestsSettle`, `LossIsNoticed`,
  `StopStops`, `RepairsDelivered`, `FilesSettle`, `PagesCatchUp`, `CommandsEnd`),
  which is beyond the prover;
- the pure rules, most of which are recursive over texts, blocks or schemas.

## Plan

1. `MediaQueue` composed with `FileServing`: the same rows under both.
2. Pure rules that are left: quota, dashboards and flow graphs of the service.

## Not modelled

The sync service is not in this repository; the codecs of the optimizers, SQLite,
Intl and the CMSs are external too.  Left out of modelled parts:

- Local Store: links to URLs (a table and numbers of their own), the display data
  of collections, an item that is delivered as already deleted; in queries the
  ranking of full-text search, and included files.
- Queries over HTTP: headers, authentication and static files; in the client,
  `normalizeIncludedFileMetadata`, which takes any text with a dot for a file;
  an empty list of sort fields; `withLocale(..., true)` without a default locale; the
  transformation `contentAs`; a quote within a filter's value, which
  `filter-helpers.ts:67` does not escape; ties between items of one number in
  different collections (`findItems.ts:159`, `:178`).
- Mappings: safe casts of lists to texts; a stored null, which counts as admitted by
  an optional property (`mapping-ops.ts:85-88`, `:117` keep it); a merged `DATE | PLAINDATE`, for which
  the generated conversion throws.  Incidents: collisions of the 32-bit hash.
- Rendering: list structure nested in Markdown and its escaping of `>`; when Vue,
  which reads its options once, is given others later.
- Optimizers: quality 0; the fit in the comparison of the two optimizers and files
  that match no rule, of which the code does not do what the docs say (see
  `FitsAreKept` and `UnmatchedPassThrough` above); a resize without a fit, for which the local optimizer has
  a default and the remote one not; what is stored when a rule's own picture could
  not be made (`m4k-optimizer.ts:290`: the next preset's takes its place).
- Sanity: an array type that contains itself without an object in between, which
  Studio refuses and on which the code does not return; the request that sends
  the schema.
- CLI: commands that only read, package installation, organizations and automatic
  incident resolution, `update -d` with JSON, jitter.
- Strapi's incoming webhooks and the webhook package translate or sign one request
  and keep nothing.  The pages of the UI are presentation; its
  `lib/server/live-updates.ts` is used by nothing.  Quota, dashboard and flow rules
  of the service packages, the HTTP API client and the worker bus of `core` are
  without a model so far.
