---------------------------- MODULE FileServing ----------------------------
(***************************************************************************)
(* The content of a file: how the media queue derives it from a download   *)
(* (shared/files/mediaQueue.ts, createOrUpdateMediaMaster.ts), how a start *)
(* of the runtime derives it again when the configuration changed          *)
(* (reconcileMediaMasters.ts, rederiveFileFromMediaMaster.ts), and how     *)
(* requests convert and cache variants of it (loadFile.ts, infra/http.ts), *)
(* all at once in one process over the tables files, media_masters and     *)
(* media_variants.  Module MediaQueue has the queue itself: here a pending *)
(* file may be taken at any time.                                          *)
(*                                                                         *)
(* A content is the version of the source it was downloaded from.  The     *)
(* per-file settings (transformMedia, pregenerate, collection) are the set *)
(* of presets to generate in advance; the master configuration is fixed.   *)
(***************************************************************************)
EXTENDS Naturals, FiniteSets

CONSTANTS
  Files, Requests,
  Presets,      \* what a request may ask of a file
  Omitted,      \* the options transformMedia and mediaVariants are not given
  None,
  MaxVersions,  \* bound: contents the source of a file has had
  MaxEvents,    \* bound: sync events
  MaxStarts     \* bound: starts of the application or of the stream

ASSUME ConstantsAssumption ==
  /\ IsFiniteSet(Files) /\ IsFiniteSet(Presets)
  /\ {MaxVersions, MaxEvents, MaxStarts} \subseteq Nat

VARIABLES
  config,     \* the settings given to connect(), or Omitted
  source,     \* the content that the URL of a file serves
  files,      \* the rows of files
  masters,    \* media_masters: [of, fingerprint]
  variants,   \* media_variants: the content each was made of
  work,       \* the files that the media queue is processing
  reconcile,  \* the start of the stream: [phase, todo, row]
  requests,
  outlived,   \* history: requests whose file was deleted while they converted
  outdated,   \* history: the variants that such requests have written
  torn,       \* history: files whose derivation is written in part
  events, starts

vars == <<config, source, files, masters, variants, work, reconcile, requests,
          outlived, outdated, torn, events, starts>>
history == <<outlived, outdated, torn>>

Settings == (SUBSET Presets) \cup {Omitted}

NoFile == [status |-> "none", data |-> None, settings |-> Omitted]
Url == [of |-> 0, by |-> {}]            \* the row's data is the source URL
IsUrl(data) == data = Url

(* hashObject over the options: the queue hashes width, height and quality,  *)
(* a request also extension, format and media type.                         *)
PipelineKey(preset) == [preset |-> preset, target |-> FALSE]
RequestKey(preset) == [preset |-> preset, target |-> TRUE]
Keys == [preset: Presets, target: BOOLEAN]

Exists(f) == files[f].status # "none"
Ready(f) == files[f].status = "ready"
Pregenerated(settings) == IF settings = Omitted THEN {} ELSE settings
Derived(of, settings) == [of |-> of, by |-> Pregenerated(settings)]

(* storeVariantRecords: what is there is overwritten.                       *)
WithPregenerated(f, of, settings) ==
  [k \in Keys |-> IF k \in {PipelineKey(p) : p \in Pregenerated(settings)}
                  THEN of ELSE variants[f][k]]

NoVariants == [k \in Keys |-> 0]
Idle == [step |-> "idle", file |-> None, preset |-> None, of |-> 0]
Started == [phase |-> "started", todo |-> {}, row |-> None, step |-> "encode"]

(* What the options leave open is taken from the row.                       *)
Merged(settings, option) == IF option # Omitted THEN option ELSE settings

(* reconcileMediaMasters reads the ready files and their masters once.      *)
Reading(rows, option) ==
  [phase |-> "reconciling", row |-> None, step |-> "encode",
   todo |-> {[file |-> f, master |-> masters[f], settings |-> Merged(rows[f].settings, option)] :
               f \in {g \in Files : rows[g].status = "ready"}}]

Init ==
  /\ config \in Settings
  /\ source = [f \in Files |-> 1]
  /\ files = [f \in Files |-> NoFile]
  /\ masters = [f \in Files |-> None]
  /\ variants = [f \in Files |-> NoVariants]
  /\ work = [f \in Files |-> None]
  /\ reconcile = Started
  /\ requests = [r \in Requests |-> Idle]
  /\ outlived = {} /\ outdated = {} /\ torn = {} /\ events = 0 /\ starts = 0

-----------------------------------------------------------------------------
(* Sync events: only once the start has reconciled the files.               *)

EditSource(f) ==
  /\ source[f] < MaxVersions
  /\ source' = [source EXCEPT ![f] = @ + 1]
  /\ UNCHANGED <<config, files, masters, variants, work, reconcile, requests, history,
                 events, starts>>

(* Faulty variant: the stream runs while the files are reconciled.          *)
AnyTime == events < MaxEvents
Streaming == events < MaxEvents /\ reconcile.phase = "started"

(* createPendingFile: a new row, or a failed one revived with its settings. *)
Deliver(f) ==
  /\ Streaming
  /\ events' = events + 1
  /\ files' = [files EXCEPT ![f] =
       CASE @.status = "none" -> [status |-> "pending", data |-> Url, settings |-> config]
         [] @.status = "failed" -> [@ EXCEPT !.status = "pending", !.data = Url]
         [] OTHER -> @]
  /\ UNCHANGED <<config, source, masters, variants, work, reconcile, requests, history,
                 starts>>

(* Faulty variant: the variants stay when the row goes.                     *)
KeptVariants(f) == variants[f]
CascadedVariants(f) == NoVariants

(* pruneItemFiles: masters and variants go with the row.                    *)
Delete(f) ==
  /\ Streaming
  /\ events' = events + 1
  /\ Exists(f)
  /\ files' = [files EXCEPT ![f] = NoFile]
  /\ masters' = [masters EXCEPT ![f] = None]
  /\ variants' = [variants EXCEPT ![f] = CascadedVariants(f)]
  /\ outlived' = outlived \cup
       {r \in Requests : requests[r].step = "converting" /\ requests[r].file = f}
  /\ outdated' = outdated \ ({f} \X Presets)
  /\ torn' = torn \ {f}
  /\ UNCHANGED <<config, source, work, reconcile, requests, starts>>

-----------------------------------------------------------------------------
(* The media queue processes a pending file.                                *)

Pending(f) == files[f].status = "pending"

Goes(f, step) == work' = [work EXCEPT ![f].step = step]

(* processOne: the row is read, its source downloaded.                      *)
Download(f) ==
  /\ work[f] = None /\ Pending(f) /\ IsUrl(files[f].data)
  /\ work' = [work EXCEPT ![f] =
       [step |-> "master", of |-> source[f], settings |-> files[f].settings]]
  /\ UNCHANGED <<config, source, files, masters, variants, reconcile, requests, history,
                 events, starts>>

(* fail(): what the row's data is by now is kept, the settings are those    *)
(* that were read; the file is tried again or given up.                     *)
Fails(f) ==
  /\ \E status \in {"pending", "failed"} :
       files' = [files EXCEPT ![f] =
         IF @.status = "none" THEN @
         ELSE [@ EXCEPT !.status = status, !.settings = work[f].settings]]
  /\ work' = [work EXCEPT ![f] = None]

(* Output has replaced the URL of a file that failed after it was written:  *)
(* it cannot be downloaded, and is given up after some attempts.            *)
SourceLost(f) ==
  /\ work[f] = None /\ Pending(f) /\ ~IsUrl(files[f].data)
  /\ files' = [files EXCEPT ![f].status = "failed"]
  /\ UNCHANGED <<config, source, masters, variants, work, reconcile, requests, history,
                 events, starts>>

(* Faulty variant: the fingerprint of the options instead of the file's.    *)
OptionFingerprint(f) == config
FileFingerprint(f) == work[f].settings

(* createOrUpdateMediaMaster, once the master has been encoded; without its *)
(* row the insert violates the foreign key.                                 *)
StoreMaster(f) ==
  /\ work[f] # None /\ work[f].step = "master"
  /\ IF Exists(f)
     THEN /\ masters' = [masters EXCEPT ![f] =
               [of |-> work[f].of, fingerprint |-> FileFingerprint(f)]]
          /\ Goes(f, "outputs")
          /\ UNCHANGED files
     ELSE Fails(f) /\ UNCHANGED masters
  /\ UNCHANGED <<config, source, variants, reconcile, requests, history, events, starts>>

(* writeProcessedOutputs, once the output has been encoded: the store first *)
(* (DBStore.write goes by id, and does nothing without a row).  The outputs *)
(* of presets are not told apart from it.                                   *)
DataWritten(f, of, settings) ==
  files' = [files EXCEPT ![f] =
    IF @.status = "none" THEN @ ELSE [@ EXCEPT !.data = Derived(of, settings)]]

WriteOutput(f) ==
  /\ work[f] # None /\ work[f].step = "outputs"
  /\ DataWritten(f, work[f].of, work[f].settings)
  /\ Goes(f, "records")
  /\ UNCHANGED <<config, source, masters, variants, reconcile, requests, history, events,
                 starts>>

(* The records of the variants then violate the foreign key if the row is   *)
(* gone.                                                                    *)
WriteRecords(f) ==
  /\ work[f] # None /\ work[f].step = "records"
  /\ IF Exists(f)
     THEN /\ variants' = [variants EXCEPT ![f] = WithPregenerated(f, work[f].of, work[f].settings)]
          /\ Goes(f, "finish")
          /\ UNCHANGED files
     ELSE UNCHANGED variants /\ Fails(f)
  /\ UNCHANGED <<config, source, masters, reconcile, requests, history, events, starts>>

(* The ready row keeps no settings.                                         *)
MarkReady(f) ==
  /\ work[f] # None /\ work[f].step = "finish"
  /\ files' = [files EXCEPT ![f] =
       IF @.status = "none" THEN @
       ELSE [status |-> "ready", data |-> Derived(work[f].of, work[f].settings),
             settings |-> Omitted]]
  /\ work' = [work EXCEPT ![f] = None]
  /\ UNCHANGED <<config, source, masters, variants, reconcile, requests, history, events,
                 starts>>

(* The encoder, the store or the metadata failed.                           *)
ProcessingFails(f) ==
  /\ work[f] # None
  /\ Fails(f)
  /\ UNCHANGED <<config, source, masters, variants, reconcile, requests, history, events,
                 starts>>

-----------------------------------------------------------------------------
(* The start of the stream: reconcileMediaMasters, then the stream.         *)

(* The next of the files that were ready: without a master a repair is      *)
(* requested, an equal fingerprint is skipped, otherwise the variants go    *)
(* and the encoder is started on the master.                                *)
ReconcileFile ==
  /\ reconcile.phase = "reconciling" /\ reconcile.row = None
  /\ \E row \in reconcile.todo :
       LET skipped == IF row.master = None THEN TRUE
                      ELSE row.master.fingerprint = row.settings
       IN /\ reconcile' = [reconcile EXCEPT !.todo = @ \ {row},
                                            !.row = IF skipped THEN None ELSE row]
          /\ variants' = IF skipped THEN variants
                         ELSE [variants EXCEPT ![row.file] = NoVariants]
          /\ outdated' = IF skipped THEN outdated ELSE outdated \ ({row.file} \X Presets)
  /\ UNCHANGED <<config, source, files, masters, work, requests, outlived, torn, events, starts>>

(* rederiveFileFromMediaMaster, once the output has been encoded: it goes   *)
(* through writeProcessedOutputs as well, by id, whatever the row is now.   *)
Deriving(step) == reconcile.row # None /\ reconcile.step = step

RederiveOutput ==
  /\ Deriving("encode")
  /\ LET row == reconcile.row IN
       /\ DataWritten(row.file, row.master.of, row.settings)
       /\ torn' = torn \cup {row.file}
  /\ reconcile' = [reconcile EXCEPT !.step = "records"]
  /\ UNCHANGED <<config, source, masters, variants, work, requests, outlived, outdated, events,
                 starts>>

RederiveRecords ==
  /\ Deriving("records")
  /\ LET row == reconcile.row IN
       /\ Exists(row.file)       \* if not: a failure, so Reconnect
       /\ variants' = [variants EXCEPT ![row.file] =
                         WithPregenerated(row.file, row.master.of, row.settings)]
  /\ reconcile' = [reconcile EXCEPT !.step = "row"]
  /\ UNCHANGED <<config, source, files, masters, work, requests, history, events, starts>>

RowWritten(row) ==
  files' = [files EXCEPT ![row.file] =
    IF @.status = "none" THEN @
    ELSE [@ EXCEPT !.data = Derived(row.master.of, row.settings), !.settings = row.settings]]

Rederive ==
  /\ Deriving("row")
  /\ LET row == reconcile.row IN
       /\ RowWritten(row)
       /\ masters' = [masters EXCEPT ![row.file] =
            IF @ = None THEN @ ELSE [@ EXCEPT !.fingerprint = row.settings]]
       /\ torn' = torn \ {row.file}
  /\ reconcile' = [reconcile EXCEPT !.row = None, !.step = "encode"]
  /\ UNCHANGED <<config, source, variants, work, requests, outlived, outdated, events, starts>>

ReconcileEnds ==
  /\ reconcile.phase = "reconciling" /\ reconcile.todo = {} /\ reconcile.row = None
  /\ reconcile' = Started
  /\ UNCHANGED <<config, source, files, masters, variants, work, requests, history, events,
                 starts>>

(* The stream ended, or the encoder or one of the writes of a derivation    *)
(* failed: connect() is called again in the same process, where the queue   *)
(* and the requests go on.                                                  *)
Reconnect ==
  /\ starts < MaxStarts
  /\ starts' = starts + 1
  /\ reconcile' = Reading(files, config)
  /\ UNCHANGED <<config, source, files, masters, variants, work, requests, history, events>>

(* The application stops and starts, perhaps with another configuration.    *)
Boots(rows) ==
  /\ starts < MaxStarts
  /\ starts' = starts + 1
  /\ config' \in Settings
  /\ work' = [f \in Files |-> None]
  /\ requests' = [r \in Requests |-> Idle]
  /\ reconcile' = Reading(rows, config')
  /\ outlived' = {}
  /\ UNCHANGED <<source, masters, variants, outdated, torn, events>>

(* It stops anywhere, also between two writes of a derivation.              *)
Restart == Boots(files) /\ UNCHANGED files

(* There is no await between the last two, row and fingerprint.             *)
CrashInRederive ==
  /\ Deriving("row")
  /\ RowWritten(reconcile.row)
  /\ Boots(files')

-----------------------------------------------------------------------------
(* loadFile: a request for a variant.                                       *)

SourceOf(f) == IF masters[f] # None THEN masters[f].of ELSE files[f].data.of

(* Nothing, or a cached variant whatever the status of the file, is         *)
(* answered at once; else the source is read and the encoder is started.    *)
Ask(r, f, preset) ==
  /\ requests[r].step = "idle"
  /\ Ready(f) /\ variants[f][RequestKey(preset)] = 0
  /\ requests' = [requests EXCEPT ![r] =
       [step |-> "converting", file |-> f, preset |-> preset, of |-> SourceOf(f)]]
  /\ UNCHANGED <<config, source, files, masters, variants, work, reconcile, history, events,
                 starts>>

Insertable(f, key) == Exists(f) /\ variants[f][key] = 0

(* writeCachedVariant, once the variant has been encoded: an insert that    *)
(* violates the primary or the foreign key fails the request.               *)
Converted(r) ==
  /\ requests[r].step = "converting"
  /\ LET f == requests[r].file
         key == RequestKey(requests[r].preset)
     IN /\ variants' = IF Insertable(f, key)
                       THEN [variants EXCEPT ![f][key] = requests[r].of] ELSE variants
        /\ outdated' = IF Insertable(f, key) /\ r \in outlived
                       THEN outdated \cup {<<f, requests[r].preset>>} ELSE outdated
  /\ outlived' = outlived \ {r}
  /\ requests' = [requests EXCEPT ![r] = Idle]
  /\ UNCHANGED <<config, source, files, masters, work, reconcile, torn, events, starts>>

ConversionFails(r) ==
  /\ requests[r].step = "converting"
  /\ outlived' = outlived \ {r}
  /\ requests' = [requests EXCEPT ![r] = Idle]
  /\ UNCHANGED <<config, source, files, masters, variants, work, reconcile, outdated, torn, events,
                 starts>>

Process(f) ==
  \/ Download(f) \/ SourceLost(f) \/ StoreMaster(f) \/ WriteOutput(f) \/ WriteRecords(f)
  \/ MarkReady(f) \/ ProcessingFails(f)

Request(r) ==
  \/ \E f \in Files, preset \in Presets : Ask(r, f, preset)
  \/ Converted(r) \/ ConversionFails(r)

Next ==
  \/ \E f \in Files : EditSource(f) \/ Deliver(f) \/ Delete(f) \/ Process(f)
  \/ ReconcileFile \/ RederiveOutput \/ RederiveRecords \/ Rederive \/ ReconcileEnds
  \/ Reconnect \/ Restart \/ CrashInRederive
  \/ \E r \in Requests : Request(r)

Spec == Init /\ [][Next]_vars

-----------------------------------------------------------------------------
(* A cached variant was made of the content that the file has now, after    *)
(* retries with another content, reconciliations, and requests that wait    *)
(* for their encoder all the while.  What is out of date was written by a   *)
(* request whose file was deleted and delivered again in the meantime, and  *)
(* goes when the file is deleted or derived again.                          *)
CachedVariantsAreCurrent ==
  \A f \in Files, p \in Presets :
    Ready(f) /\ <<f, p>> \notin outdated /\ variants[f][RequestKey(p)] # 0
      => variants[f][RequestKey(p)] = files[f].data.of

(* The fingerprint tells how a file was derived: whenever the stream runs,  *)
(* a ready file is what its master gives under the settings that its        *)
(* fingerprint stands for, wherever an earlier start failed or was cut off. *)
(* Only a derivation that was written in part, followed by a return to the  *)
(* settings before it, goes unnoticed, and that until the file is derived   *)
(* again or deleted.                                                        *)
FingerprintsAreTrue ==
  \A f \in Files :
    reconcile.phase = "started" /\ Ready(f) /\ masters[f] # None /\ f \notin torn
      => files[f].data = Derived(masters[f].of, masters[f].fingerprint)

(* Rows are written by id after waiting for an encoder and a store: each of *)
(* the writes of a derivation is only ever made to the ready row that it    *)
(* was started for, beside its master, never over the source URL of one     *)
(* that has taken its place.                                                *)
DerivationsMeetTheirRow ==
  [][RederiveOutput \/ RederiveRecords \/ Rederive =>
       LET f == reconcile.row.file IN
       Ready(f) /\ masters[f] = reconcile.row.master]_vars

(* media-optimization.md: a preset that was generated in advance is a cache *)
(* hit for the first request.                                               *)
PregeneratedIsHit ==
  \A r \in Requests :
    requests[r].step = "converting"
      => variants[requests[r].file][PipelineKey(requests[r].preset)] = 0

(* media-optimization.md: omitting the options keeps the stored settings.   *)
OmittedKeepsSettings ==
  [][\A f \in Files :
       RederiveOutput /\ reconcile.row.file = f /\ config = Omitted
         => files'[f].data = files[f].data]_vars
=============================================================================
