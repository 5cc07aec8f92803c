-------------------------- MODULE FileServing_proofs --------------------------
(***************************************************************************)
(* Proofs about FileServing: the fingerprint of a media master, a cached   *)
(* variant and the content of its file agree for every number of files,    *)
(* requests, presets, contents, events and starts.                         *)
(*                                                                         *)
(* All three rest on who may write what.  The queue only works on a row    *)
(* that is not ready (WorkInv), so what a start has read of a ready file   *)
(* stays true until it has written that file (ReconcileInv); and a         *)
(* conversion was started on a ready row, which it only loses when the row *)
(* is deleted (RequestsInv).                                               *)
(***************************************************************************)
EXTENDS FileServing, TLAPS

Contents == [of: Nat, by: SUBSET Presets]
Rows == [status: {"pending", "ready", "failed"}, data: Contents, settings: Settings]
Masters == [of: Nat, fingerprint: Settings]
Works == [step: {"master", "outputs", "records", "finish"}, of: Nat, settings: Settings]
Derivations == [file: Files, master: Masters \cup {None}, settings: Settings]
Starts == [phase: {"started", "reconciling"}, todo: SUBSET Derivations,
           row: Derivations \cup {None}, step: {"encode", "records", "row"}]
Conversions == [step: {"converting"}, file: Files, preset: Presets, of: Nat]

TypeOK ==
  /\ config \in Settings
  /\ source \in [Files -> Nat]
  /\ files \in [Files -> Rows \cup {NoFile}]
  /\ masters \in [Files -> Masters \cup {None}]
  /\ variants \in [Files -> [Keys -> Nat]]
  /\ work \in [Files -> Works \cup {None}]
  /\ reconcile \in Starts
  /\ requests \in [Requests -> Conversions \cup {Idle}]

(* What the queue works on is not ready, and between its writes the master  *)
(* is the one it wrote, or is gone with its row.                            *)
WorkInv ==
  \A f \in Files : work[f] # None =>
    /\ files[f].status \in {"none", "pending"}
    /\ work[f].step # "master" /\ masters[f] # None
         => masters[f] = [of |-> work[f].of, fingerprint |-> work[f].settings]

(* What goes with a row is not there without one.                           *)
RowInv == \A f \in Files : ~Exists(f) => masters[f] = None /\ variants[f] = NoVariants

(* What the start has read holds until it has written it.                   *)
Holds(row) == Ready(row.file) /\ masters[row.file] = row.master

ReconcileInv ==
  /\ reconcile.phase = "started" => reconcile.todo = {} /\ reconcile.row = None
  /\ reconcile.row = None => reconcile.step = "encode"
  /\ \A row \in reconcile.todo : Holds(row)
  /\ \A row \in reconcile.todo, other \in reconcile.todo : row.file = other.file => row = other
  /\ reconcile.row # None =>
       /\ Holds(reconcile.row) /\ reconcile.row.master # None
       /\ reconcile.step # "encode" => reconcile.row.file \in torn
       /\ \A row \in reconcile.todo : row.file # reconcile.row.file

(* The master of a ready file is of the content that the file has; under    *)
(* its fingerprint it gives the file, unless a derivation is written in part. *)
MasterInv ==
  \A f \in Files : Ready(f) /\ masters[f] # None =>
    /\ masters[f].of = files[f].data.of
    /\ f \notin torn => files[f].data = Derived(masters[f].of, masters[f].fingerprint)

(* A conversion that has not outlived its row will store what is current.   *)
RequestsInv ==
  \A r \in Requests :
    LET f == requests[r].file IN
    requests[r].step = "converting" /\ r \notin outlived
      => Ready(f) /\ requests[r].of = files[f].data.of

(* A variant is of the ready file, or a late request has written it.        *)
VariantsInv ==
  \A f \in Files, p \in Presets :
    <<f, p>> \notin outdated /\ variants[f][RequestKey(p)] # 0
      => Ready(f) /\ variants[f][RequestKey(p)] = files[f].data.of

Inv ==
  /\ TypeOK /\ WorkInv /\ RowInv /\ ReconcileInv /\ MasterInv /\ RequestsInv /\ VariantsInv

-----------------------------------------------------------------------------
(* Lemmas about the operators.                                             *)

(* The queue and the requests never share a key of a variant.              *)
LEMMA KeysApart ==
  ASSUME NEW p \in Presets
  PROVE  /\ RequestKey(p) \in Keys /\ PipelineKey(p) \in Keys
         /\ \A q \in Presets : RequestKey(p) # PipelineKey(q)
BY DEF RequestKey, PipelineKey, Keys

(* What is derived from a content is of that content.                      *)
LEMMA DerivedIsContent ==
  ASSUME NEW of \in Nat, NEW settings \in Settings
  PROVE  /\ Derived(of, settings) \in Contents /\ Derived(of, settings).of = of
         /\ Pregenerated(settings) \subseteq Presets
<1>1. Pregenerated(settings) \subseteq Presets
  BY DEF Pregenerated, Settings
<1> QED BY <1>1 DEF Derived, Contents

(* Writing the variants generated in advance leaves the requested ones.    *)
LEMMA PregeneratedLeaves ==
  ASSUME TypeOK, NEW f \in Files, NEW of \in Nat, NEW settings \in Settings
  PROVE  /\ WithPregenerated(f, of, settings) \in [Keys -> Nat]
         /\ \A p \in Presets :
              WithPregenerated(f, of, settings)[RequestKey(p)] = variants[f][RequestKey(p)]
<1>1. variants[f] \in [Keys -> Nat]
  BY DEF TypeOK
<1>2. WithPregenerated(f, of, settings) \in [Keys -> Nat]
  BY <1>1 DEF WithPregenerated
<1>3. ASSUME NEW p \in Presets
      PROVE  WithPregenerated(f, of, settings)[RequestKey(p)] = variants[f][RequestKey(p)]
  <2>1. RequestKey(p) \in Keys
        /\ RequestKey(p) \notin {PipelineKey(q) : q \in Pregenerated(settings)}
    BY KeysApart, DerivedIsContent
  <2> QED BY <2>1 DEF WithPregenerated
<1> QED BY <1>2, <1>3

(* No variant of a row that is gone.                                       *)
LEMMA NoneCached ==
  /\ NoVariants \in [Keys -> Nat]
  /\ \A p \in Presets : NoVariants[RequestKey(p)] = 0
BY KeysApart DEF NoVariants

(* The tables hold rows of their types.                                    *)
LEMMA TypesOfRows ==
  ASSUME TypeOK, NEW f \in Files
  PROVE  /\ Exists(f) => files[f] \in Rows
         /\ Ready(f) => Exists(f)
         /\ masters[f] # None => masters[f] \in Masters
         /\ work[f] # None => work[f] \in Works
BY DEF TypeOK, Exists, Ready, NoFile

(* A request that is converting.                                           *)
LEMMA TypesOfRequests ==
  ASSUME TypeOK, NEW r \in Requests, requests[r].step = "converting"
  PROVE  requests[r] \in Conversions
BY DEF TypeOK, Idle

(* A start reads every ready file once, as it is.                          *)
LEMMA ReadingHolds ==
  ASSUME TypeOK, masters' = masters, NEW option \in Settings,
         files' \in [Files -> Rows \cup {NoFile}], reconcile' = Reading(files', option)
  PROVE  /\ ReconcileInv'
         /\ reconcile' \in Starts
<1> DEFINE Read(f) ==
      [file |-> f, master |-> masters[f], settings |-> Merged(files'[f].settings, option)]
<1>1. reconcile'.phase = "reconciling" /\ reconcile'.row = None /\ reconcile'.step = "encode"
      /\ reconcile'.todo = {Read(f) : f \in {g \in Files : files'[g].status = "ready"}}
  BY DEF Reading
<1>2. ASSUME NEW f \in Files, files'[f].status = "ready"
      PROVE  Read(f) \in Derivations
  <2>1. files'[f] \in Rows
    BY <1>2 DEF NoFile
  <2>2. Merged(files'[f].settings, option) \in Settings
    BY <2>1 DEF Merged, Rows
  <2> QED BY <2>2 DEF TypeOK, Derivations
<1>3. ReconcileInv'
  BY <1>1 DEF ReconcileInv, Holds, Ready
<1>4. reconcile'.todo \subseteq Derivations
  BY <1>1, <1>2
<1> QED BY <1>1, <1>3, <1>4 DEF Reading, Starts

(* The queue gives up on a file it works on.                               *)
LEMMA FailsInv ==
  ASSUME Inv, NEW f \in Files, work[f] # None, Fails(f),
         UNCHANGED <<config, source, masters, variants, reconcile, requests, outlived, outdated, torn>>
  PROVE  Inv'
<1>1. PICK status \in {"pending", "failed"} :
        files' = [files EXCEPT ![f] = IF @.status = "none" THEN @
                  ELSE [@ EXCEPT !.status = status, !.settings = work[f].settings]]
  BY DEF Fails
<1>2. work' = [work EXCEPT ![f] = None]
  BY DEF Fails
<1>3. /\ files[f].status \in {"none", "pending"} /\ ~Ready(f) /\ work[f] \in Works
      /\ Exists(f) => files[f] \in Rows
  BY TypesOfRows DEF Inv, WorkInv, Ready
<1>4. /\ files'[f].status = "none" <=> files[f].status = "none"
      /\ files'[f].status # "ready"
      /\ files'[f] \in Rows \cup {NoFile}
      /\ \A g \in Files : g # f => files'[g] = files[g]
  BY <1>1, <1>3 DEF Inv, TypeOK, Exists, Rows, Works, NoFile
<1>5. TypeOK'
  BY <1>1, <1>2, <1>4 DEF Inv, TypeOK
<1>6. WorkInv'
  BY <1>2, <1>4 DEF Inv, TypeOK, WorkInv
<1>7. RowInv'
  BY <1>4 DEF Inv, RowInv, Exists
<1>8. ReconcileInv'
  <2>1. \A row : Holds(row) /\ row.file \in Files => Holds(row)'
    BY <1>3, <1>4 DEF Holds, Ready
  <2>2. /\ \A row \in reconcile.todo : row.file \in Files
        /\ reconcile.row # None => reconcile.row.file \in Files
    BY DEF Inv, TypeOK, Starts, Derivations
  <2> QED BY <2>1, <2>2 DEF Inv, ReconcileInv
<1>9. MasterInv'
  BY <1>4 DEF Inv, MasterInv, Ready
<1>10. RequestsInv'
  <2>1. \A r \in Requests : requests[r].step = "converting" => requests[r].file \in Files
    BY TypesOfRequests DEF Inv, Conversions
  <2> QED BY <1>3, <1>4, <2>1 DEF Inv, RequestsInv, Ready
<1>11. VariantsInv'
  BY <1>3, <1>4 DEF Inv, VariantsInv, Ready
<1> QED BY <1>5, <1>6, <1>7, <1>8, <1>9, <1>10, <1>11 DEF Inv

-----------------------------------------------------------------------------
LEMMA InitInv == Init => Inv
<1> SUFFICES ASSUME Init PROVE Inv
  OBVIOUS
<1>1. TypeOK
  BY NoneCached DEF Init, TypeOK, Starts, Started, NoFile
<1>2. ReconcileInv
  BY DEF Init, ReconcileInv, Started
<1>3. RowInv /\ WorkInv /\ MasterInv
  BY DEF Init, RowInv, WorkInv, MasterInv, Ready, NoFile
<1>4. RequestsInv /\ VariantsInv
  BY NoneCached DEF Init, RequestsInv, VariantsInv, Idle
<1> QED BY <1>1, <1>2, <1>3, <1>4 DEF Inv

(* A step that only changes the row of one file, which was not ready and   *)
(* does not become so, leaves what depends on ready files.                 *)
LEMMA RowStaysUnready ==
  ASSUME Inv, NEW f \in Files, ~Ready(f), files'[f].status # "ready",
         files'[f] \in Rows \cup {NoFile}, files' = [files EXCEPT ![f] = files'[f]],
         UNCHANGED <<masters, variants, reconcile, requests, outlived, outdated, torn>>
  PROVE  ReconcileInv' /\ MasterInv' /\ RequestsInv' /\ VariantsInv'
<1>1. \A g \in Files : /\ Ready(g)' <=> Ready(g)
                       /\ Ready(g) => files'[g] = files[g]
  BY DEF Inv, TypeOK, Ready
<1>2. ReconcileInv'
  <2>1. /\ \A row \in reconcile.todo : row.file \in Files
        /\ reconcile.row # None => reconcile.row.file \in Files
    BY DEF Inv, TypeOK, Starts, Derivations
  <2> QED BY <1>1, <2>1 DEF Inv, ReconcileInv, Holds
<1>3. MasterInv'
  BY <1>1 DEF Inv, MasterInv
<1>4. RequestsInv'
  <2>1. \A r \in Requests : requests[r].step = "converting" => requests[r].file \in Files
    BY TypesOfRequests DEF Inv, Conversions
  <2> QED BY <1>1, <2>1 DEF Inv, RequestsInv
<1>5. VariantsInv'
  BY <1>1 DEF Inv, VariantsInv
<1> QED BY <1>2, <1>3, <1>4, <1>5

(* What a sync event does to a row.                                        *)
LEMMA DeliverInv ==
  ASSUME Inv, NEW f \in Files, Deliver(f)
  PROVE  Inv'
<1>1. /\ files' = [files EXCEPT ![f] =
           CASE @.status = "none" -> [status |-> "pending", data |-> Url, settings |-> config]
             [] @.status = "failed" -> [@ EXCEPT !.status = "pending", !.data = Url]
             [] OTHER -> @]
      /\ UNCHANGED <<config, source, masters, variants, work, reconcile, requests, outlived, outdated, torn>>
  BY DEF Deliver, history
<1>2. CASE files[f].status = "none"
  <2>1. files' = [files EXCEPT ![f] = [status |-> "pending", data |-> Url, settings |-> config]]
    BY <1>1, <1>2 DEF Inv, TypeOK
  <2>2. files'[f] = [status |-> "pending", data |-> Url, settings |-> config]
        /\ Url \in Contents
    BY <2>1 DEF Inv, TypeOK, Url, Contents
  <2>3. files'[f] \in Rows /\ files'[f].status = "pending" /\ ~Ready(f)
    BY <1>2, <2>2 DEF Inv, TypeOK, Rows, Ready
  <2>4. TypeOK' /\ WorkInv' /\ RowInv'
    BY <1>1, <2>1, <2>3 DEF Inv, TypeOK, WorkInv, RowInv, Exists
  <2> QED BY <1>1, <2>1, <2>2, <2>3, <2>4, RowStaysUnready DEF Inv
<1>3. CASE files[f].status = "failed"
  <2>1. files' = [files EXCEPT ![f] = [@ EXCEPT !.status = "pending", !.data = Url]]
    BY <1>1, <1>3 DEF Inv, TypeOK
  <2>2. Url \in Contents /\ files[f] \in Rows
    BY <1>3, TypesOfRows DEF Inv, Url, Contents, Exists
  <2>3. files'[f] \in Rows /\ files'[f].status = "pending" /\ ~Ready(f)
    BY <1>3, <2>1, <2>2 DEF Inv, TypeOK, Rows, Ready
  <2>4. TypeOK' /\ WorkInv' /\ RowInv'
    BY <1>1, <1>3, <2>1, <2>3 DEF Inv, TypeOK, WorkInv, RowInv, Exists
  <2>5. files' = [files EXCEPT ![f] = files'[f]]
    BY <2>1 DEF Inv, TypeOK
  <2> QED BY <1>1, <2>3, <2>4, <2>5, RowStaysUnready DEF Inv
<1>4. CASE files[f].status \notin {"none", "failed"}
  <2>1. files' = files
    BY <1>1, <1>4 DEF Inv, TypeOK
  <2> QED BY <1>1, <2>1 DEF Inv, TypeOK, WorkInv, RowInv, ReconcileInv, MasterInv, RequestsInv,
                 VariantsInv, Holds, Ready, Exists
<1> QED BY <1>2, <1>3, <1>4

LEMMA DeleteInv ==
  ASSUME Inv, NEW f \in Files, Delete(f)
  PROVE  Inv'
<1>1. /\ files' = [files EXCEPT ![f] = NoFile] /\ masters' = [masters EXCEPT ![f] = None]
      /\ variants' = [variants EXCEPT ![f] = NoVariants]
      /\ outdated' = outdated \ ({f} \X Presets) /\ torn' = torn \ {f}
      /\ UNCHANGED <<config, source, work, reconcile, requests>>
      /\ reconcile.phase = "started"
  BY DEF Delete, Streaming, CascadedVariants
<1>2. /\ outlived \subseteq outlived'
      /\ \A r \in Requests :
           requests[r].step = "converting" /\ requests[r].file = f => r \in outlived'
  BY DEF Delete
<1>3. TypeOK'
  BY <1>1, NoneCached DEF Inv, TypeOK
<1>4. WorkInv' /\ RowInv'
  BY <1>1 DEF Inv, TypeOK, WorkInv, RowInv, Exists, NoFile
<1>5. ReconcileInv'
  BY <1>1 DEF Inv, ReconcileInv
<1>6. MasterInv'
  BY <1>1 DEF Inv, TypeOK, MasterInv, Ready, NoFile
<1>7. RequestsInv'
  <2>1. \A r \in Requests : requests[r].step = "converting" => requests[r].file \in Files
    BY TypesOfRequests DEF Inv, Conversions
  <2> QED BY <1>1, <1>2, <2>1 DEF Inv, TypeOK, RequestsInv, Ready
<1>8. VariantsInv'
  BY <1>1, <1>2, NoneCached DEF Inv, TypeOK, VariantsInv, Ready
<1> QED BY <1>3, <1>4, <1>5, <1>6, <1>7, <1>8 DEF Inv

(* The steps of the media queue.                                           *)
LEMMA DownloadInv ==
  ASSUME Inv, NEW f \in Files, Download(f)
  PROVE  Inv'
<1> DEFINE taken == [step |-> "master", of |-> source[f], settings |-> files[f].settings]
<1>1. /\ work' = [work EXCEPT ![f] = taken] /\ files[f].status = "pending"
      /\ UNCHANGED <<config, source, files, masters, variants, reconcile, requests, outlived, outdated, torn>>
  BY DEF Download, Pending, history
<1>2. taken \in Works
  <2>1. files[f] \in Rows
    BY <1>1, TypesOfRows DEF Inv, Exists
  <2> QED BY <2>1 DEF Inv, TypeOK, Rows, Works
<1>3. TypeOK'
  BY <1>1, <1>2 DEF Inv, TypeOK
<1>4. WorkInv'
  BY <1>1 DEF Inv, TypeOK, WorkInv
<1> QED BY <1>1, <1>3, <1>4 DEF Inv, RowInv, ReconcileInv, MasterInv, RequestsInv, VariantsInv,
               Holds, Ready, Exists

LEMMA SourceLostInv ==
  ASSUME Inv, NEW f \in Files, SourceLost(f)
  PROVE  Inv'
<1>1. /\ files' = [files EXCEPT ![f].status = "failed"] /\ work[f] = None
      /\ files[f].status = "pending"
      /\ UNCHANGED <<config, source, masters, variants, work, reconcile, requests, outlived, outdated, torn>>
  BY DEF SourceLost, Pending, history
<1>2. files[f] \in Rows
  BY <1>1, TypesOfRows DEF Inv, Exists
<1>3. /\ files'[f] \in Rows /\ files'[f].status = "failed" /\ ~Ready(f)
      /\ files' = [files EXCEPT ![f] = files'[f]]
  BY <1>1, <1>2 DEF Inv, TypeOK, Rows, Ready
<1>4. TypeOK' /\ WorkInv' /\ RowInv'
  BY <1>1, <1>3 DEF Inv, TypeOK, WorkInv, RowInv, Exists
<1> QED BY <1>1, <1>3, <1>4, RowStaysUnready DEF Inv

LEMMA StoreMasterInv ==
  ASSUME Inv, NEW f \in Files, StoreMaster(f)
  PROVE  Inv'
<1> DEFINE master == [of |-> work[f].of, fingerprint |-> work[f].settings]
<1>1. CASE Exists(f)
  <2>1. /\ masters' = [masters EXCEPT ![f] = master] /\ work[f] # None
        /\ work' = [work EXCEPT ![f].step = "outputs"]
        /\ UNCHANGED <<config, source, files, variants, reconcile, requests, outlived, outdated, torn>>
    BY <1>1 DEF StoreMaster, Goes, FileFingerprint, history
  <2>2. work[f] \in Works /\ master \in Masters /\ ~Ready(f) /\ files[f].status = "pending"
    BY <1>1, <2>1, TypesOfRows DEF Inv, WorkInv, Works, Masters, Ready, Exists
  <2>3. /\ work'[f] \in Works /\ work'[f].of = work[f].of /\ work'[f].settings = work[f].settings
        /\ \A g \in Files : g # f => work'[g] = work[g] /\ masters'[g] = masters[g]
        /\ masters'[f] = master
    BY <2>1, <2>2 DEF Inv, TypeOK, Works
  <2>4. TypeOK'
    BY <2>1, <2>2, <2>3 DEF Inv, TypeOK
  <2>5. WorkInv'
    BY <2>1, <2>2, <2>3 DEF Inv, WorkInv
  <2>6. RowInv' /\ MasterInv'
    BY <1>1, <2>1, <2>2, <2>3 DEF Inv, RowInv, MasterInv, Exists, Ready
  <2>7. ReconcileInv'
    <3>1. \A row : Holds(row) /\ row.file \in Files => Holds(row)'
      BY <2>1, <2>2, <2>3 DEF Holds, Ready
    <3>2. /\ \A row \in reconcile.todo : row.file \in Files
          /\ reconcile.row # None => reconcile.row.file \in Files
      BY DEF Inv, TypeOK, Starts, Derivations
    <3> QED BY <2>1, <3>1, <3>2 DEF Inv, ReconcileInv
  <2> QED BY <2>1, <2>4, <2>5, <2>6, <2>7 DEF Inv, RequestsInv, VariantsInv, Ready
<1>2. CASE ~Exists(f)
  BY <1>2, FailsInv DEF StoreMaster, history
<1> QED BY <1>1, <1>2

LEMMA WriteOutputInv ==
  ASSUME Inv, NEW f \in Files, WriteOutput(f)
  PROVE  Inv'
<1> DEFINE data == Derived(work[f].of, work[f].settings)
<1>1. /\ files' = [files EXCEPT ![f] =
                     IF @.status = "none" THEN @ ELSE [@ EXCEPT !.data = data]]
      /\ work[f] # None /\ work[f].step = "outputs"
      /\ work' = [work EXCEPT ![f].step = "records"]
      /\ UNCHANGED <<config, source, masters, variants, reconcile, requests, outlived, outdated, torn>>
  BY DEF WriteOutput, DataWritten, Goes, history
<1>2. /\ work[f] \in Works /\ files[f].status \in {"none", "pending"} /\ data \in Contents
      /\ Exists(f) => files[f] \in Rows
  BY <1>1, TypesOfRows, DerivedIsContent DEF Inv, WorkInv, Works
<1>3. /\ files'[f] \in Rows \cup {NoFile} /\ files'[f].status = files[f].status
      /\ ~Ready(f) /\ files' = [files EXCEPT ![f] = files'[f]]
  <2>1. CASE files[f].status = "none"
    BY <1>1, <2>1 DEF Inv, TypeOK, Ready
  <2>2. CASE files[f].status = "pending"
    <3>1. files[f] \in Rows
      BY <1>2, <2>2 DEF Exists
    <3> QED BY <1>1, <1>2, <2>2, <3>1 DEF Inv, TypeOK, Rows, Ready
  <2> QED BY <1>2, <2>1, <2>2
<1>4. /\ work'[f] \in Works /\ work'[f].of = work[f].of /\ work'[f].settings = work[f].settings
      /\ \A g \in Files : g # f => work'[g] = work[g]
  BY <1>1, <1>2 DEF Inv, TypeOK, Works
<1>5. TypeOK'
  BY <1>1, <1>3, <1>4 DEF Inv, TypeOK
<1>6. WorkInv' /\ RowInv'
  BY <1>1, <1>2, <1>3, <1>4 DEF Inv, TypeOK, WorkInv, RowInv, Exists
<1>7. files'[f].status # "ready"
  BY <1>2, <1>3
<1> QED BY <1>1, <1>3, <1>5, <1>6, <1>7, RowStaysUnready DEF Inv

(* Records of variants that were generated in advance touch nothing else.   *)
LEMMA RecordsInv ==
  ASSUME Inv, TypeOK', NEW f \in Files, NEW of \in Nat, NEW settings \in Settings, Exists(f),
         variants' = [variants EXCEPT ![f] = WithPregenerated(f, of, settings)],
         UNCHANGED <<files, masters, requests, outlived, outdated, torn>>
  PROVE  RowInv' /\ MasterInv' /\ RequestsInv' /\ VariantsInv'
<1>1. /\ \A g \in Files, p \in Presets : variants'[g][RequestKey(p)] = variants[g][RequestKey(p)]
      /\ \A g \in Files : g # f => variants'[g] = variants[g]
  <2> DEFINE written == WithPregenerated(f, of, settings)
  <2>1. \A p \in Presets : written[RequestKey(p)] = variants[f][RequestKey(p)]
    BY PregeneratedLeaves DEF Inv
  <2>2. variants \in [Files -> [Keys -> Nat]] /\ variants' = [variants EXCEPT ![f] = written]
    BY DEF Inv, TypeOK
  <2> HIDE DEF written
  <2> QED BY <2>1, <2>2
<1>2. RowInv'
  BY <1>1 DEF Inv, RowInv, Exists
<1>3. MasterInv' /\ RequestsInv'
  BY DEF Inv, MasterInv, RequestsInv, Ready
<1>4. VariantsInv'
  BY <1>1 DEF Inv, VariantsInv, Ready
<1> QED BY <1>2, <1>3, <1>4

LEMMA WriteRecordsInv ==
  ASSUME Inv, NEW f \in Files, WriteRecords(f)
  PROVE  Inv'
<1>1. CASE Exists(f)
  <2>1. /\ variants' = [variants EXCEPT ![f] =
             WithPregenerated(f, work[f].of, work[f].settings)]
        /\ work' = [work EXCEPT ![f].step = "finish"]
        /\ work[f] # None /\ work[f].step = "records"
        /\ UNCHANGED <<config, source, files, masters, reconcile, requests, outlived, outdated, torn>>
    BY <1>1 DEF WriteRecords, Goes, history
  <2>2. work[f] \in Works /\ work[f].of \in Nat /\ work[f].settings \in Settings
    BY <2>1, TypesOfRows DEF Inv, Works
  <2>3. /\ work'[f] \in Works /\ work'[f].of = work[f].of /\ work'[f].settings = work[f].settings
        /\ \A g \in Files : g # f => work'[g] = work[g]
    BY <2>1, <2>2 DEF Inv, TypeOK, Works
  <2>4. TypeOK'
    <3>1. WithPregenerated(f, work[f].of, work[f].settings) \in [Keys -> Nat]
      BY <2>2, PregeneratedLeaves DEF Inv
    <3> QED BY <2>1, <2>3, <3>1 DEF Inv, TypeOK
  <2>5. WorkInv' /\ ReconcileInv'
    BY <2>1, <2>3 DEF Inv, WorkInv, ReconcileInv, Holds, Ready
  <2> QED BY <1>1, <2>1, <2>2, <2>4, <2>5, RecordsInv DEF Inv
<1>2. CASE ~Exists(f)
  BY <1>2, FailsInv DEF WriteRecords, history
<1> QED BY <1>1, <1>2

LEMMA MarkReadyInv ==
  ASSUME Inv, NEW f \in Files, MarkReady(f)
  PROVE  Inv'
<1> DEFINE data == Derived(work[f].of, work[f].settings)
           row == [status |-> "ready", data |-> data, settings |-> Omitted]
<1>1. /\ files' = [files EXCEPT ![f] = IF @.status = "none" THEN @ ELSE row] /\ work[f] # None
      /\ work' = [work EXCEPT ![f] = None] /\ work[f].step = "finish"
      /\ UNCHANGED <<config, source, masters, variants, reconcile, requests, outlived, outdated, torn>>
  BY DEF MarkReady, history
<1>2. /\ work[f] \in Works /\ files[f].status \in {"none", "pending"} /\ ~Ready(f)
      /\ data \in Contents /\ data.of = work[f].of
      /\ masters[f] # None => masters[f] = [of |-> work[f].of, fingerprint |-> work[f].settings]
  BY <1>1, TypesOfRows, DerivedIsContent DEF Inv, WorkInv, Works, Ready
<1>3. CASE files[f].status = "none"
  <2>1. files' = files
    BY <1>1, <1>3 DEF Inv, TypeOK
  <2>2. TypeOK' /\ WorkInv'
    BY <1>1, <2>1 DEF Inv, TypeOK, WorkInv
  <2> QED BY <1>1, <2>1, <2>2 DEF Inv, RowInv, ReconcileInv, MasterInv, RequestsInv,
                 VariantsInv, Holds, Ready, Exists
<1>4. CASE files[f].status = "pending"
  <2>1. /\ files'[f] = row /\ row \in Rows
        /\ \A g \in Files : g # f => files'[g] = files[g] /\ work'[g] = work[g]
        /\ work'[f] = None
    BY <1>1, <1>2, <1>4 DEF Inv, TypeOK, Rows, Settings
  <2>2. TypeOK'
    BY <1>1, <2>1 DEF Inv, TypeOK
  <2>3. WorkInv' /\ RowInv'
    BY <1>1, <2>1 DEF Inv, WorkInv, RowInv, Exists
  <2>4. ReconcileInv'
    <3>1. \A other : Holds(other) /\ other.file \in Files => Holds(other)'
      BY <1>1, <1>2, <2>1 DEF Holds, Ready
    <3>2. /\ \A other \in reconcile.todo : other.file \in Files
          /\ reconcile.row # None => reconcile.row.file \in Files
      BY DEF Inv, TypeOK, Starts, Derivations
    <3> QED BY <1>1, <3>1, <3>2 DEF Inv, ReconcileInv
  <2>5. MasterInv'
    BY <1>1, <1>2, <2>1 DEF Inv, MasterInv, Ready
  <2>6. RequestsInv'
    <3>1. \A r \in Requests : requests[r].step = "converting" => requests[r].file \in Files
      BY TypesOfRequests DEF Inv, Conversions
    <3> QED BY <1>1, <1>2, <2>1, <3>1 DEF Inv, RequestsInv, Ready
  <2>7. VariantsInv'
    <3>1. \A p \in Presets : <<f, p>> \notin outdated => variants[f][RequestKey(p)] = 0
      BY <1>2 DEF Inv, VariantsInv
    <3>2. \A g \in Files : g # f => (Ready(g)' <=> Ready(g)) /\ files'[g] = files[g]
      BY <2>1 DEF Ready
    <3> QED BY <1>1, <3>1, <3>2 DEF Inv, VariantsInv
  <2> QED BY <2>2, <2>3, <2>4, <2>5, <2>6, <2>7 DEF Inv
<1> QED BY <1>2, <1>3, <1>4

-----------------------------------------------------------------------------
(* The start of the stream.                                                *)
LEMMA ReconcileFileInv ==
  ASSUME Inv, ReconcileFile
  PROVE  Inv'
<1> DEFINE skipped(row) == IF row.master = None THEN TRUE
                           ELSE row.master.fingerprint = row.settings
<1>1. PICK row \in reconcile.todo :
        /\ reconcile' = [reconcile EXCEPT !.todo = @ \ {row},
                                          !.row = IF skipped(row) THEN None ELSE row]
        /\ variants' = IF skipped(row) THEN variants
                       ELSE [variants EXCEPT ![row.file] = NoVariants]
        /\ outdated' = IF skipped(row) THEN outdated ELSE outdated \ ({row.file} \X Presets)
  BY DEF ReconcileFile
<1>2. /\ reconcile.phase = "reconciling" /\ reconcile.row = None
      /\ reconcile.step = "encode"
      /\ UNCHANGED <<config, source, files, masters, work, requests, outlived, torn>>
  BY DEF ReconcileFile, Inv, ReconcileInv
<1>3. row \in Derivations /\ row.file \in Files /\ Holds(row)
  BY DEF Inv, TypeOK, Starts, Derivations, ReconcileInv
<1>4. /\ reconcile'.phase = "reconciling" /\ reconcile'.todo = reconcile.todo \ {row}
      /\ reconcile'.row \in {None, row} /\ reconcile'.step = "encode"
      /\ reconcile'.row # None => reconcile'.row = row /\ row.master # None
      /\ reconcile' \in Starts
  BY <1>1, <1>2, <1>3 DEF Inv, TypeOK, Starts
<1>5. /\ variants' \in [Files -> [Keys -> Nat]]
      /\ \A g \in Files : variants'[g] \in {variants[g], NoVariants}
      /\ \A g \in Files, p \in Presets :
           <<g, p>> \in outdated => <<g, p>> \in outdated' \/ variants'[g] = NoVariants
  BY <1>1, <1>3, NoneCached DEF Inv, TypeOK
<1>6. TypeOK'
  BY <1>2, <1>4, <1>5 DEF Inv, TypeOK
<1>7. WorkInv' /\ MasterInv' /\ RequestsInv'
  BY <1>2 DEF Inv, WorkInv, MasterInv, RequestsInv, Ready
<1>8. RowInv'
  BY <1>2, <1>5 DEF Inv, RowInv, Exists
<1>9. ReconcileInv'
  <2>1. \A other : Holds(other)' <=> Holds(other)
    BY <1>2 DEF Holds, Ready
  <2>2. \A other \in reconcile.todo : other.file = row.file => other = row
    BY DEF Inv, ReconcileInv
  <2> QED BY <1>3, <1>4, <2>1, <2>2 DEF Inv, ReconcileInv
<1>10. VariantsInv'
  BY <1>2, <1>5, NoneCached DEF Inv, VariantsInv, Ready
<1> QED BY <1>6, <1>7, <1>8, <1>9, <1>10 DEF Inv

(* The start derives a ready file that it has read.                         *)
LEMMA DerivedFile ==
  ASSUME Inv, NEW row, row = reconcile.row, row # None
  PROVE  /\ row \in Derivations /\ row.file \in Files /\ row.settings \in Settings
         /\ row.master \in Masters /\ row.master.of \in Nat
         /\ Ready(row.file) /\ Exists(row.file) /\ files[row.file] \in Rows
         /\ masters[row.file] = row.master /\ masters[row.file] # None
         /\ row.master.of = files[row.file].data.of
         /\ work[row.file] = None
         /\ Derived(row.master.of, row.settings) \in Contents
         /\ Derived(row.master.of, row.settings).of = row.master.of
<1>1. /\ row \in Derivations /\ row.file \in Files /\ row.settings \in Settings
      /\ row.master \in Masters /\ row.master.of \in Nat
      /\ Ready(row.file) /\ masters[row.file] = row.master /\ masters[row.file] # None
  BY DEF Inv, TypeOK, Starts, ReconcileInv, Derivations, Holds, Masters
<1>2. /\ Exists(row.file) /\ files[row.file] \in Rows
      /\ row.master.of = files[row.file].data.of
      /\ work[row.file] = None
  BY <1>1, TypesOfRows DEF Inv, MasterInv, WorkInv, Ready
<1> QED BY <1>1, <1>2, DerivedIsContent

(* A derivation that is written in part: the row stays ready and of the     *)
(* content that its master has.                                             *)
LEMMA PartlyWritten ==
  ASSUME Inv, NEW row, row = reconcile.row, row # None, row.file \in torn',
         torn' = torn \cup {row.file},
         NEW new \in Rows, new.status = "ready", new.data.of = row.master.of,
         files' = [files EXCEPT ![row.file] = new],
         UNCHANGED <<masters, variants, outdated>>
  PROVE  /\ files' \in [Files -> Rows \cup {NoFile}]
         /\ \A g \in Files : /\ Ready(g)' <=> Ready(g)
                             /\ Exists(g)' <=> Exists(g)
                             /\ Ready(g) => files'[g].data.of = files[g].data.of
         /\ RowInv' /\ MasterInv' /\ VariantsInv'
<1>1. /\ row.file \in Files /\ Ready(row.file) /\ Exists(row.file)
      /\ row.master.of = files[row.file].data.of
  BY DerivedFile
<1>2. /\ files' \in [Files -> Rows \cup {NoFile}] /\ files'[row.file] = new
      /\ \A g \in Files : g # row.file => files'[g] = files[g]
  BY <1>1 DEF Inv, TypeOK
<1>3. \A g \in Files : /\ Ready(g)' <=> Ready(g)
                       /\ Exists(g)' <=> Exists(g)
                       /\ Ready(g) => files'[g].data.of = files[g].data.of
  BY <1>1, <1>2 DEF Ready, Exists
<1>4. RowInv'
  BY <1>3 DEF Inv, RowInv
<1>5. MasterInv'
  BY <1>1, <1>2, <1>3 DEF Inv, MasterInv
<1>6. VariantsInv'
  BY <1>3 DEF Inv, VariantsInv
<1> QED BY <1>2, <1>3, <1>4, <1>5, <1>6

LEMMA RederiveOutputInv ==
  ASSUME Inv, RederiveOutput
  PROVE  Inv'
<1> DEFINE row == reconcile.row
           data == Derived(row.master.of, row.settings)
<1>1. /\ row # None /\ DataWritten(row.file, row.master.of, row.settings)
      /\ torn' = torn \cup {row.file} /\ reconcile' = [reconcile EXCEPT !.step = "records"]
      /\ UNCHANGED <<config, source, masters, variants, work, requests, outlived, outdated>>
  BY DEF RederiveOutput, Deriving
<1>2. /\ row.file \in Files /\ Ready(row.file) /\ Exists(row.file)
      /\ files[row.file] \in Rows /\ data \in Contents /\ data.of = row.master.of
  BY <1>1, DerivedFile
<1> DEFINE new == [files[row.file] EXCEPT !.data = data]
<1>3. /\ files' = [files EXCEPT ![row.file] = new]
      /\ new \in Rows /\ new.status = "ready" /\ new.data.of = row.master.of
  BY <1>1, <1>2 DEF DataWritten, Inv, TypeOK, Exists, Ready, Rows
<1>4. /\ files' \in [Files -> Rows \cup {NoFile}]
      /\ \A g \in Files : /\ Ready(g)' <=> Ready(g)
                          /\ Exists(g)' <=> Exists(g)
                          /\ Ready(g) => files'[g].data.of = files[g].data.of
      /\ RowInv' /\ MasterInv' /\ VariantsInv'
  <2> HIDE DEF new, data
  <2> QED BY <1>1, <1>3, PartlyWritten
<1>5. /\ reconcile' \in Starts /\ reconcile'.step = "records" /\ reconcile'.row = row
      /\ reconcile'.todo = reconcile.todo /\ reconcile'.phase = reconcile.phase
  BY <1>1 DEF Inv, TypeOK, Starts
<1>6. TypeOK'
  BY <1>1, <1>4, <1>5 DEF Inv, TypeOK
<1>7. WorkInv'
  <2>1. \A g \in Files : work[g] # None => g # row.file
    BY <1>1, DerivedFile
  <2> QED BY <1>1, <1>2, <1>3, <2>1 DEF Inv, TypeOK, WorkInv
<1>8. ReconcileInv'
  <2>1. \A other \in reconcile.todo : other.file \in Files
    BY DEF Inv, TypeOK, Starts, Derivations
  <2> QED BY <1>1, <1>2, <1>4, <1>5, <2>1 DEF Inv, ReconcileInv, Holds
<1>9. RequestsInv'
  <2>1. \A r \in Requests : requests[r].step = "converting" => requests[r].file \in Files
    BY TypesOfRequests DEF Inv, Conversions
  <2> QED BY <1>1, <1>4, <2>1 DEF Inv, RequestsInv
<1> QED BY <1>4, <1>6, <1>7, <1>8, <1>9 DEF Inv

LEMMA RederiveRecordsInv ==
  ASSUME Inv, RederiveRecords
  PROVE  Inv'
<1> DEFINE row == reconcile.row
<1>1. /\ row # None /\ reconcile.step = "records" /\ Exists(row.file)
      /\ variants' = [variants EXCEPT ![row.file] =
                        WithPregenerated(row.file, row.master.of, row.settings)]
      /\ reconcile' = [reconcile EXCEPT !.step = "row"]
      /\ UNCHANGED <<config, source, files, masters, work, requests, outlived, outdated, torn>>
  BY DEF RederiveRecords, Deriving, history
<1>2. row.file \in Files /\ row.settings \in Settings /\ row.master.of \in Nat
  BY <1>1, DerivedFile
<1>3. /\ reconcile' \in Starts /\ reconcile'.step = "row" /\ reconcile'.row = row
      /\ reconcile'.todo = reconcile.todo /\ reconcile'.phase = reconcile.phase
  BY <1>1 DEF Inv, TypeOK, Starts
<1>4. TypeOK'
  <2>1. WithPregenerated(row.file, row.master.of, row.settings) \in [Keys -> Nat]
    BY <1>2, PregeneratedLeaves DEF Inv
  <2> QED BY <1>1, <1>3, <2>1 DEF Inv, TypeOK
<1>5. WorkInv' /\ ReconcileInv'
  BY <1>1, <1>3 DEF Inv, WorkInv, ReconcileInv, Holds, Ready
<1> QED BY <1>1, <1>2, <1>4, <1>5, RecordsInv DEF Inv

(* The row that a derivation ends with.                                     *)
LEMMA RowIsReady ==
  ASSUME Inv, NEW row, row = reconcile.row, row # None, RowWritten(row)
  PROVE  \E new \in Rows :
           /\ files' = [files EXCEPT ![row.file] = new]
           /\ new.status = "ready" /\ new.data = Derived(row.master.of, row.settings)
<1> DEFINE data == Derived(row.master.of, row.settings)
           new == [files[row.file] EXCEPT !.data = data, !.settings = row.settings]
<1>1. /\ row.file \in Files /\ Ready(row.file) /\ Exists(row.file)
      /\ files[row.file] \in Rows /\ data \in Contents /\ row.settings \in Settings
  BY DerivedFile
<1>2. files' = [files EXCEPT ![row.file] = new]
  BY <1>1 DEF RowWritten, Inv, TypeOK, Exists
<1>3. new \in Rows /\ new.status = "ready" /\ new.data = data
  BY <1>1 DEF Rows, Ready
<1> HIDE DEF new, data
<1> QED BY <1>2, <1>3 DEF data

LEMMA RederiveInv ==
  ASSUME Inv, Rederive
  PROVE  Inv'
<1> DEFINE row == reconcile.row
           f == row.file
<1>1. /\ row # None /\ RowWritten(row)
      /\ masters' = [masters EXCEPT ![f] =
           IF @ = None THEN @ ELSE [@ EXCEPT !.fingerprint = row.settings]]
      /\ torn' = torn \ {f} /\ reconcile' = [reconcile EXCEPT !.row = None, !.step = "encode"]
      /\ UNCHANGED <<config, source, variants, work, requests, outlived, outdated>>
  BY DEF Rederive, Deriving
<1>2. /\ f \in Files /\ row.settings \in Settings /\ row.master \in Masters
      /\ Ready(f) /\ Exists(f) /\ masters[f] = row.master /\ masters[f] # None
      /\ work[f] = None /\ row.master.of = files[f].data.of
      /\ Derived(row.master.of, row.settings).of = row.master.of
  BY <1>1, DerivedFile
<1>3. PICK new \in Rows :
        /\ files' = [files EXCEPT ![f] = new]
        /\ new.status = "ready" /\ new.data = Derived(row.master.of, row.settings)
  BY <1>1, RowIsReady
<1>4. /\ files' \in [Files -> Rows \cup {NoFile}] /\ files'[f] = new
      /\ \A g \in Files : g # f => files'[g] = files[g]
  BY <1>2, <1>3 DEF Inv, TypeOK
<1>5. /\ masters'[f] \in Masters /\ masters'[f].of = row.master.of
      /\ masters'[f].fingerprint = row.settings
      /\ \A g \in Files : g # f => masters'[g] = masters[g]
      /\ masters' \in [Files -> Masters \cup {None}]
  <2>1. masters' = [masters EXCEPT ![f] = [@ EXCEPT !.fingerprint = row.settings]]
    BY <1>1, <1>2 DEF Inv, TypeOK
  <2> QED BY <1>2, <2>1 DEF Inv, TypeOK, Masters
<1>6. \A g \in Files : /\ Ready(g)' <=> Ready(g)
                       /\ Exists(g)' <=> Exists(g)
                       /\ Ready(g) => files'[g].data.of = files[g].data.of
  BY <1>2, <1>3, <1>4 DEF Ready, Exists
<1>7. /\ reconcile' \in Starts /\ reconcile'.step = "encode" /\ reconcile'.row = None
      /\ reconcile'.todo = reconcile.todo /\ reconcile'.phase = reconcile.phase
  BY <1>1 DEF Inv, TypeOK, Starts
<1>8. TypeOK'
  BY <1>1, <1>4, <1>5, <1>7 DEF Inv, TypeOK
<1>9. WorkInv'
  BY <1>1, <1>2, <1>4, <1>5 DEF Inv, WorkInv
<1>10. RowInv'
  BY <1>1, <1>2, <1>5, <1>6 DEF Inv, RowInv
<1>11. ReconcileInv'
  <2>1. \A other \in reconcile.todo : other.file \in Files /\ other.file # f
    BY <1>1 DEF Inv, TypeOK, Starts, ReconcileInv, Derivations
  <2> QED BY <1>5, <1>6, <1>7, <2>1 DEF Inv, ReconcileInv, Holds
<1>12. MasterInv'
  BY <1>1, <1>2, <1>3, <1>4, <1>5, <1>6 DEF Inv, MasterInv
<1>13. RequestsInv'
  <2>1. \A r \in Requests : requests[r].step = "converting" => requests[r].file \in Files
    BY TypesOfRequests DEF Inv, Conversions
  <2> QED BY <1>1, <1>6, <2>1 DEF Inv, RequestsInv
<1>14. VariantsInv'
  BY <1>1, <1>6 DEF Inv, VariantsInv
<1> QED BY <1>8, <1>9, <1>10, <1>11, <1>12, <1>13, <1>14 DEF Inv

LEMMA ReconcileEndsInv ==
  ASSUME Inv, ReconcileEnds
  PROVE  Inv'
<1>1. /\ reconcile' = Started
      /\ UNCHANGED <<config, source, files, masters, variants, work, requests, outlived, outdated, torn>>
  BY DEF ReconcileEnds, history
<1>2. TypeOK' /\ ReconcileInv'
  BY <1>1 DEF Inv, TypeOK, Starts, ReconcileInv, Started
<1> QED BY <1>1, <1>2 DEF Inv, WorkInv, RowInv, MasterInv, RequestsInv, VariantsInv, Ready, Exists

LEMMA ReconnectInv ==
  ASSUME Inv, Reconnect
  PROVE  Inv'
<1>1. /\ reconcile' = Reading(files, config)
      /\ UNCHANGED <<config, source, files, masters, variants, work, requests, outlived, outdated, torn>>
  BY DEF Reconnect, history
<1>2. TypeOK' /\ ReconcileInv'
  BY <1>1, ReadingHolds DEF Inv, TypeOK
<1> QED BY <1>1, <1>2 DEF Inv, WorkInv, RowInv, MasterInv, RequestsInv, VariantsInv, Ready, Exists

(* A start finds what the tables hold; the queue and the requests are gone. *)
LEMMA BootsInv ==
  ASSUME TypeOK, Boots(files'), files' \in [Files -> Rows \cup {NoFile}]
  PROVE  TypeOK' /\ WorkInv' /\ ReconcileInv' /\ RequestsInv'
<1>1. /\ config' \in Settings /\ work' = [f \in Files |-> None]
      /\ requests' = [r \in Requests |-> Idle] /\ reconcile' = Reading(files', config')
      /\ UNCHANGED <<source, masters, variants>>
  BY DEF Boots
<1>2. ReconcileInv' /\ reconcile' \in Starts
  BY <1>1, ReadingHolds
<1>3. TypeOK'
  BY <1>1, <1>2 DEF TypeOK
<1>4. WorkInv' /\ RequestsInv'
  BY <1>1 DEF WorkInv, RequestsInv, Idle
<1> QED BY <1>2, <1>3, <1>4

LEMMA RestartInv ==
  ASSUME Inv, Restart
  PROVE  Inv'
<1>1. UNCHANGED <<files, masters, variants, outdated, torn>>
  BY DEF Restart, Boots
<1>2. Boots(files')
  BY <1>1 DEF Restart
<1>3. TypeOK' /\ WorkInv' /\ ReconcileInv' /\ RequestsInv'
  BY <1>1, <1>2, BootsInv DEF Inv, TypeOK
<1> QED BY <1>1, <1>3 DEF Inv, RowInv, MasterInv, VariantsInv, Ready, Exists

LEMMA CrashInRederiveInv ==
  ASSUME Inv, CrashInRederive
  PROVE  Inv'
<1> DEFINE row == reconcile.row
<1>1. /\ row # None /\ reconcile.step = "row" /\ RowWritten(row) /\ Boots(files')
      /\ UNCHANGED <<source, masters, variants, outdated, torn>>
  BY DEF CrashInRederive, Deriving, Boots
<1>2. row.file \in torn /\ torn' = torn \cup {row.file}
  BY <1>1 DEF Inv, ReconcileInv
<1>3. PICK new \in Rows :
        /\ files' = [files EXCEPT ![row.file] = new]
        /\ new.status = "ready" /\ new.data = Derived(row.master.of, row.settings)
  BY <1>1, RowIsReady
<1>4. new.data.of = row.master.of
  BY <1>1, <1>3, DerivedFile
<1>5. row.file \in Files
  BY <1>1, DerivedFile
<1>6. files' \in [Files -> Rows \cup {NoFile}]
  BY <1>3, <1>5 DEF Inv, TypeOK
<1>7. RowInv' /\ MasterInv' /\ VariantsInv'
  BY <1>1, <1>2, <1>3, <1>4, PartlyWritten
<1>8. TypeOK' /\ WorkInv' /\ ReconcileInv' /\ RequestsInv'
  BY <1>1, <1>6, BootsInv DEF Inv
<1> QED BY <1>7, <1>8 DEF Inv

-----------------------------------------------------------------------------
(* The requests.                                                           *)
LEMMA AskInv ==
  ASSUME Inv, NEW r \in Requests, NEW f \in Files, NEW preset \in Presets, Ask(r, f, preset)
  PROVE  Inv'
<1> DEFINE asked == [step |-> "converting", file |-> f, preset |-> preset, of |-> SourceOf(f)]
<1>1. /\ requests' = [requests EXCEPT ![r] = asked] /\ Ready(f)
      /\ UNCHANGED <<config, source, files, masters, variants, work, reconcile, outlived, outdated, torn>>
  BY DEF Ask, history
<1>2. SourceOf(f) = files[f].data.of /\ SourceOf(f) \in Nat
  BY <1>1, TypesOfRows DEF Inv, MasterInv, SourceOf, Rows, Contents
<1>3. TypeOK'
  BY <1>1, <1>2 DEF Inv, TypeOK, Conversions
<1>4. RequestsInv'
  BY <1>1, <1>2 DEF Inv, TypeOK, RequestsInv, Ready
<1> QED BY <1>1, <1>3, <1>4 DEF Inv, WorkInv, RowInv, ReconcileInv, MasterInv, VariantsInv,
               Holds, Ready, Exists

LEMMA ConversionFailsInv ==
  ASSUME Inv, NEW r \in Requests, ConversionFails(r)
  PROVE  Inv'
<1>1. /\ requests' = [requests EXCEPT ![r] = Idle] /\ outlived' = outlived \ {r}
      /\ UNCHANGED <<config, source, files, masters, variants, work, reconcile, outdated, torn>>
  BY DEF ConversionFails
<1>2. TypeOK' /\ RequestsInv'
  BY <1>1 DEF Inv, TypeOK, RequestsInv, Ready, Idle
<1> QED BY <1>1, <1>2 DEF Inv, WorkInv, RowInv, ReconcileInv, MasterInv, VariantsInv,
               Holds, Ready, Exists

LEMMA ConvertedInv ==
  ASSUME Inv, NEW r \in Requests, Converted(r)
  PROVE  Inv'
<1> DEFINE f == requests[r].file
           key == RequestKey(requests[r].preset)
           of == requests[r].of
           preset == requests[r].preset
<1>1. /\ variants' = IF Insertable(f, key) THEN [variants EXCEPT ![f][key] = of] ELSE variants
      /\ requests' = [requests EXCEPT ![r] = Idle] /\ requests[r].step = "converting"
      /\ outdated' = IF Insertable(f, key) /\ r \in outlived
                     THEN outdated \cup {<<f, preset>>} ELSE outdated
      /\ outlived' = outlived \ {r}
      /\ UNCHANGED <<config, source, files, masters, work, reconcile, torn>>
  BY DEF Converted
<1>2. f \in Files /\ of \in Nat /\ requests[r].preset \in Presets /\ key \in Keys
  BY <1>1, TypesOfRequests, KeysApart DEF Inv, Conversions
<1>3. /\ variants' \in [Files -> [Keys -> Nat]]
      /\ \A g \in Files : ~Exists(g) => variants'[g] = variants[g]
      /\ \A g \in Files, k \in Keys :
           \/ variants'[g][k] = variants[g][k]
           \/ g = f /\ k = key /\ variants'[g][k] = of /\ Insertable(f, key)
  <2> HIDE DEF f, key, of
  <2>0. variants \in [Files -> [Keys -> Nat]]
    BY DEF Inv, TypeOK
  <2>1. CASE Insertable(f, key)
    <3>1. variants' = [variants EXCEPT ![f] = [variants[f] EXCEPT ![key] = of]]
      BY <1>1, <1>2, <2>0, <2>1
    <3>2. [variants[f] EXCEPT ![key] = of] \in [Keys -> Nat]
      BY <1>2, <2>0
    <3>3. /\ variants'[f] = [variants[f] EXCEPT ![key] = of]
          /\ \A g \in Files : g # f => variants'[g] = variants[g]
          /\ variants' \in [Files -> [Keys -> Nat]]
      BY <1>2, <2>0, <3>1, <3>2
    <3>4. \A k \in Keys : variants'[f][k] = IF k = key THEN of ELSE variants[f][k]
      BY <1>2, <2>0, <3>3
    <3> QED BY <2>1, <3>3, <3>4 DEF Insertable
  <2>2. CASE ~Insertable(f, key)
    BY <1>1, <2>0, <2>2
  <2> QED BY <2>1, <2>2
<1>4. TypeOK'
  BY <1>1, <1>3 DEF Inv, TypeOK
<1>5. RequestsInv'
  BY <1>1 DEF Inv, TypeOK, RequestsInv, Ready, Idle
<1>6. RowInv'
  BY <1>1, <1>3 DEF Inv, RowInv, Exists
<1>7. VariantsInv'
  <2>1. r \notin outlived => Ready(f) /\ of = files[f].data.of
    BY <1>1 DEF Inv, RequestsInv
  <2>2. ASSUME NEW g \in Files, NEW p \in Presets, <<g, p>> \notin outdated',
               variants'[g][RequestKey(p)] # 0
        PROVE  Ready(g) /\ variants'[g][RequestKey(p)] = files[g].data.of
    <3>1. RequestKey(p) \in Keys /\ <<g, p>> \notin outdated
      BY <1>1, <2>2, KeysApart
    <3>2. CASE variants'[g][RequestKey(p)] = variants[g][RequestKey(p)]
      BY <2>2, <3>1, <3>2 DEF Inv, VariantsInv
    <3>3. CASE g = f /\ RequestKey(p) = key /\ variants'[g][RequestKey(p)] = of /\ Insertable(f, key)
      <4>1. p = preset
        BY <1>2, <3>3 DEF RequestKey
      <4>2. r \notin outlived
        BY <1>1, <2>2, <3>3, <4>1
      <4> QED BY <2>1, <3>3, <4>2
    <3> HIDE DEF key, of, f, preset
    <3> QED BY <1>3, <3>1, <3>2, <3>3
  <2> QED BY <1>1, <2>2 DEF VariantsInv, Ready
<1> QED BY <1>1, <1>4, <1>5, <1>6, <1>7 DEF Inv, WorkInv, ReconcileInv, MasterInv, Holds, Ready

LEMMA EditSourceInv ==
  ASSUME Inv, NEW f \in Files, EditSource(f)
  PROVE  Inv'
<1>1. /\ source' = [source EXCEPT ![f] = @ + 1]
      /\ UNCHANGED <<config, files, masters, variants, work, reconcile, requests, outlived, outdated, torn>>
  BY DEF EditSource, history
<1>2. TypeOK'
  BY <1>1 DEF Inv, TypeOK
<1> QED BY <1>1, <1>2 DEF Inv, WorkInv, RowInv, ReconcileInv, MasterInv, RequestsInv,
               VariantsInv, Holds, Ready, Exists

-----------------------------------------------------------------------------
LEMMA NextInv == Inv /\ [Next]_vars => Inv'
<1> SUFFICES ASSUME Inv, [Next]_vars PROVE Inv'
  OBVIOUS
<1>1. ASSUME NEW f \in Files, EditSource(f) \/ Deliver(f) \/ Delete(f) PROVE Inv'
  BY <1>1, EditSourceInv, DeliverInv, DeleteInv
<1>2. ASSUME NEW f \in Files, Process(f) PROVE Inv'
  <2>1. CASE ProcessingFails(f)
    BY <2>1, FailsInv DEF ProcessingFails, history
  <2> QED BY <1>2, <2>1, DownloadInv, SourceLostInv, StoreMasterInv, WriteOutputInv,
             WriteRecordsInv, MarkReadyInv DEF Process
<1>3. ASSUME NEW r \in Requests, Request(r) PROVE Inv'
  BY <1>3, AskInv, ConvertedInv, ConversionFailsInv DEF Request
<1>4. CASE ReconcileFile \/ RederiveOutput \/ RederiveRecords \/ Rederive \/ ReconcileEnds
  BY <1>4, ReconcileFileInv, RederiveOutputInv, RederiveRecordsInv, RederiveInv, ReconcileEndsInv
<1>5. CASE Reconnect \/ Restart \/ CrashInRederive
  BY <1>5, ReconnectInv, RestartInv, CrashInRederiveInv
<1>6. CASE UNCHANGED vars
  BY <1>6 DEF vars, Inv, TypeOK, WorkInv, RowInv, ReconcileInv, MasterInv, RequestsInv,
              VariantsInv, Holds, Ready, Exists
<1> QED BY <1>1, <1>2, <1>3, <1>4, <1>5, <1>6 DEF Next

LEMMA Invariance == Spec => []Inv
BY InitInv, NextInv, PTL DEF Spec

(* The rows, what the queue, the start and the requests hold of them, stay  *)
(* what the code takes them for.                                           *)
THEOREM TypeCorrect == Spec => []TypeOK
<1>1. Inv => TypeOK
  BY DEF Inv
<1> QED BY <1>1, Invariance, PTL

(* A cached variant was made of the content that its file has now, or it    *)
(* was written by a request whose file was deleted while it waited for the  *)
(* encoder, into the row that has taken its place (writeCachedVariant), and *)
(* has not been cleared since.                                              *)
THEOREM VariantsCurrent == Spec => []CachedVariantsAreCurrent
<1>1. Inv => CachedVariantsAreCurrent
  BY DEF Inv, VariantsInv, CachedVariantsAreCurrent
<1> QED BY <1>1, Invariance, PTL

(* A ready file is what its master gives under the settings its fingerprint *)
(* stands for, so that a start may skip the file when they are equal        *)
(* (reconcileMediaMasters), unless a derivation of it was begun and has not *)
(* ended, wherever between its four writes it failed or was cut off         *)
(* (rederiveFileFromMediaMaster).                                           *)
THEOREM FingerprintsTrue == Spec => []FingerprintsAreTrue
<1>1. Inv => FingerprintsAreTrue
  BY DEF Inv, MasterInv, FingerprintsAreTrue
<1> QED BY <1>1, Invariance, PTL

(* Whatever happened while the encoder ran or the store was written, each   *)
(* write of a derivation is to the ready row and beside the master that it  *)
(* was started for.                                                         *)
THEOREM DerivationsMeet == Spec => DerivationsMeetTheirRow
<1> DEFINE Meets == RederiveOutput \/ RederiveRecords \/ Rederive =>
                      Ready(reconcile.row.file)
                      /\ masters[reconcile.row.file] = reconcile.row.master
<1>1. Inv /\ [Next]_vars => [Meets]_vars
  BY DEF Inv, ReconcileInv, Holds, RederiveOutput, RederiveRecords, Rederive, Deriving
<1>2. Spec => [][Meets]_vars
  BY <1>1, Invariance, PTL DEF Spec
<1> QED BY <1>2 DEF DerivationsMeetTheirRow
=============================================================================
