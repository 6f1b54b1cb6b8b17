---------------------------- MODULE LegacyImport ----------------------------
(***************************************************************************)
(* The import of a legacy database: the upload and its workflow, the job   *)
(* that scans the uploaded rows page by page behind a stored cursor, and   *)
(* the job that hydrates the artists found, with its retries.              *)
(*                                                                         *)
(* Rows are numbered in the order of their ID, and the artist of a row has *)
(* its number; only the first row can have an empty ID.  A scan may be     *)
(* requeued by a crash and repeated by a user, even while it runs, and     *)
(* always goes on at the cursor it finds.  What the hydration of one       *)
(* artist does to the library is in LibrarySync; here it succeeds or       *)
(* fails.                                                                  *)
(***************************************************************************)
EXTENDS Integers, FiniteSets

CONSTANTS
  Scans,         \* jobs of type import_legacy_database
  FirstScan,     \* the one of the import's own workflow
  Hydrations,    \* jobs of type hydrate_legacy_import
  FirstIsEmpty,  \* the first row has no ID
  MaxRows,       \* bound: rows
  PageSize,      \* rows of a page
  MaxImportErrors,   \* bound: errors
  MaxImportCrashes   \* bound: crashes

ASSUME LegacyImportAssumption ==
  /\ FirstScan \in Scans
  /\ FirstIsEmpty \in BOOLEAN
  /\ MaxRows \in Nat \ {0} /\ PageSize \in Nat \ {0}
  /\ MaxImportErrors \in Nat /\ MaxImportCrashes \in Nat

VARIABLES
  upload,    \* the uploaded file
  import,    \* legacy_imports: status, counters, cursor
  library,   \* artists in the library
  linked,    \* legacy_import_artists
  scanJob,   \* where each scan is and what it has read
  hydration, \* the hydration jobs: status, targets, counters
  results,   \* job_events: artists a job reported as failed_retryable
  hydrated,  \* history: artists some job has hydrated
  importErrors, importCrashes   \* history

importVars == <<upload, import, library, linked, scanJob, hydration, results, hydrated,
                importErrors, importCrashes>>

Rows == 1..MaxRows
EmptyRows == IF FirstIsEmpty THEN {1} ELSE {}
Artists == Rows \ EmptyRows

ImportStatuses == {"none", "pending", "running", "completed"}
Import == [status : ImportStatuses, imported : Nat, skipped : Nat, cursor : 0..MaxRows]

\* at: last_cursor; page: rows read and not yet imported; end: the last of them
ScanStages == {"absent", "queued", "reading", "starting", "paging", "artist", "link",
               "progress", "finishing", "completed", "failed"}
Scan == [stage : ScanStages, imported : Nat, skipped : Nat, at : 0..MaxRows, page : SUBSET Rows]

NoScan == [stage |-> "absent", imported |-> 0, skipped |-> 0, at |-> 0, page |-> {}]

\* todo: targets not yet reached; outcome: of the current one
\* cut: history, it ended before it had reached all targets
HydrationStatuses == {"absent", "queued", "running", "completed", "failed"}
Outcomes  == {"none", "hydrated", "failed"}
Hydration == [status : HydrationStatuses, targets : SUBSET Rows, todo : SUBSET Rows,
              current : 0..MaxRows, outcome : Outcomes, bad : Nat, cut : BOOLEAN]

NoHydration == [status |-> "absent", targets |-> {}, todo |-> {}, current |-> 0,
                outcome |-> "none", bad |-> 0, cut |-> FALSE]

ImportInit ==
  /\ upload = "none"
  /\ import = [status |-> "none", imported |-> 0, skipped |-> 0, cursor |-> 0]
  /\ library = {} /\ linked = {}
  /\ scanJob = [s \in Scans |-> NoScan]
  /\ hydration = [h \in Hydrations |-> NoHydration]
  /\ results = [h \in Hydrations |-> {}]
  /\ hydrated = {} /\ importErrors = 0 /\ importCrashes = 0

boundVars == <<importErrors, importCrashes>>
scanVars  == <<import, library, linked, scanJob>>
hydrationVars == <<hydration, results, hydrated>>

-----------------------------------------------------------------------------
(* The upload: POST /api/imports/legacy-database. *)

\* More than 64 MiB, or an error, and the file is removed again.
Upload == /\ upload = "none"
          /\ upload' \in {"stored", "refused"}
          /\ UNCHANGED <<scanVars, hydrationVars, boundVars>>

CreateImport == /\ upload = "stored" /\ import.status = "none"
                /\ import' = [import EXCEPT !.status = "pending"]
                /\ UNCHANGED <<upload, library, linked, scanJob, hydrationVars, boundVars>>

\* create_run executes the first node, which creates its job.
CreateRun == /\ import.status = "pending" /\ scanJob[FirstScan] = NoScan
             /\ scanJob' = [scanJob EXCEPT ![FirstScan].stage = "queued"]
             /\ UNCHANGED <<upload, import, library, linked, hydrationVars, boundVars>>

\* rerun_job and retry_job: a new job for the same import, whatever the old one does
RepeatScan(s) ==
  /\ scanJob[FirstScan] # NoScan /\ scanJob[s] = NoScan
  /\ scanJob' = [scanJob EXCEPT ![s].stage = "queued"]
  /\ UNCHANGED <<upload, import, library, linked, hydrationVars, boundVars>>

-----------------------------------------------------------------------------
(* The scan: LegacyDatabaseImportService.scan_import. *)

ScanAt(s, stage) == scanJob[s].stage = stage
ScanTo(s, stage) == scanJob' = [scanJob EXCEPT ![s].stage = stage]

scanRest == <<upload, hydrationVars, boundVars>>

StartScan(s) == /\ ScanAt(s, "queued") /\ ScanTo(s, "reading")
                /\ UNCHANGED <<scanRest, import, library, linked>>

ResumeAfresh(s) == [NoScan EXCEPT !.stage = "starting", !.imported = import.imported,
                                  !.skipped = import.skipped]
Resume(s) == [NoScan EXCEPT !.stage = "starting", !.at = import.cursor,
                            !.imported = import.imported, !.skipped = import.skipped]

ReadImport(s) == /\ ScanAt(s, "reading")
                 /\ scanJob' = [scanJob EXCEPT ![s] = Resume(s)]
                 /\ UNCHANGED <<scanRest, import, library, linked>>

\* update_progress writes all of its columns
Progress(s, status) == [status |-> status, imported |-> scanJob[s].imported,
                        skipped |-> scanJob[s].skipped, cursor |-> scanJob[s].at]

ReportProgress(s) == /\ ScanAt(s, "starting") \/ ScanAt(s, "progress")
                     /\ import' = Progress(s, "running")
                     /\ ScanTo(s, "paging")
                     /\ UNCHANGED <<scanRest, library, linked>>

PageAfterSkipping(row) == {r \in Rows : row + 1 < r /\ r <= row + PageSize}
PageAfter(row) == {r \in Rows : row < r /\ r <= row + PageSize}

ReadRows(s) ==
  /\ ScanAt(s, "paging")
  /\ LET page == PageAfter(scanJob[s].at) IN
       scanJob' = [scanJob EXCEPT ![s].page = page,
                                  ![s].stage = IF page = {} THEN "finishing" ELSE "artist"]
  /\ UNCHANGED <<scanRest, import, library, linked>>

NextRow(s) == CHOOSE r \in scanJob[s].page : \A q \in scanJob[s].page : r <= q

AfterRow(s) == IF scanJob[s].page = {NextRow(s)} THEN "progress" ELSE "artist"

\* legacy_row_to_artist
HasIdAlways(row) == TRUE
HasId(row) == row \notin EmptyRows

SkipRow(s) ==
  /\ ScanAt(s, "artist") /\ ~HasId(NextRow(s))
  /\ scanJob' = [scanJob EXCEPT ![s].stage = AfterRow(s), ![s].at = NextRow(s),
                                ![s].page = @ \ {NextRow(s)}, ![s].skipped = @ + 1]
  /\ UNCHANGED <<scanRest, import, library, linked>>

UpsertRow(s) ==
  /\ ScanAt(s, "artist") /\ HasId(NextRow(s))
  /\ library' = library \cup {NextRow(s)}
  /\ ScanTo(s, "link")
  /\ UNCHANGED <<scanRest, import, linked>>

LinkRow(s) ==
  /\ ScanAt(s, "link")
  /\ linked' = linked \cup {NextRow(s)}
  /\ scanJob' = [scanJob EXCEPT ![s].stage = AfterRow(s), ![s].at = NextRow(s),
                                ![s].page = @ \ {NextRow(s)}, ![s].imported = @ + 1]
  /\ UNCHANGED <<scanRest, import, library>>

FinishScan(s) == /\ ScanAt(s, "finishing")
                 /\ import' = Progress(s, "completed")
                 /\ ScanTo(s, "completed")
                 /\ UNCHANGED <<scanRest, library, linked>>

\* A database error or an unreadable file; the row of the import stays as it is.
FailScan(s) == /\ scanJob[s].stage \notin {"absent", "queued", "completed", "failed"}
               /\ importErrors < MaxImportErrors
               /\ importErrors' = importErrors + 1
               /\ ScanTo(s, "failed")
               /\ UNCHANGED <<upload, import, library, linked, hydrationVars, importCrashes>>

-----------------------------------------------------------------------------
(* The hydration: LegacyImportHydrationService.hydrate. *)

hydrationRest == <<upload, scanVars, boundVars>>

NewHydration(h, targets) ==
  /\ hydration[h] = NoHydration /\ targets # {}
  /\ hydration' = [hydration EXCEPT ![h].status = "queued", ![h].targets = targets]

\* The node behind the scan of the workflow lists the artists once (WorkflowRunner).
HydrateImport(h) ==
  /\ ScanAt(FirstScan, "completed")
  /\ \A g \in Hydrations : hydration[g] = NoHydration
  /\ NewHydration(h, linked)
  /\ UNCHANGED <<hydrationRest, results, hydrated>>

\* _legacy_hydration_retry_options
RetryTargets(h) == IF results[h] # {} THEN results[h] ELSE hydration[h].targets

RetryHydration(h, source) ==
  /\ hydration[source].status # "absent"
  /\ NewHydration(h, RetryTargets(source))
  /\ UNCHANGED <<hydrationRest, results, hydrated>>

\* from the first target, also after a crash
StartHydration(h) ==
  /\ hydration[h].status = "queued"
  /\ hydration' = [hydration EXCEPT ![h].status = "running", ![h].todo = hydration[h].targets]
  /\ UNCHANGED <<hydrationRest, results, hydrated>>

HydrateArtist(h) ==
  /\ hydration[h].status = "running"
  /\ hydration[h].outcome = "none" /\ hydration[h].todo # {}
  /\ LET a == CHOOSE t \in hydration[h].todo : \A u \in hydration[h].todo : t <= u IN
     \E outcome \in {"hydrated", "failed"} :
       /\ hydration' = [hydration EXCEPT ![h].todo = @ \ {a}, ![h].current = a,
                                         ![h].outcome = outcome]
       /\ hydrated' = IF outcome = "hydrated" THEN hydrated \cup {a} ELSE hydrated
  /\ UNCHANGED <<hydrationRest, results>>

\* The event names the artist; the counter of the job is a transaction before it.
FailuresLatest(h) == IF hydration[h].outcome = "failed" THEN {hydration[h].current} ELSE {}
Failures(h) == IF hydration[h].outcome = "failed" THEN results[h] \cup {hydration[h].current}
               ELSE results[h]

RecordResult(h) ==
  /\ hydration[h].status = "running" /\ hydration[h].outcome # "none"
  /\ results' = [results EXCEPT ![h] = Failures(h)]
  /\ hydration' = [hydration EXCEPT
       ![h].outcome = "none", ![h].current = 0,
       ![h].bad = @ + (IF hydration[h].outcome = "failed" THEN 1 ELSE 0)]
  /\ UNCHANGED <<hydrationRest, hydrated>>

\* LegacyImportHydrationRetryableError
FinishHydration(h) ==
  /\ hydration[h].status = "running"
  /\ hydration[h].todo = {} /\ hydration[h].outcome = "none"
  /\ hydration' = [hydration EXCEPT ![h].status = IF hydration[h].bad = 0 THEN "completed"
                                                  ELSE "failed"]
  /\ UNCHANGED <<hydrationRest, results, hydrated>>

\* The result cannot be recorded, or the job is cancelled after a crash.
CutHydration(h) ==
  /\ hydration[h].status = "running"
  /\ importErrors < MaxImportErrors
  /\ importErrors' = importErrors + 1
  /\ hydration' = [hydration EXCEPT ![h].status = "failed", ![h].cut = TRUE,
                                    ![h].todo = {}, ![h].current = 0, ![h].outcome = "none"]
  /\ UNCHANGED <<upload, scanVars, results, hydrated, importCrashes>>

-----------------------------------------------------------------------------
(* Crashes. *)

\* requeue_running: the counters of the job start again, the events stay.
CrashImport ==
  /\ importCrashes < MaxImportCrashes
  /\ importCrashes' = importCrashes + 1
  /\ scanJob' = [s \in Scans |->
       IF scanJob[s].stage \in {"absent", "completed", "failed"} THEN scanJob[s]
       ELSE [NoScan EXCEPT !.stage = "queued"]]
  /\ hydration' = [h \in Hydrations |->
       IF hydration[h].status = "running"
       THEN [NoHydration EXCEPT !.status = "queued", !.targets = hydration[h].targets]
       ELSE hydration[h]]
  /\ UNCHANGED <<upload, import, library, linked, results, hydrated, importErrors>>

ScanStep(s) ==
  \/ StartScan(s) \/ ReadImport(s) \/ ReportProgress(s) \/ ReadRows(s)
  \/ SkipRow(s) \/ UpsertRow(s) \/ LinkRow(s) \/ FinishScan(s)

HydrationStep(h) == StartHydration(h) \/ HydrateArtist(h) \/ RecordResult(h) \/ FinishHydration(h)

ImportNext ==
  \/ Upload \/ CreateImport \/ CreateRun
  \/ \E s \in Scans : RepeatScan(s) \/ ScanStep(s) \/ FailScan(s)
  \/ \E h \in Hydrations : HydrateImport(h) \/ HydrationStep(h) \/ CutHydration(h)
  \/ \E h, source \in Hydrations : RetryHydration(h, source)
  \/ CrashImport

ImportSpec == ImportInit /\ [][ImportNext]_importVars

-----------------------------------------------------------------------------
(* Properties. *)

ImportTypeOK ==
  /\ upload \in {"none", "stored", "refused"}
  /\ import \in Import
  /\ library \subseteq Artists /\ linked \subseteq Artists
  /\ scanJob \in [Scans -> Scan]
  /\ hydration \in [Hydrations -> Hydration]
  /\ results \in [Hydrations -> SUBSET Artists] /\ hydrated \subseteq Artists
  /\ importErrors \in 0..MaxImportErrors /\ importCrashes \in 0..MaxImportCrashes

\* No row is lost or counted twice: the rows up to the stored cursor are exactly
\* the ones counted, and their artists are in the library and linked to the
\* import, although scans are cut off inside a page and several write their
\* progress over each other's (scan_import and update_progress).
CursorCountsRows ==
  /\ import.imported = Cardinality((1..import.cursor) \ EmptyRows)
  /\ import.skipped = Cardinality((1..import.cursor) \cap EmptyRows)
  /\ (1..import.cursor) \ EmptyRows \subseteq linked \cap library

\* The first hydration job is given every artist of the file, after whatever
\* crashes and repetitions of the scan (LegacyImportHydrationNodeExecutor).
HydrationIsComplete ==
  (\E h \in Hydrations : hydration[h] # NoHydration)
    => \E h \in Hydrations : hydration[h].targets = Artists

\* A retry repeats every artist of a job that is not hydrated yet, unless the job
\* was cut short (_legacy_hydration_retry_options reads the events, which crashes
\* leave behind and repeat).
RetryCoversFailures ==
  \A h \in Hydrations :
    hydration[h].status \in {"completed", "failed"} /\ ~hydration[h].cut
      => hydration[h].targets \ hydrated \subseteq RetryTargets(h)
=============================================================================
