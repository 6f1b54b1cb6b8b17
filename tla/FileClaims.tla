----------------------------- MODULE FileClaims -----------------------------
(***************************************************************************)
(* The pages of one artist and the claims that make concurrent download    *)
(* jobs safe: ArtworkFileRepository.claim_download and update_claim, the   *)
(* page loops of DownloadService and CandidateDownloadService that use     *)
(* them, the artist's download cursor, the legacy import that writes       *)
(* without a claim, and the recovery of abandoned claims.                  *)
(*                                                                         *)
(* The library itself is fixed: no page is added while the jobs run.  The  *)
(* rows and the cursor survive a crash, the workers do not.                *)
(***************************************************************************)
EXTENDS Integers, FiniteSets

CONSTANTS
  Pages,         \* rows of artwork_files
  ArtworkOf,     \* [Pages -> Artworks]
  MaxArtworks,   \* bound: artworks of the artist, numbered by their id
  Workers,       \* download jobs that run at the same time
  LegacyLatest,  \* latest download id of the imported database, 0 if none
  MaxStarts,     \* bound: jobs started
  MaxFaults,     \* bound: database errors
  MaxCrashes,    \* bound: crashes
  NoPage,        \* not a page
  Nobody         \* not a worker

Artworks == 1..MaxArtworks

ASSUME FileClaimsAssumption ==
  /\ MaxArtworks \in Nat
  /\ ArtworkOf \in [Pages -> Artworks]
  /\ LegacyLatest \in 0..MaxArtworks
  /\ MaxStarts \in Nat
  /\ MaxFaults \in Nat
  /\ MaxCrashes \in Nat
  /\ NoPage \notin Pages
  /\ Nobody \notin Workers

VARIABLES
  status,    \* artwork_files.status
  claims,    \* artwork_file_download_claims
  cursor,    \* artists.latest_downloaded_artwork_id
  imported,  \* history: the legacy import has written the artist
  up,        \* the process runs
  at,        \* where each worker is in its page loop
  work,      \* the job of each worker: its mode and the cursor it has read
  todo,      \* pages the worker has selected and not yet taken
  page,      \* the page it waits for or holds, NoPage if none
  seen,      \* claim.file.status, the status it claimed the page with
  quitting,  \* an exception is leaving the worker's loop
  starts, faults, crashes   \* history

rowVars  == <<status, claims, cursor, imported>>
ctlVars  == <<up, starts, faults, crashes>>
jobVars  == <<work, todo>>
heldVars == <<page, seen, quitting>>
vars == <<rowVars, ctlVars, at, jobVars, heldVars>>

Statuses == {"remote_only", "pending", "downloading", "downloaded", "skipped", "failed"}
Complete == {"downloaded", "skipped"}

\* which pages a job wants: retry_failed, pending_only, new_since_last_download,
\* the cursor, or every page (full_download, force_rescan, all candidates)
Modes == {"failed", "pending", "new", "known", "all"}

Wanted(mode, s) ==
  CASE mode = "failed"  -> s = "failed"
    [] mode = "pending" -> s \in {"pending", "remote_only"}
    [] mode = "new"     -> s \notin Complete
    [] OTHER            -> TRUE

Places == {"idle", "selecting", "choosing", "waiting", "deciding", "fetching",
           "advancing", "releasing"}

\* the worker is inside its with claim_download block
Holding(w) == at[w] \in {"deciding", "fetching", "advancing", "releasing"}

NoClaim == [owner |-> Nobody, previous |-> "failed"]

AtRest == /\ at = [w \in Workers |-> "idle"]
          /\ work = [w \in Workers |-> [mode |-> "all", cursor |-> 0]]
          /\ todo = [w \in Workers |-> {}]
          /\ page = [w \in Workers |-> NoPage]
          /\ seen = [w \in Workers |-> "failed"]
          /\ quitting = [w \in Workers |-> FALSE]

\* A page may have been left downloading by a version without claims.
Init == /\ status \in [Pages -> {"remote_only", "downloaded", "failed", "downloading"}]
        /\ claims = [p \in Pages |-> NoClaim]
        /\ cursor = 0
        /\ imported = FALSE
        /\ up = TRUE
        /\ AtRest
        /\ starts = 0 /\ faults = 0 /\ crashes = 0

-----------------------------------------------------------------------------
(* The statements. *)

\* the status a release or a recovery puts back
Restored(s) == IF s = "downloading" THEN "failed" ELSE s

\* update_claim: a page that was downloaded keeps that status when an
\* overwrite fails or is skipped
ResultUnguarded(before, result) == result
Result(before, result) ==
  IF before = "downloaded" /\ result \in {"failed", "skipped"}
  THEN "downloaded" ELSE result

\* _update_claim: the row is written only while the page is still downloading
\* and the claim is still the worker's
UpdateClaimAlways(w, s) == status' = [status EXCEPT ![page[w]] = s]
UpdateClaim(w, s) ==
  LET p == page[w]
  IN status' = IF status[p] = "downloading" /\ claims[p].owner = w
               THEN [status EXCEPT ![p] = s] ELSE status

\* advance_download_cursor: up to the last artwork below which every artwork
\* above the cursor has pages and only complete ones
PagesOf(a) == {p \in Pages : ArtworkOf[p] = a}

ArtworkNotFailed(a) == \A p \in PagesOf(a) : status[p] # "failed"
ArtworkDone(a) == /\ PagesOf(a) # {}
                  /\ \A p \in PagesOf(a) : status[p] \in Complete

AdvanceCursor ==
  \E c \in cursor..MaxArtworks :
    /\ \A a \in Artworks : cursor < a /\ a <= c => ArtworkDone(a)
    /\ c = MaxArtworks \/ ~ArtworkDone(c + 1)
    /\ cursor' = c

Goto(w, place) == at' = [at EXCEPT ![w] = place]

-----------------------------------------------------------------------------
(* A download job. *)

\* The service fetches the artist, with the cursor.
StartJob(w, mode) ==
  /\ up /\ at[w] = "idle" /\ starts < MaxStarts
  /\ starts' = starts + 1
  /\ work' = [work EXCEPT ![w] =
                 [mode |-> mode, cursor |-> IF mode = "known" THEN cursor ELSE 0]]
  /\ Goto(w, "selecting")
  /\ UNCHANGED <<rowVars, up, faults, crashes, todo, heldVars>>

\* It lists the pages; their statuses may change before they are claimed.
Select(w) ==
  /\ at[w] = "selecting"
  /\ todo' = [todo EXCEPT ![w] = {p \in Pages : Wanted(work[w].mode, status[p])}]
  /\ Goto(w, "choosing")
  /\ UNCHANGED <<rowVars, ctlVars, work, heldVars>>

Choose(w, p) ==
  /\ at[w] = "choosing" /\ p \in todo[w]
  /\ page' = [page EXCEPT ![w] = p]
  /\ todo' = [todo EXCEPT ![w] = @ \ {p}]
  /\ Goto(w, "waiting")
  /\ UNCHANGED <<rowVars, ctlVars, work, seen, quitting>>

\* INSERT ... ON CONFLICT DO NOTHING under the write lock
FreeAlways(p) == p \in Pages
Free(p) == claims[p] = NoClaim

Acquire(w) ==
  /\ at[w] = "waiting"
  /\ LET p == page[w]
     IN /\ Free(p)
        /\ seen' = [seen EXCEPT ![w] = status[p]]
        /\ claims' = [claims EXCEPT ![p] =
                        [owner |-> w, previous |-> Restored(status[p])]]
        /\ status' = [status EXCEPT ![p] = "downloading"]
  /\ Goto(w, "deciding")
  /\ UNCHANGED <<cursor, imported, ctlVars, jobVars, page, quitting>>

\* the default download does not go below the cursor it has read
Known(w) == work[w].mode = "known" /\ ArtworkOf[page[w]] <= work[w].cursor

\* The page is no longer wanted, or its artwork's tags only ask for retries.
LeaveAsIs(w) ==
  /\ at[w] = "deciding"
  /\ ~Wanted(work[w].mode, seen[w]) \/ seen[w] # "failed"
  /\ Goto(w, "releasing")
  /\ UNCHANGED <<rowVars, ctlVars, jobVars, heldVars>>

\* The page is skipped for its tags, or because the cursor is past it; only the
\* tag rule of DownloadService goes on to advance the cursor.
MarkSkipped(w) ==
  /\ at[w] = "deciding"
  /\ Wanted(work[w].mode, seen[w])
  /\ UpdateClaim(w, Result(seen[w], "skipped"))
  /\ \/ Goto(w, "releasing")
     \/ Goto(w, "advancing")
  /\ UNCHANGED <<claims, cursor, imported, ctlVars, jobVars, heldVars>>

Fetch(w) ==
  /\ at[w] = "deciding"
  /\ Wanted(work[w].mode, seen[w]) /\ ~Known(w)
  /\ Goto(w, "fetching")
  /\ UNCHANGED <<rowVars, ctlVars, jobVars, heldVars>>

\* The downloader has replaced the file, found it complete already (never when
\* the last attempt did not end), or raised.
Fetched(w) ==
  /\ at[w] = "fetching"
  /\ \/ /\ UpdateClaim(w, "downloaded")
        /\ Goto(w, "advancing")
     \/ /\ seen[w] \notin {"failed", "downloading"}
        /\ UpdateClaim(w, Result(seen[w], "skipped"))
        /\ Goto(w, "advancing")
     \/ /\ UpdateClaim(w, Result(seen[w], "failed"))
        /\ Goto(w, "releasing")
  /\ UNCHANGED <<claims, cursor, imported, ctlVars, jobVars, heldVars>>

Advance(w) ==
  /\ at[w] = "advancing"
  /\ AdvanceCursor
  /\ Goto(w, "releasing")
  /\ UNCHANGED <<status, claims, imported, ctlVars, jobVars, heldVars>>

\* the claims after DELETE ... WHERE owner is the worker
ReleasedUnlessRaised(w) ==
  IF quitting[w] THEN claims ELSE [claims EXCEPT ![page[w]] = NoClaim]
Released(w) ==
  [claims EXCEPT ![page[w]] = IF @.owner = w THEN NoClaim ELSE @]

\* The finally block of claim_download: restore, then delete the own claim.
Release(w) ==
  /\ at[w] = "releasing"
  /\ UpdateClaim(w, Restored(seen[w]))
  /\ claims' = Released(w)
  /\ Goto(w, IF quitting[w] THEN "idle" ELSE "choosing")
  /\ page' = [page EXCEPT ![w] = NoPage]
  /\ seen' = [seen EXCEPT ![w] = "failed"]
  /\ quitting' = [quitting EXCEPT ![w] = FALSE]
  /\ todo' = IF quitting[w] THEN [todo EXCEPT ![w] = {}] ELSE todo
  /\ UNCHANGED <<cursor, imported, ctlVars, work>>

\* The loop is over: the cursor is advanced once more.
Finish(w) ==
  /\ at[w] = "choosing" /\ todo[w] = {}
  /\ AdvanceCursor
  /\ Goto(w, "idle")
  /\ UNCHANGED <<status, claims, imported, ctlVars, jobVars, heldVars>>

\* The exception leaves the loop: through the finally block if a page is held.
Leave(w) ==
  /\ IF Holding(w)
     THEN /\ Goto(w, "releasing")
          /\ quitting' = [quitting EXCEPT ![w] = TRUE]
          /\ UNCHANGED <<page, todo>>
     ELSE /\ Goto(w, "idle")
          /\ page' = [page EXCEPT ![w] = NoPage]
          /\ todo' = [todo EXCEPT ![w] = {}]
          /\ UNCHANGED quitting
  /\ UNCHANGED <<rowVars, work, seen>>

\* A cancellation check answers yes.
Cancelled(w) ==
  /\ at[w] \in {"selecting", "choosing", "waiting", "deciding", "fetching"}
  /\ Leave(w)
  /\ UNCHANGED ctlVars

\* A database error.  In the finally block it leaves the claim behind.
Fault(w) ==
  /\ at[w] # "idle" /\ faults < MaxFaults
  /\ faults' = faults + 1
  /\ IF at[w] = "releasing"
     THEN /\ Goto(w, "idle")
          /\ page' = [page EXCEPT ![w] = NoPage]
          /\ seen' = [seen EXCEPT ![w] = "failed"]
          /\ quitting' = [quitting EXCEPT ![w] = FALSE]
          /\ todo' = [todo EXCEPT ![w] = {}]
          /\ UNCHANGED <<rowVars, work>>
     ELSE Leave(w)
  /\ UNCHANGED <<up, starts, crashes>>

-----------------------------------------------------------------------------
(* The legacy import, which holds no claim. *)

\* hydrate_artist writes the artist with the imported cursor first ...
ImportArtist ==
  /\ up /\ ~imported /\ LegacyLatest > 0
  /\ imported' = TRUE
  /\ cursor' = IF cursor < LegacyLatest THEN LegacyLatest ELSE cursor
  /\ UNCHANGED <<status, claims, ctlVars, at, jobVars, heldVars>>

\* ... and then marks the pages of the artworks below it.
ImportPage(p) ==
  /\ up /\ imported
  /\ ArtworkOf[p] <= LegacyLatest
  /\ status' = [status EXCEPT ![p] = "downloaded"]
  /\ UNCHANGED <<claims, cursor, imported, ctlVars, at, jobVars, heldVars>>

-----------------------------------------------------------------------------
(* The process. *)

Crash ==
  /\ up /\ crashes < MaxCrashes
  /\ crashes' = crashes + 1
  /\ up' = FALSE
  /\ at' = [w \in Workers |-> "idle"]
  /\ work' = [w \in Workers |-> [mode |-> "all", cursor |-> 0]]
  /\ todo' = [w \in Workers |-> {}]
  /\ page' = [w \in Workers |-> NoPage]
  /\ seen' = [w \in Workers |-> "failed"]
  /\ quitting' = [w \in Workers |-> FALSE]
  /\ UNCHANGED <<rowVars, starts, faults>>

\* what recover_startup leaves in a row
Recovered(p) == IF status[p] = "downloading" /\ claims[p] # NoClaim
                THEN claims[p].previous ELSE status[p]

\* recover_startup, in one transaction before the workers start
Boot ==
  /\ ~up
  /\ up' = TRUE
  /\ status' = [p \in Pages |-> Recovered(p)]
  /\ claims' = [p \in Pages |-> NoClaim]
  /\ UNCHANGED <<cursor, imported, starts, faults, crashes, at, jobVars, heldVars>>

-----------------------------------------------------------------------------
Step(w) == \/ Select(w) \/ (\E p \in Pages : Choose(w, p)) \/ Acquire(w)
           \/ LeaveAsIs(w) \/ MarkSkipped(w) \/ Fetch(w) \/ Fetched(w)
           \/ Advance(w) \/ Release(w) \/ Finish(w)

Next ==
  \/ \E w \in Workers, mode \in Modes : StartJob(w, mode)
  \/ \E w \in Workers : Step(w) \/ Cancelled(w) \/ Fault(w)
  \/ ImportArtist
  \/ \E p \in Pages : ImportPage(p)
  \/ Crash \/ Boot

\* A thread that can go on does, and the service is started again.
Fairness == /\ \A w \in Workers : WF_vars(Step(w))
            /\ WF_vars(Boot)

Spec == Init /\ [][Next]_vars
FairSpec == Spec /\ Fairness

-----------------------------------------------------------------------------
(* Properties. *)

TypeOK ==
  /\ status \in [Pages -> Statuses]
  /\ claims \in [Pages -> [owner : Workers \cup {Nobody},
                           previous : Statuses \ {"downloading"}]]
  /\ cursor \in 0..MaxArtworks
  /\ imported \in BOOLEAN /\ up \in BOOLEAN
  /\ at \in [Workers -> Places]
  /\ work \in [Workers -> [mode : Modes, cursor : 0..MaxArtworks]]
  /\ todo \in [Workers -> SUBSET Pages]
  /\ page \in [Workers -> Pages \cup {NoPage}]
  /\ seen \in [Workers -> Statuses]
  /\ quitting \in [Workers -> BOOLEAN]
  /\ starts \in 0..MaxStarts /\ faults \in 0..MaxFaults /\ crashes \in 0..MaxCrashes

\* Two workers never download the same page at the same time: the replacement of
\* the file and the record of its result are never interleaved with another's.
ExclusiveDownload ==
  \A v, w \in Workers : v # w /\ Holding(v) /\ Holding(w) => page[v] # page[w]

\* The result a page really has: while a claim covers it, the one to put back.
LedgerOf(p) ==
  IF status[p] # "downloading" THEN status[p]
  ELSE IF claims[p] = NoClaim THEN "interrupted" ELSE claims[p].previous

Ledger == INSTANCE PageLedger WITH
  ledger <- [p \in Pages |-> LedgerOf(p)],
  holder <- [p \in Pages |-> claims[p].owner]

\* Claims, conditional updates and recovery implement a ledger in which one
\* worker at a time records a page: no cancellation, error, crash or import
\* loses a downloaded page or leaves a page without the result it had.
ImplementsLedger == Ledger!Spec

\* The download cursor leaves no gap: every page of an artwork it has passed on
\* its own has been decided, whoever was holding pages when it was advanced.
CursorLeavesNoGap ==
  \A p \in Pages : LegacyLatest < ArtworkOf[p] /\ ArtworkOf[p] <= cursor =>
    LedgerOf(p) \in {"downloaded", "skipped", "failed"}

\* A page is not left downloading without a claim that says how to undo it.
DownloadingIsCovered ==
  [][\A p \in Pages : status'[p] = "downloading" /\ claims'[p] = NoClaim =>
       status[p] = "downloading" /\ claims[p] = NoClaim]_vars

\* One database error leaves one page at most claimed by a worker that has gone on:
\* every other way out of claim_download gives it back, cancellations included.
Abandoned == {p \in Pages : /\ claims[p] # NoClaim
                            /\ ~(Holding(claims[p].owner) /\ page[claims[p].owner] = p)}

AbandonedByErrors == up => Cardinality(Abandoned) <= faults

\* Every claim is given back, by its worker or by the next start: no page is
\* refused to the other jobs for ever.
ClaimsAreReturned ==
  \A p \in Pages : (claims[p] # NoClaim) ~> (claims[p] = NoClaim)
=============================================================================
