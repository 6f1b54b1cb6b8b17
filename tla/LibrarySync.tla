---------------------------- MODULE LibrarySync ----------------------------
(***************************************************************************)
(* Metadata synchronisation of one artist: LibrarySyncService reads the    *)
(* artist, asks Pixiv for him, lists his artworks from the newest back to  *)
(* the watermark of the last synchronisation, and commits the artist, his  *)
(* names, the artworks with their pages and the new watermark together.    *)
(* The hydration of a legacy import does the same work in transactions of  *)
(* its own and without a watermark.  Both run in several jobs at once, and *)
(* while the artist is deleted, imported, renamed, suspended or publishes. *)
(*                                                                         *)
(* Artworks are numbered by id; an artwork is stored when its row and all  *)
(* its pages are.  Pixiv lists one artwork a page, by its place from the   *)
(* newest.  A crash is the abort of all that run.                          *)
(***************************************************************************)
EXTENDS Integers, FiniteSets

CONSTANTS
  Syncs,       \* jobs that may run at once
  Names,       \* names at Pixiv
  LegacyName,  \* the name in the imported database
  IdAsName,    \* the id of the artist, used for a name nobody knows
  NoName,      \* the name of the artist who is not in the library
  MaxArtworks, \* bound: artworks he publishes
  MaxSyncs,    \* bound: jobs
  MaxEvents    \* bound: renamings, suspensions, deletions and imports

ASSUME LibrarySyncAssumption ==
  /\ Names # {} /\ {LegacyName, IdAsName, NoName} \cap Names = {}
  /\ NoName # LegacyName /\ NoName # IdAsName
  /\ MaxArtworks \in Nat \ {0} /\ MaxSyncs \in Nat /\ MaxEvents \in Nat

VARIABLES
  remote,    \* Pixiv: his name, whether he is available, his latest artwork
  artist,    \* artists: name, watermark, latest artwork seen, availability
  history,   \* artist_name_history
  stored,    \* artworks and artwork_files
  sync,      \* where each job is and what it has read
  revived,   \* history: a job that began before a deletion wrote him again
  syncs, events   \* history

syncVars == <<remote, artist, history, stored, sync, revived, syncs, events>>

Ids     == 0..MaxArtworks
Remote  == [name : Names, available : BOOLEAN, latest : Ids]
AllNames == Names \cup {LegacyName, IdAsName}
Artist  == [name : AllNames \cup {NoName}, mark : Ids, latest : Ids, available : BOOLEAN]
NoArtist == [name |-> NoName, mark |-> 0, latest |-> 0, available |-> TRUE]

SyncKinds == {"incremental", "full", "hydration"}

\* asks: an artist who is not available must be confirmed before he is added
\* stale: history, he was deleted since the job began
SyncIdle == [stage |-> "idle"]
SyncStages == {"fetching", "choosing", "listing", "committing",
               "recording old", "recording new", "upserting", "storing"}
Sync ==
  {SyncIdle} \cup
  [stage : SyncStages, kind : SyncKinds, asks : BOOLEAN, existing : Artist,
   name : Names, available : BOOLEAN, stop : Ids, listed : SUBSET Ids, offset : Ids,
   stale : BOOLEAN]

SyncInit ==
  /\ remote = [name |-> CHOOSE n \in Names : TRUE, available |-> TRUE, latest |-> 1]
  /\ artist = NoArtist /\ history = {} /\ stored = {}
  /\ sync = [s \in Syncs |-> SyncIdle]
  /\ revived = FALSE /\ syncs = 0 /\ events = 0

InLibrary == artist # NoArtist
Known(row) == row # NoArtist
At(s, stage) == sync[s].stage = stage
EndSync(s) == sync' = [sync EXCEPT ![s] = SyncIdle]
Proceed(s, stage) == sync' = [sync EXCEPT ![s].stage = stage]

rows == <<artist, history, stored, revived>>

-----------------------------------------------------------------------------
(* What the job asks Pixiv. *)

BeginSync(s, kind, asks) ==
  /\ At(s, "idle") /\ syncs < MaxSyncs
  /\ kind = "hydration" => ~asks
  /\ syncs' = syncs + 1
  /\ sync' = [sync EXCEPT ![s] =
       [stage |-> "fetching", kind |-> kind, asks |-> asks, existing |-> artist,
        name |-> remote.name, available |-> TRUE, stop |-> 0, listed |-> {}, offset |-> 0,
        stale |-> FALSE]]
  /\ UNCHANGED <<remote, rows, events>>

\* get_artist_by_user_id and confirm_unavailable_artist
AfterFetch(s) == IF sync[s].kind = "hydration" THEN "recording old"
                 ELSE IF remote.available THEN "choosing" ELSE "committing"

FetchArtist(s) ==
  /\ At(s, "fetching")
  /\ IF ~remote.available /\ ~Known(sync[s].existing) /\ sync[s].asks THEN EndSync(s)
     ELSE sync' = [sync EXCEPT ![s].stage = AfterFetch(s), ![s].name = remote.name,
                               ![s].available = remote.available]
  /\ UNCHANGED <<remote, rows, syncs, events>>

\* get_metadata_sync_watermark, unless everything is to be listed
BoundaryLatest(s) == IF sync[s].kind = "incremental" THEN artist.latest ELSE 0
Boundary(s) == IF sync[s].kind = "incremental" THEN artist.mark ELSE 0

ChooseBoundary(s) ==
  /\ At(s, "choosing")
  /\ sync' = [sync EXCEPT ![s].stage = "listing", ![s].stop = Boundary(s)]
  /\ UNCHANGED <<remote, rows, syncs, events>>

\* One page of get_artworks_by_user_id: an artwork published since the page
\* before has moved the others back by one.
ListPage(s) ==
  LET id == remote.latest - sync[s].offset
      done == IF sync[s].kind = "hydration" THEN "upserting" ELSE "committing"
  IN
  /\ At(s, "listing")
  /\ IF id <= sync[s].stop THEN Proceed(s, done)
     ELSE sync' = [sync EXCEPT ![s].listed = @ \cup {id}, ![s].offset = @ + 1]
  /\ UNCHANGED <<remote, rows, syncs, events>>

-----------------------------------------------------------------------------
(* What it writes. *)

Latest(ids) == CHOOSE i \in ids \cup {0} : \A k \in ids : k <= i

\* next_artist_text falls back on the row the job has read
NextName(s) == IF sync[s].available THEN sync[s].name
               ELSE IF Known(sync[s].existing) THEN sync[s].existing.name ELSE IdAsName

NextLatest(s) == IF sync[s].listed = {} THEN sync[s].existing.latest
                 ELSE Latest(sync[s].listed)

\* upsert keeps the watermark of the row, 0 for a new one
Upserted(s) == [name |-> NextName(s), mark |-> artist.mark, latest |-> NextLatest(s),
                available |-> sync[s].available]

\* advance_metadata_sync_watermark
Advanced(mark, ids) == IF Latest(ids) > mark THEN Latest(ids) ELSE mark

\* record_name_change
OldNames(s) == IF Known(sync[s].existing) THEN {sync[s].existing.name} ELSE {}
NewNames(s) == IF sync[s].available THEN {sync[s].name} ELSE {}

\* the snapshot, in one transaction
Commit(s) ==
  /\ At(s, "committing")
  /\ artist' = [Upserted(s) EXCEPT !.mark = Advanced(@, sync[s].listed)]
  /\ history' = history \cup OldNames(s) \cup NewNames(s)
  /\ stored' = stored \cup sync[s].listed
  /\ revived' = (revived \/ sync[s].stale)
  /\ EndSync(s)
  /\ UNCHANGED <<remote, syncs, events>>

\* The hydration records the names first, each in a transaction: without a row
\* of the artist the foreign key makes it fail.
RecordOld(s) ==
  /\ At(s, "recording old")
  /\ IF OldNames(s) # {} /\ ~InLibrary THEN EndSync(s) /\ UNCHANGED history
     ELSE history' = history \cup OldNames(s) /\ Proceed(s, "recording new")
  /\ UNCHANGED <<remote, artist, stored, revived, syncs, events>>

RecordNew(s) ==
  /\ At(s, "recording new")
  /\ IF NewNames(s) # {} /\ ~InLibrary THEN EndSync(s) /\ UNCHANGED history
     ELSE /\ history' = history \cup NewNames(s)
          /\ Proceed(s, IF sync[s].available THEN "choosing" ELSE "upserting")
  /\ UNCHANGED <<remote, artist, stored, revived, syncs, events>>

UpsertArtist(s) ==
  /\ At(s, "upserting")
  /\ artist' = Upserted(s)
  /\ revived' = (revived \/ sync[s].stale)
  /\ Proceed(s, "storing")
  /\ UNCHANGED <<remote, history, stored, syncs, events>>

\* an artwork needs its artist
StoreArtwork(s) ==
  /\ At(s, "storing")
  /\ IF sync[s].listed = {} \/ ~InLibrary THEN EndSync(s) /\ UNCHANGED stored
     ELSE LET id == Latest(sync[s].listed) IN
          /\ stored' = stored \cup {id}
          /\ sync' = [sync EXCEPT ![s].listed = @ \ {id}]
  /\ UNCHANGED <<remote, artist, history, revived, syncs, events>>

\* cancelled, failed, or killed by a crash
AbortSync(s) == /\ sync[s] # SyncIdle
                /\ EndSync(s)
                /\ UNCHANGED <<remote, rows, syncs, events>>

-----------------------------------------------------------------------------
(* What happens meanwhile. *)

Happens == events < MaxEvents /\ events' = events + 1

Publish == /\ remote.latest < MaxArtworks
           /\ remote' = [remote EXCEPT !.latest = @ + 1]
           /\ UNCHANGED <<rows, sync, syncs, events>>

Rename == /\ Happens
          /\ \E n \in Names \ {remote.name} : remote' = [remote EXCEPT !.name = n]
          /\ UNCHANGED <<rows, sync, syncs>>

Suspend == /\ Happens
           /\ remote' = [remote EXCEPT !.available = ~@]
           /\ UNCHANGED <<rows, sync, syncs>>

\* ArtistRepository.delete, whose route does not look for jobs that run
DeleteArtist ==
  /\ InLibrary /\ Happens
  /\ artist' = NoArtist /\ history' = {} /\ stored' = {}
  /\ revived' = FALSE
  /\ sync' = [s \in Syncs |-> IF sync[s] = SyncIdle THEN SyncIdle
                              ELSE [sync[s] EXCEPT !.stale = TRUE]]
  /\ UNCHANGED <<remote, syncs>>

\* The scan of a legacy import upserts its row over whatever is there.
ImportArtist ==
  /\ Happens
  /\ artist' = [NoArtist EXCEPT !.name = LegacyName, !.mark = artist.mark]
  /\ UNCHANGED <<remote, history, stored, sync, revived, syncs>>

SyncStep(s) ==
  \/ FetchArtist(s) \/ ChooseBoundary(s) \/ ListPage(s) \/ Commit(s)
  \/ RecordOld(s) \/ RecordNew(s) \/ UpsertArtist(s) \/ StoreArtwork(s)
  \/ AbortSync(s)

SyncNext ==
  \/ \E s \in Syncs :
       SyncStep(s) \/ \E kind \in SyncKinds, asks \in BOOLEAN : BeginSync(s, kind, asks)
  \/ Publish \/ Rename \/ Suspend \/ DeleteArtist \/ ImportArtist

SyncSpec == SyncInit /\ [][SyncNext]_syncVars

-----------------------------------------------------------------------------
(* Properties. *)

SyncTypeOK ==
  /\ remote \in Remote /\ artist \in Artist
  /\ history \subseteq AllNames /\ stored \subseteq 1..MaxArtworks
  /\ sync \in [Syncs -> Sync]
  /\ revived \in BOOLEAN
  /\ syncs \in 0..MaxSyncs /\ events \in 0..MaxEvents

\* No artwork is hidden behind the watermark: what is not newer than it is
\* stored with its pages, or incremental synchronisations would never fetch it.
\* Several jobs may have read the watermark before others advance it; only a job
\* that outlives the deletion of the artist escapes this (LibrarySyncService).
WatermarkCovers == ~revived => 1..artist.mark \subseteq stored
=============================================================================
