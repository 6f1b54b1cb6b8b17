--------------------------- MODULE LibraryProofs ---------------------------
(* Theorems about LibrarySync and LegacyImport, for every value of their *)
(* constants.                                                            *)
EXTENDS LibrarySync, LegacyImport, BoundedSets

-----------------------------------------------------------------------------
(* LibrarySync: types *)

\* Latest is the largest number of a set, and 0 for the empty one.
LEMMA LatestIs ==
  ASSUME NEW ids \in SUBSET Ids
  PROVE  /\ Latest(ids) \in (ids \cup {0}) \cap Ids
         /\ \A k \in ids : k <= Latest(ids)
<1>1. MaxArtworks \in Nat /\ 0 \in Ids
  BY LibrarySyncAssumption DEF Ids
<1>2. PICK i \in ids \cup {0} : \A k \in ids \cup {0} : k <= i
  <2>1. ids \cup {0} \in SUBSET (0..MaxArtworks)
    BY <1>1 DEF Ids
  <2> QED BY <1>1, <2>1, HasLatest
<1>3. /\ Latest(ids) \in ids \cup {0}
      /\ \A k \in ids : k <= Latest(ids)
  BY <1>2 DEF Latest
<1> QED BY <1>1, <1>3

\* Whoever is in the library has a name.
NamedRow(row) == row # NoArtist => row.name \in AllNames

\* The record of a job that runs.
RunningSync ==
  [stage : SyncStages, kind : SyncKinds, asks : BOOLEAN, existing : Artist, name : Names,
   available : BOOLEAN, stop : Ids, listed : SUBSET Ids, offset : Ids, stale : BOOLEAN]

Unlisted == {"fetching", "choosing", "recording old", "recording new"}

\* Of the artworks above a place, none is missing below one that is listed.
Gapless(ids, place) == \A k \in ids, i \in Ids : place < i /\ i <= k => i \in ids

\* Above the place where a job lists it has everything; what is published
\* meanwhile moves that place up.
Listed(row, latest) ==
  /\ row.listed \subseteq 1..MaxArtworks
  /\ row.stage \in Unlisted => row.listed = {} /\ row.offset = 0 /\ row.stop = 0
  /\ row.stage = "listing" => /\ row.offset <= latest
                              /\ Gapless(row.listed, latest - row.offset)
  /\ row.stage = "committing" => Gapless(row.listed, row.stop)

\* The watermark falls only when the artist is deleted: a job that began later
\* stopped at or below where the watermark is by now.
Sound(row, latest, mark) ==
  /\ row \in RunningSync /\ NamedRow(row.existing)
  /\ Listed(row, latest)
  /\ ~row.stale => row.stop <= mark

SyncsInv == \A s \in Syncs : sync[s] = SyncIdle \/ Sound(sync[s], remote.latest, artist.mark)

SyncInv == SyncTypeOK /\ NamedRow(artist) /\ SyncsInv /\ WatermarkCovers

LEMMA SyncStarts == SyncInit => SyncInv
<1> SUFFICES ASSUME SyncInit PROVE SyncInv
  OBVIOUS
<1>1. 0 \in Ids /\ MaxArtworks \in Nat
  BY LibrarySyncAssumption DEF Ids
<1>2. /\ artist = NoArtist /\ artist \in Artist /\ sync \in [Syncs -> Sync]
      /\ \A s \in Syncs : sync[s] = SyncIdle
  BY <1>1 DEF SyncInit, Artist, NoArtist, Sync
<1>3. remote \in Remote
  BY LibrarySyncAssumption DEF SyncInit, Remote, Ids
<1>4. SyncTypeOK
  <2>1. history = {} /\ stored = {} /\ revived = FALSE /\ syncs = 0 /\ events = 0
    BY DEF SyncInit
  <2>2. 0 \in 0..MaxSyncs /\ 0 \in 0..MaxEvents
    BY LibrarySyncAssumption
  <2>3. history \subseteq AllNames /\ stored \subseteq 1..MaxArtworks /\ revived \in BOOLEAN
    BY <2>1
  <2> QED BY <1>2, <1>3, <2>1, <2>2, <2>3 DEF SyncTypeOK
<1>5. WatermarkCovers
  BY DEF SyncInit, WatermarkCovers, NoArtist
<1>6. NamedRow(artist)
  BY <1>2 DEF NamedRow
<1>7. SyncsInv
  BY <1>2 DEF SyncsInv
<1> QED BY <1>4, <1>5, <1>6, <1>7 DEF SyncInv

\* A job that is not idle has a whole record.
LEMMA Running ==
  ASSUME SyncInv, NEW s \in Syncs, ~At(s, "idle")
  PROVE  /\ sync[s] \in RunningSync /\ Sound(sync[s], remote.latest, artist.mark)
         /\ DOMAIN sync = Syncs
  BY DEF SyncInv, SyncTypeOK, SyncsInv, SyncIdle, At, Sound

\* What is published and what the watermark gains does no harm.
LEMMA SoundLater ==
  ASSUME NEW l \in Ids, NEW l2 \in Ids, NEW m \in Ids, NEW m2 \in Ids, l <= l2, m <= m2,
         NEW row, Sound(row, l, m)
  PROVE  Sound(row, l2, m2)
<1>1. /\ l \in Nat /\ l2 \in Nat /\ m \in Nat /\ m2 \in Nat
      /\ row.stop \in Nat /\ row.offset \in Nat /\ Ids \subseteq Nat
  BY LibrarySyncAssumption DEF Sound, RunningSync, Ids
<1>2. \A i \in Nat : l2 - row.offset < i => l - row.offset < i
  BY <1>1
<1>3. row.offset <= l => row.offset <= l2
  BY <1>1
<1>4. row.stop <= m => row.stop <= m2
  BY <1>1
<1> QED BY <1>1, <1>2, <1>3, <1>4 DEF Sound, Listed, Gapless

\* One job goes on, and what it does not touch keeps its type.
LEMMA OneSync ==
  ASSUME SyncInv, NEW s \in Syncs, NEW row,
         sync' = [sync EXCEPT ![s] = row],
         row = SyncIdle \/ Sound(row, remote'.latest, artist'.mark),
         remote' = remote, artist' \in Artist, artist.mark <= artist'.mark
  PROVE  SyncsInv' /\ sync' \in [Syncs -> Sync]
<1>1. /\ remote.latest \in Ids /\ artist.mark \in Ids /\ artist'.mark \in Ids
      /\ sync \in [Syncs -> Sync] /\ Ids \subseteq Nat
  BY LibrarySyncAssumption DEF SyncInv, SyncTypeOK, Remote, Artist, Ids
<1>2. row \in Sync
  BY DEF Sound, Sync, RunningSync
<1>3. ASSUME NEW t \in Syncs
      PROVE  sync'[t] = SyncIdle \/ Sound(sync'[t], remote'.latest, artist'.mark)
  <2>1. CASE t = s
    BY <1>1, <2>1
  <2>2. CASE t # s
    <3>1. PICK l, m, m2 : l = remote.latest /\ m = artist.mark /\ m2 = artist'.mark
      OBVIOUS
    <3>2. l \in Ids /\ m \in Ids /\ m2 \in Ids /\ m <= m2
      BY <1>1, <3>1
    <3>3. l <= l
      BY <1>1, <3>2
    <3>4. sync'[t] = sync[t] /\ (sync[t] = SyncIdle \/ Sound(sync[t], l, m))
      BY <1>1, <2>2, <3>1 DEF SyncInv, SyncsInv
    <3>5. sync[t] = SyncIdle \/ Sound(sync[t], l, m2)
      BY <3>2, <3>3, <3>4, SoundLater
    <3> QED BY <3>1, <3>4, <3>5
  <2> QED BY <2>1, <2>2
<1> QED BY <1>1, <1>2, <1>3 DEF SyncsInv

\* What an artist becomes is an artist.
LEMMA UpsertedType ==
  ASSUME SyncInv, NEW s \in Syncs, ~At(s, "idle")
  PROVE  Upserted(s) \in Artist /\ Upserted(s).name \in AllNames
<1>1. sync[s] \in RunningSync /\ artist \in Artist /\ NamedRow(sync[s].existing)
  BY Running DEF SyncInv, Sound, SyncTypeOK
<1>2. NextName(s) \in AllNames
  BY <1>1 DEF NextName, AllNames, Known, NamedRow, RunningSync
<1>3. NextLatest(s) \in Ids
  BY <1>1, LatestIs DEF NextLatest, Artist, RunningSync
<1> QED BY <1>1, <1>2, <1>3 DEF Upserted, Artist, RunningSync

-----------------------------------------------------------------------------
(* LibrarySync: what one job does *)

\* One job goes on, while the rows keep their types and the watermark its cover.
LEMMA OneSyncKeeps ==
  ASSUME SyncInv, NEW s \in Syncs, NEW row,
         sync' = [sync EXCEPT ![s] = row],
         row = SyncIdle \/ Sound(row, remote'.latest, artist'.mark),
         remote' = remote, artist' \in Artist, NamedRow(artist'), artist.mark <= artist'.mark,
         history' \subseteq AllNames, stored' \subseteq 1..MaxArtworks, revived' \in BOOLEAN,
         syncs' \in 0..MaxSyncs, events' \in 0..MaxEvents, WatermarkCovers'
  PROVE  SyncInv'
<1>1. SyncsInv' /\ sync' \in [Syncs -> Sync]
  BY OneSync
<1>2. remote' \in Remote
  BY DEF SyncInv, SyncTypeOK
<1>3. SyncTypeOK'
  BY <1>1, <1>2 DEF SyncTypeOK
<1> QED BY <1>1, <1>3 DEF SyncInv, NamedRow

\* The same for a job that only reads.
LEMMA OneReads ==
  ASSUME SyncInv, NEW s \in Syncs, NEW row,
         sync' = [sync EXCEPT ![s] = row],
         row = SyncIdle \/ Sound(row, remote.latest, artist.mark),
         UNCHANGED <<remote, rows, events>>, syncs' \in 0..MaxSyncs
  PROVE  SyncInv'
<1>1. /\ artist \in Artist /\ NamedRow(artist) /\ artist' = artist /\ remote' = remote
      /\ history' \subseteq AllNames /\ stored' \subseteq 1..MaxArtworks /\ revived' \in BOOLEAN
      /\ events' \in 0..MaxEvents
  BY DEF SyncInv, SyncTypeOK, rows
<1>2. artist.mark <= artist'.mark
  BY <1>1, LibrarySyncAssumption DEF Artist, Ids
<1>3. WatermarkCovers'
  BY DEF SyncInv, WatermarkCovers, rows
<1> QED BY <1>1, <1>2, <1>3, OneSyncKeeps

LEMMA IdsAreNumbers == \A i \in Ids : i \in Nat /\ 0 <= i /\ i <= i /\ i <= MaxArtworks
  BY LibrarySyncAssumption DEF Ids

LEMMA ReadingKeeps ==
  ASSUME SyncInv, NEW s \in Syncs,
         \/ \E kind \in SyncKinds, asks \in BOOLEAN : BeginSync(s, kind, asks)
         \/ FetchArtist(s) \/ ChooseBoundary(s) \/ ListPage(s) \/ AbortSync(s)
  PROVE  SyncInv'
<1>1. /\ remote \in Remote /\ artist \in Artist /\ NamedRow(artist) /\ syncs \in 0..MaxSyncs
      /\ MaxArtworks \in Nat \ {0} /\ MaxSyncs \in Nat /\ Ids \subseteq Nat /\ 0 \in Ids
  BY LibrarySyncAssumption DEF SyncInv, SyncTypeOK, Ids
<1>2. ASSUME NEW kind \in SyncKinds, NEW asks \in BOOLEAN, BeginSync(s, kind, asks)
      PROVE  SyncInv'
  <2> DEFINE row == [stage |-> "fetching", kind |-> kind, asks |-> asks, existing |-> artist,
                     name |-> remote.name, available |-> TRUE, stop |-> 0, listed |-> {},
                     offset |-> 0, stale |-> FALSE]
  <2>1. row \in RunningSync
    BY <1>1 DEF RunningSync, SyncStages, Remote
  <2>2. 0 <= artist.mark
    BY <1>1, IdsAreNumbers DEF Artist
  <2>3. Sound(row, remote.latest, artist.mark)
    BY <1>1, <2>1, <2>2 DEF Sound, Listed
  <2>4. /\ sync' = [sync EXCEPT ![s] = row] /\ UNCHANGED <<remote, rows, events>>
        /\ syncs' \in 0..MaxSyncs
    BY <1>1, <1>2 DEF BeginSync
  <2> HIDE DEF row
  <2> QED BY <2>3, <2>4, OneReads
<1>3. CASE AbortSync(s)
  BY <1>1, <1>3, OneReads DEF AbortSync, EndSync
<1>4. CASE FetchArtist(s)
  <2>1. At(s, "fetching") /\ UNCHANGED <<remote, rows, events, syncs>>
    BY <1>4 DEF FetchArtist
  <2>2. Sound(sync[s], remote.latest, artist.mark)
    BY <2>1, Running DEF At
  <2>3. CASE EndSync(s)
    BY <1>1, <2>1, <2>3, OneReads DEF EndSync
  <2>4. CASE ~EndSync(s)
    <3> DEFINE row == [sync[s] EXCEPT !.stage = AfterFetch(s), !.name = remote.name,
                                      !.available = remote.available]
    <3>1. sync' = [sync EXCEPT ![s] = row]
      BY <1>4, <2>4 DEF FetchArtist
    <3>2. row \in RunningSync /\ row.listed = {} /\ row.offset = 0 /\ row.stop = 0
          /\ row.stage # "listing" /\ row.existing = sync[s].existing
          /\ row.stale = sync[s].stale
      BY <1>1, <2>1, <2>2 DEF Sound, Listed, RunningSync, Remote, AfterFetch, SyncStages,
                              Unlisted, At
    <3>3. Sound(row, remote.latest, artist.mark)
      <4> HIDE DEF row
      <4> QED BY <2>2, <3>2, <2>1 DEF Sound, Listed, Gapless, At, Unlisted
    <3> HIDE DEF row
    <3> QED BY <1>1, <2>1, <3>1, <3>3, OneReads
  <2> QED BY <2>3, <2>4
<1>5. CASE ChooseBoundary(s)
  <2> DEFINE row == [sync[s] EXCEPT !.stage = "listing", !.stop = Boundary(s)]
  <2>1. /\ At(s, "choosing") /\ UNCHANGED <<remote, rows, events, syncs>>
        /\ sync' = [sync EXCEPT ![s] = row]
    BY <1>5 DEF ChooseBoundary
  <2>2. Sound(sync[s], remote.latest, artist.mark)
    BY <2>1, Running DEF At
  <2>3. Boundary(s) \in Ids /\ Boundary(s) <= artist.mark /\ remote.latest \in Ids
    BY <1>1, IdsAreNumbers DEF Boundary, Artist, Remote
  <2>4. row \in RunningSync /\ row.listed = {} /\ row.offset = 0 /\ row.stop = Boundary(s)
        /\ row.stage = "listing" /\ row.existing = sync[s].existing
    BY <2>1, <2>2, <2>3 DEF Sound, Listed, RunningSync, SyncStages, Unlisted, At
  <2>5. Sound(row, remote.latest, artist.mark)
    <3> HIDE DEF row
    <3>1. 0 <= remote.latest
      BY IdsAreNumbers, <2>3
    <3> QED BY <2>2, <2>3, <2>4, <3>1 DEF Sound, Listed, Gapless, Unlisted
  <2> HIDE DEF row
  <2> QED BY <1>1, <2>1, <2>5, OneReads
<1>6. CASE ListPage(s)
  <2> DEFINE id == remote.latest - sync[s].offset
             done == IF sync[s].kind = "hydration" THEN "upserting" ELSE "committing"
             end == [sync[s] EXCEPT !.stage = done]
             more == [sync[s] EXCEPT !.listed = @ \cup {id}, !.offset = @ + 1]
  <2>1. /\ At(s, "listing") /\ UNCHANGED <<remote, rows, events, syncs>>
        /\ id <= sync[s].stop => sync' = [sync EXCEPT ![s] = end]
        /\ ~(id <= sync[s].stop) => sync' = [sync EXCEPT ![s] = more]
    BY <1>6 DEF ListPage, Proceed
  <2>2. Sound(sync[s], remote.latest, artist.mark) /\ sync[s].stage = "listing"
    BY <2>1, Running DEF At
  <2>3. /\ sync[s] \in RunningSync /\ sync[s].offset \in Nat /\ sync[s].stop \in Nat
        /\ sync[s].stop \in Ids /\ sync[s].offset \in Ids
        /\ remote.latest \in Nat /\ remote.latest <= MaxArtworks /\ MaxArtworks \in Nat
        /\ sync[s].listed \in SUBSET (1..MaxArtworks) /\ sync[s].offset <= remote.latest
    BY <1>1, <2>2, IdsAreNumbers DEF Sound, Listed, RunningSync, Remote
  <2>4. CASE id <= sync[s].stop
    <3>1. /\ end \in RunningSync /\ end.stage = done /\ end.existing = sync[s].existing
          /\ end.stop = sync[s].stop /\ end.stale = sync[s].stale
          /\ end.listed = sync[s].listed
      BY <2>3 DEF RunningSync, SyncStages
    <3>2. Gapless(sync[s].listed, sync[s].stop)
      <4>1. \A i \in Nat : sync[s].stop < i => id < i
        BY <2>3, <2>4
      <4> QED BY <1>1, <2>2, <4>1 DEF Sound, Listed, Gapless
    <3>3. Sound(end, remote.latest, artist.mark)
      <4> HIDE DEF end
      <4> QED BY <2>2, <3>1, <3>2 DEF Sound, Listed, Unlisted
    <3> HIDE DEF end, id
    <3> QED BY <1>1, <2>1, <2>4, <3>3, OneReads
  <2>5. CASE ~(id <= sync[s].stop)
    <3>1. /\ id \in 1..MaxArtworks /\ sync[s].offset + 1 \in Ids /\ id \in Ids
          /\ sync[s].offset + 1 <= remote.latest
      BY <2>3, <2>5 DEF Ids
    <3>2. /\ more.stage = "listing" /\ more.existing = sync[s].existing
          /\ more.stop = sync[s].stop /\ more.stale = sync[s].stale
          /\ more.listed = sync[s].listed \cup {id} /\ more.offset = sync[s].offset + 1
      BY <2>2, <2>3 DEF RunningSync
    <3>3. more \in RunningSync
      <4> HIDE DEF id
      <4> QED BY <2>3, <3>1 DEF RunningSync
    <3>4. Gapless(more.listed, remote.latest - more.offset)
      <4> SUFFICES ASSUME NEW k \in sync[s].listed \cup {id}, NEW i \in Ids,
                          remote.latest - (sync[s].offset + 1) < i, i <= k, i # id
                   PROVE  i \in sync[s].listed
        BY <3>2 DEF Gapless
      <4>1. id < i
        BY <1>1, <2>3
      <4>2. k # id
        BY <1>1, <2>3, <4>1
      <4> QED BY <2>2, <4>1, <4>2 DEF Sound, Listed, Gapless
    <3>5. Sound(more, remote.latest, artist.mark)
      <4>1. more.listed \subseteq 1..MaxArtworks
        BY <2>3, <3>1, <3>2
      <4> HIDE DEF more
      <4> QED BY <2>2, <3>1, <3>2, <3>3, <3>4, <4>1 DEF Sound, Listed, Unlisted
    <3> HIDE DEF more, id
    <3> QED BY <1>1, <2>1, <2>5, <3>5, OneReads
  <2> QED BY <2>4, <2>5
<1> QED BY <1>2, <1>3, <1>4, <1>5, <1>6

LEMMA RecordingKeeps ==
  ASSUME SyncInv, NEW s \in Syncs, RecordOld(s) \/ RecordNew(s) \/ StoreArtwork(s)
  PROVE  SyncInv'
<1>1. /\ ~At(s, "idle") /\ UNCHANGED <<remote, artist, revived, syncs, events>>
      /\ sync[s].stage \in {"recording old", "recording new", "storing"}
  BY DEF RecordOld, RecordNew, StoreArtwork, At
<1>2. /\ Sound(sync[s], remote.latest, artist.mark) /\ sync[s] \in RunningSync
      /\ artist \in Artist /\ NamedRow(artist) /\ WatermarkCovers
      /\ syncs \in 0..MaxSyncs /\ events \in 0..MaxEvents /\ revived \in BOOLEAN
  BY <1>1, Running DEF SyncInv, SyncTypeOK
<1>3. OldNames(s) \subseteq AllNames /\ NewNames(s) \subseteq AllNames
  BY <1>2 DEF OldNames, NewNames, Sound, NamedRow, Known, RunningSync, AllNames
<1>4. history' \subseteq AllNames
  BY <1>3 DEF RecordOld, RecordNew, StoreArtwork, SyncInv, SyncTypeOK
<1>5. stored \subseteq stored' /\ stored' \subseteq 1..MaxArtworks
  <2>1. CASE stored' = stored
    BY <2>1 DEF SyncInv, SyncTypeOK
  <2>2. CASE stored' # stored
    <3>1. sync[s].listed # {} /\ stored' = stored \cup {Latest(sync[s].listed)}
      BY <2>2 DEF RecordOld, RecordNew, StoreArtwork
    <3>2. sync[s].listed \in SUBSET Ids /\ sync[s].listed \subseteq 1..MaxArtworks
      BY <1>2 DEF RunningSync, Sound, Listed
    <3>3. Latest(sync[s].listed) \in sync[s].listed \cup {0}
          /\ \A k \in sync[s].listed : k <= Latest(sync[s].listed)
      BY <3>2, LatestIs
    <3>4. Latest(sync[s].listed) \in 1..MaxArtworks
      BY <3>1, <3>2, <3>3, LibrarySyncAssumption
    <3> QED BY <3>1, <3>4 DEF SyncInv, SyncTypeOK
  <2> QED BY <2>1, <2>2
<1>6. WatermarkCovers'
  BY <1>1, <1>2, <1>5 DEF WatermarkCovers
<1>7. \E row : /\ sync' = [sync EXCEPT ![s] = row]
               /\ row = SyncIdle \/ Sound(row, remote.latest, artist.mark)
  <2>1. CASE EndSync(s)
    BY <2>1 DEF EndSync
  <2>2. ASSUME NEW stage \in {"recording new", "choosing", "upserting"}, Proceed(s, stage),
               sync[s].stage \in Unlisted
        PROVE  \E row : /\ sync' = [sync EXCEPT ![s] = row]
                        /\ row = SyncIdle \/ Sound(row, remote.latest, artist.mark)
    <3> DEFINE row == [sync[s] EXCEPT !.stage = stage]
    <3>1. /\ row \in RunningSync /\ row.stage = stage /\ row.existing = sync[s].existing
          /\ row.stop = sync[s].stop /\ row.stale = sync[s].stale
          /\ row.listed = sync[s].listed /\ row.offset = sync[s].offset
      BY <1>2 DEF RunningSync, SyncStages
    <3>2. sync' = [sync EXCEPT ![s] = row]
      BY <2>2 DEF Proceed
    <3> HIDE DEF row
    <3>3. Sound(row, remote.latest, artist.mark)
      BY <1>2, <2>2, <3>1 DEF Sound, Listed
    <3> QED BY <3>2, <3>3
  <2>3. CASE StoreArtwork(s) /\ ~EndSync(s)
    <3> DEFINE row == [sync[s] EXCEPT !.listed = @ \ {Latest(sync[s].listed)}]
    <3>1. /\ row \in RunningSync /\ row.stage = "storing" /\ row.existing = sync[s].existing
          /\ row.stop = sync[s].stop /\ row.stale = sync[s].stale
          /\ row.listed \subseteq sync[s].listed
      BY <1>2, <2>3 DEF RunningSync, StoreArtwork, At
    <3>2. sync' = [sync EXCEPT ![s] = row]
      BY <2>3 DEF StoreArtwork
    <3> HIDE DEF row
    <3>3. Sound(row, remote.latest, artist.mark)
      BY <1>2, <3>1 DEF Sound, Listed, Unlisted
    <3> QED BY <3>2, <3>3
  <2>4. CASE (RecordOld(s) \/ RecordNew(s)) /\ ~EndSync(s)
    <3>1. PICK stage \in {"recording new", "choosing", "upserting"} : Proceed(s, stage)
      BY <2>4 DEF RecordOld, RecordNew
    <3>2. sync[s].stage \in Unlisted
      BY <2>4 DEF RecordOld, RecordNew, At, Unlisted
    <3> QED BY <2>2, <3>1, <3>2
  <2> QED BY <2>1, <2>3, <2>4
<1>8. artist.mark <= artist.mark
  BY <1>2, IdsAreNumbers DEF Artist
<1> QED BY <1>1, <1>2, <1>4, <1>5, <1>6, <1>7, <1>8, OneSyncKeeps

\* What is at most the largest number of a set without gaps above a place is
\* at most the place, or in the set.
LEMMA Covered ==
  ASSUME NEW ids \in SUBSET Ids, NEW place \in Ids, Gapless(ids, place),
         NEW i \in Nat, 1 <= i, i <= Latest(ids)
  PROVE  i <= place \/ i \in ids
<1>1. Latest(ids) \in (ids \cup {0}) \cap Ids /\ Ids \subseteq Nat /\ place \in Nat
  BY LatestIs, IdsAreNumbers
<1>2. Latest(ids) # 0 /\ Latest(ids) \in ids /\ i \in Ids
  BY <1>1, LibrarySyncAssumption DEF Ids
<1>3. \A a, b \in Nat : a <= b \/ b < a
  OBVIOUS
<1> QED BY <1>1, <1>2, <1>3 DEF Gapless

LEMMA CommitKeeps ==
  ASSUME SyncInv, NEW s \in Syncs, Commit(s)
  PROVE  SyncInv'
<1> DEFINE ids == sync[s].listed
           mark == Advanced(artist.mark, ids)
<1>1. /\ ~At(s, "idle") /\ sync[s].stage = "committing" /\ UNCHANGED <<remote, syncs, events>>
      /\ sync' = [sync EXCEPT ![s] = SyncIdle]
      /\ revived' = (revived \/ sync[s].stale) /\ stored' = stored \cup ids
      /\ history' = history \cup OldNames(s) \cup NewNames(s)
      /\ artist' = [Upserted(s) EXCEPT !.mark = Advanced(@, ids)]
  BY DEF Commit, At, EndSync
<1>2. /\ Sound(sync[s], remote.latest, artist.mark) /\ sync[s] \in RunningSync
      /\ artist \in Artist /\ WatermarkCovers /\ artist.mark \in Ids
      /\ stored \subseteq 1..MaxArtworks /\ history \subseteq AllNames
      /\ syncs \in 0..MaxSyncs /\ events \in 0..MaxEvents /\ revived \in BOOLEAN
  BY <1>1, Running DEF SyncInv, SyncTypeOK, Artist
<1>3. OldNames(s) \subseteq AllNames /\ NewNames(s) \subseteq AllNames
  BY <1>2 DEF OldNames, NewNames, Sound, NamedRow, Known, RunningSync, AllNames
<1>4. /\ ids \in SUBSET Ids /\ ids \subseteq 1..MaxArtworks /\ sync[s].stop \in Ids
      /\ Gapless(ids, sync[s].stop)
      /\ ~sync[s].stale => sync[s].stop <= artist.mark
  BY <1>1, <1>2 DEF Sound, Listed, RunningSync
<1>5. Latest(ids) \in Ids
  BY <1>4, LatestIs
<1>6. mark \in Ids /\ artist.mark <= mark
      /\ (mark = artist.mark \/ mark = Latest(ids))
  BY <1>2, <1>5, IdsAreNumbers DEF Advanced
<1>7. Upserted(s) \in Artist /\ Upserted(s).name \in AllNames /\ Upserted(s).mark = artist.mark
  BY <1>1, UpsertedType DEF Upserted
<1>8. artist' \in Artist /\ artist'.name \in AllNames /\ artist'.mark = mark
  <2> HIDE DEF ids
  <2> QED BY <1>1, <1>6, <1>7 DEF Artist
<1>9. WatermarkCovers'
  <2> SUFFICES ASSUME ~revived', NEW i \in 1..artist'.mark PROVE i \in stored'
    BY DEF WatermarkCovers
  <2>1. i \in Nat /\ 1 <= i /\ i <= mark
    BY <1>6, <1>8, IdsAreNumbers
  <2>2. CASE i <= artist.mark
    BY <1>1, <1>2, <2>1, <2>2, IdsAreNumbers DEF WatermarkCovers
  <2>3. CASE ~(i <= artist.mark)
    <3>1. i <= Latest(ids)
      BY <1>6, <2>1, <2>3
    <3>2. i <= sync[s].stop \/ i \in ids
      BY <1>4, <2>1, <3>1, Covered
    <3>3. ~(i <= sync[s].stop)
      <4>1. sync[s].stop <= artist.mark
        BY <1>1, <1>2, <1>4 DEF RunningSync
      <4>2. sync[s].stop \in Nat /\ artist.mark \in Nat
        BY <1>2, <1>4, IdsAreNumbers
      <4> QED BY <2>1, <2>3, <4>1, <4>2
    <3> QED BY <1>1, <3>2, <3>3
  <2> QED BY <2>2, <2>3
<1>10. /\ revived' \in BOOLEAN /\ stored' \subseteq 1..MaxArtworks /\ history' \subseteq AllNames
       /\ syncs' \in 0..MaxSyncs /\ events' \in 0..MaxEvents
  BY <1>1, <1>2, <1>3, <1>4
<1>11. NamedRow(artist') /\ artist.mark <= artist'.mark
  BY <1>6, <1>8 DEF NamedRow
<1> HIDE DEF ids, mark
<1> QED BY <1>1, <1>8, <1>9, <1>10, <1>11, OneSyncKeeps

LEMMA UpsertKeeps ==
  ASSUME SyncInv, NEW s \in Syncs, UpsertArtist(s)
  PROVE  SyncInv'
<1> DEFINE row == [sync[s] EXCEPT !.stage = "storing"]
<1>1. /\ ~At(s, "idle") /\ UNCHANGED <<remote, history, stored, syncs, events>>
      /\ sync' = [sync EXCEPT ![s] = row] /\ artist' = Upserted(s)
      /\ revived' = (revived \/ sync[s].stale)
  BY DEF UpsertArtist, At, Proceed
<1>2. /\ Sound(sync[s], remote.latest, artist.mark) /\ sync[s] \in RunningSync
      /\ artist \in Artist /\ WatermarkCovers
      /\ stored \subseteq 1..MaxArtworks /\ history \subseteq AllNames
      /\ syncs \in 0..MaxSyncs /\ events \in 0..MaxEvents /\ revived \in BOOLEAN
  BY <1>1, Running DEF SyncInv, SyncTypeOK, Artist
<1>3. /\ artist' \in Artist /\ NamedRow(artist') /\ artist'.mark = artist.mark
      /\ artist.mark <= artist'.mark
  BY <1>1, <1>2, UpsertedType, IdsAreNumbers DEF Upserted, NamedRow, Artist
<1>4. /\ row \in RunningSync /\ row.stage = "storing" /\ row.existing = sync[s].existing
      /\ row.stop = sync[s].stop /\ row.stale = sync[s].stale
      /\ row.listed = sync[s].listed
  BY <1>2 DEF RunningSync, SyncStages
<1> HIDE DEF row
<1>5. Sound(row, remote'.latest, artist'.mark)
  BY <1>1, <1>2, <1>3, <1>4 DEF Sound, Listed, Unlisted
<1>6. WatermarkCovers' /\ revived' \in BOOLEAN
  BY <1>1, <1>2, <1>3, UpsertedType DEF WatermarkCovers, RunningSync
<1> QED BY <1>1, <1>2, <1>3, <1>5, <1>6, OneSyncKeeps

-----------------------------------------------------------------------------
(* LibrarySync: what happens meanwhile, and the theorem *)

LEMMA MeanwhileKeeps ==
  ASSUME SyncInv, Publish \/ Rename \/ Suspend \/ DeleteArtist \/ ImportArtist
  PROVE  SyncInv'
<1>1. /\ remote \in Remote /\ artist \in Artist /\ NamedRow(artist) /\ WatermarkCovers
      /\ sync \in [Syncs -> Sync] /\ SyncsInv /\ SyncTypeOK
      /\ remote.latest \in Ids /\ artist.mark \in Ids /\ 0 \in Ids /\ Ids \subseteq Nat
      /\ MaxArtworks \in Nat /\ MaxEvents \in Nat
  BY LibrarySyncAssumption DEF SyncInv, SyncTypeOK, Remote, Artist, Ids
<1>2. CASE Publish \/ Rename \/ Suspend
  <2>1. UNCHANGED <<rows, sync, syncs>> /\ events' \in 0..MaxEvents
    BY <1>1, <1>2 DEF Publish, Rename, Suspend, Happens, SyncTypeOK
  <2>2. remote' \in Remote /\ remote.latest <= remote'.latest
    <3>1. CASE Publish
      <4>1. remote.latest + 1 \in Ids /\ remote.latest <= remote.latest + 1
        BY <1>1, <3>1 DEF Publish, Ids
      <4>2. remote' = [remote EXCEPT !.latest = remote.latest + 1]
        BY <3>1 DEF Publish
      <4> QED BY <1>1, <4>1, <4>2 DEF Remote
    <3>2. CASE Rename \/ Suspend
      BY <1>1, <3>2, IdsAreNumbers DEF Rename, Suspend, Remote
    <3> QED BY <1>2, <3>1, <3>2
  <2>3. SyncsInv'
    <3> SUFFICES ASSUME NEW s \in Syncs, sync[s] # SyncIdle
                 PROVE  Sound(sync[s], remote'.latest, artist.mark)
      BY <2>1 DEF SyncsInv, rows
    <3>1. PICK l, l2, m : l = remote.latest /\ l2 = remote'.latest /\ m = artist.mark
      OBVIOUS
    <3>2. l \in Ids /\ l2 \in Ids /\ m \in Ids /\ l <= l2
      BY <1>1, <2>2, <3>1 DEF Remote
    <3>3. m <= m /\ Sound(sync[s], l, m)
      BY <1>1, <3>1, <3>2, IdsAreNumbers DEF SyncsInv
    <3> QED BY <3>1, <3>2, <3>3, SoundLater
  <2> QED BY <1>1, <2>1, <2>2, <2>3 DEF SyncInv, SyncTypeOK, WatermarkCovers, NamedRow, rows
<1>3. CASE DeleteArtist
  <2>1. /\ artist' = NoArtist /\ history' = {} /\ stored' = {} /\ revived' = FALSE
        /\ UNCHANGED <<remote, syncs>> /\ events' \in 0..MaxEvents
    BY <1>1, <1>3 DEF DeleteArtist, Happens, SyncTypeOK
  <2>2. ASSUME NEW s \in Syncs
        PROVE  sync'[s] \in Sync
               /\ (sync'[s] = SyncIdle \/ Sound(sync'[s], remote.latest, 0))
    <3>1. CASE sync[s] = SyncIdle
      BY <1>3, <3>1 DEF DeleteArtist, Sync
    <3>2. CASE sync[s] # SyncIdle
      <4> DEFINE row == [sync[s] EXCEPT !.stale = TRUE]
      <4>1. Sound(sync[s], remote.latest, artist.mark) /\ sync[s] \in RunningSync
        BY <1>1, <3>2 DEF SyncsInv, Sound
      <4>2. sync'[s] = row
        BY <1>3, <3>2 DEF DeleteArtist
      <4>3. /\ row \in RunningSync /\ row.stage = sync[s].stage
            /\ row.existing = sync[s].existing /\ row.stop = sync[s].stop /\ row.stale
            /\ row.listed = sync[s].listed /\ row.offset = sync[s].offset
        BY <4>1 DEF RunningSync
      <4> HIDE DEF row
      <4>4. Sound(row, remote.latest, 0)
        BY <4>1, <4>3 DEF Sound, Listed
      <4> QED BY <4>2, <4>3, <4>4 DEF Sync, RunningSync
    <3> QED BY <3>1, <3>2
  <2>3. sync' \in [Syncs -> Sync]
    BY <1>3, <2>2 DEF DeleteArtist
  <2>4. NoArtist \in Artist /\ NoArtist.mark = 0 /\ NamedRow(NoArtist)
    BY <1>1 DEF NoArtist, Artist, NamedRow
  <2>5. SyncsInv'
    BY <2>1, <2>2, <2>4 DEF SyncsInv
  <2>6. WatermarkCovers'
    BY <2>1, <2>4 DEF WatermarkCovers
  <2> QED BY <1>1, <2>1, <2>3, <2>4, <2>5, <2>6 DEF SyncInv, SyncTypeOK
<1>4. CASE ImportArtist
  <2>1. /\ artist' = [NoArtist EXCEPT !.name = LegacyName, !.mark = artist.mark]
        /\ UNCHANGED <<remote, history, stored, sync, revived, syncs>> /\ events' \in 0..MaxEvents
    BY <1>1, <1>4 DEF ImportArtist, Happens, SyncTypeOK
  <2>2. artist' \in Artist /\ NamedRow(artist') /\ artist'.mark = artist.mark
    BY <1>1, <2>1 DEF NoArtist, Artist, NamedRow, AllNames
  <2> QED BY <1>1, <2>1, <2>2 DEF SyncInv, SyncTypeOK, SyncsInv, WatermarkCovers
<1> QED BY <1>2, <1>3, <1>4

LEMMA SyncNextKeeps == SyncInv /\ [SyncNext]_syncVars => SyncInv'
<1>1. SyncInv /\ SyncNext => SyncInv'
  BY ReadingKeeps, RecordingKeeps, CommitKeeps, UpsertKeeps, MeanwhileKeeps
  DEF SyncNext, SyncStep
<1>2. SyncInv /\ UNCHANGED syncVars => SyncInv'
  BY DEF syncVars, rows, SyncInv, SyncTypeOK, SyncsInv, WatermarkCovers, NamedRow
<1> QED BY <1>1, <1>2

\* Whatever jobs synchronise the artist at once and whatever he publishes
\* meanwhile, nothing he has published is hidden behind the watermark, unless a
\* job has outlived his deletion.
THEOREM WatermarkIsHonest == SyncSpec => []WatermarkCovers
<1>1. SyncInv => WatermarkCovers
  BY DEF SyncInv
<1> QED BY <1>1, SyncStarts, SyncNextKeeps, PTL DEF SyncSpec
-----------------------------------------------------------------------------
(* LegacyImport: rows and what counts them *)

RowsUpTo(row) == (1..row) \ EmptyRows
EmptyUpTo(row) == (1..row) \cap EmptyRows

LEMMA RowBounds ==
  /\ MaxRows \in Nat /\ MaxRows >= 1 /\ PageSize \in Nat /\ PageSize >= 1
  /\ EmptyRows \in SUBSET {1} /\ EmptyRows \subseteq Rows
  /\ Artists = RowsUpTo(MaxRows)
  BY LegacyImportAssumption DEF EmptyRows, Artists, Rows, RowsUpTo

LEMMA CountType ==
  ASSUME NEW row \in 0..MaxRows
  PROVE  /\ IsFiniteSet(RowsUpTo(row)) /\ Cardinality(RowsUpTo(row)) \in Nat
         /\ IsFiniteSet(EmptyUpTo(row)) /\ Cardinality(EmptyUpTo(row)) \in Nat
<1>1. IsFiniteSet(1..row)
  BY FS_Interval, RowBounds
<1>2. IsFiniteSet(RowsUpTo(row)) /\ IsFiniteSet(EmptyUpTo(row))
  BY <1>1, FS_Subset DEF RowsUpTo, EmptyUpTo
<1> QED BY <1>2, FS_CardinalityType

\* The next row is counted once, as one kind or the other.
LEMMA CountNext ==
  ASSUME NEW row \in 0..MaxRows, row < MaxRows
  PROVE  /\ row + 1 \notin EmptyRows
              => /\ RowsUpTo(row + 1) = RowsUpTo(row) \cup {row + 1}
                 /\ Cardinality(RowsUpTo(row + 1)) = Cardinality(RowsUpTo(row)) + 1
                 /\ EmptyUpTo(row + 1) = EmptyUpTo(row)
         /\ row + 1 \in EmptyRows
              => /\ EmptyUpTo(row + 1) = EmptyUpTo(row) \cup {row + 1}
                 /\ Cardinality(EmptyUpTo(row + 1)) = Cardinality(EmptyUpTo(row)) + 1
                 /\ RowsUpTo(row + 1) = RowsUpTo(row)
<1>1. row \in Nat /\ row + 1 \in Nat /\ 1..(row + 1) = (1..row) \cup {row + 1}
      /\ row + 1 \notin 1..row
  BY RowBounds
<1>2. CASE row + 1 \notin EmptyRows
  <2>1. RowsUpTo(row + 1) = RowsUpTo(row) \cup {row + 1} /\ row + 1 \notin RowsUpTo(row)
    BY <1>1, <1>2 DEF RowsUpTo
  <2>2. EmptyUpTo(row + 1) = EmptyUpTo(row)
    BY <1>1, <1>2 DEF EmptyUpTo
  <2> QED BY <1>2, <2>1, <2>2, CountType, FS_AddElement
<1>3. CASE row + 1 \in EmptyRows
  <2>1. EmptyUpTo(row + 1) = EmptyUpTo(row) \cup {row + 1} /\ row + 1 \notin EmptyUpTo(row)
    BY <1>1, <1>3 DEF EmptyUpTo
  <2>2. RowsUpTo(row + 1) = RowsUpTo(row)
    BY <1>1, <1>3 DEF RowsUpTo
  <2> QED BY <1>3, <2>1, <2>2, CountType, FS_AddElement
<1> QED BY <1>2, <1>3

\* Counters and a place agree: what is counted up to the place is done.
Counted(imported, skipped, row, done) ==
  /\ imported = Cardinality(RowsUpTo(row)) /\ skipped = Cardinality(EmptyUpTo(row))
  /\ RowsUpTo(row) \subseteq done

Underway == {"starting", "paging", "artist", "link", "progress", "finishing"}

\* What is left of the page begins behind the place.
RowsLeft(scan) == \E last \in Rows : scan.at < last /\ scan.page = (scan.at + 1)..last

\* A scan agrees with the library and the links although others write them too.
ScanSound(scan, lib, lnk) ==
  /\ scan \in Scan
  /\ scan.stage \in Underway => Counted(scan.imported, scan.skipped, scan.at, lib \cap lnk)
  /\ scan.stage \in {"artist", "link"} => RowsLeft(scan)
  /\ scan.stage = "link" => scan.at + 1 \in lib /\ scan.at + 1 \in Artists
  /\ scan.stage = "finishing" => scan.at = MaxRows
  /\ scan.stage = "completed" => Artists \subseteq lnk

ScanTypes ==
  /\ upload \in {"none", "stored", "refused"} /\ import \in Import
  /\ library \subseteq Artists /\ linked \subseteq Artists /\ scanJob \in [Scans -> Scan]
  /\ importErrors \in 0..MaxImportErrors /\ importCrashes \in 0..MaxImportCrashes

ScansInv ==
  /\ ScanTypes
  /\ Counted(import.imported, import.skipped, import.cursor, library \cap linked)
  /\ \A s \in Scans : ScanSound(scanJob[s], library, linked)

LEMMA NothingCounted ==
  /\ Counted(0, 0, 0, library \cap linked)
  /\ 0 \in 0..MaxRows
<1>1. RowsUpTo(0) = {} /\ EmptyUpTo(0) = {}
  BY DEF RowsUpTo, EmptyUpTo
<1> QED BY <1>1, FS_EmptySet, RowBounds DEF Counted

LEMMA ScansStart == ImportInit => ScansInv
<1> SUFFICES ASSUME ImportInit PROVE ScansInv
  OBVIOUS
<1>1. 0 \in 0..MaxRows /\ NoScan \in Scan
  BY NothingCounted DEF NoScan, Scan, ScanStages
<1>2. /\ import \in Import /\ import.imported = 0 /\ import.skipped = 0 /\ import.cursor = 0
  BY <1>1 DEF ImportInit, Import, ImportStatuses
<1>3. /\ upload = "none" /\ library = {} /\ linked = {} /\ importErrors = 0 /\ importCrashes = 0
      /\ scanJob = [s \in Scans |-> NoScan]
  BY DEF ImportInit
<1>4. 0 \in 0..MaxImportErrors /\ 0 \in 0..MaxImportCrashes
  BY LegacyImportAssumption
<1>5. ScanSound(NoScan, library, linked)
  BY <1>1 DEF ScanSound, NoScan, Underway
<1> QED BY <1>1, <1>2, <1>3, <1>4, <1>5, NothingCounted DEF ScansInv, ScanTypes

\* More in the library and more links do no harm.
LEMMA ScanSoundLater ==
  ASSUME NEW lib, NEW lnk, NEW lib2, NEW lnk2, lib \subseteq lib2, lnk \subseteq lnk2,
         NEW scan, ScanSound(scan, lib, lnk)
  PROVE  ScanSound(scan, lib2, lnk2)
  BY DEF ScanSound, Counted

\* One scan goes on.
LEMMA OneScan ==
  ASSUME ScansInv, NEW s \in Scans, NEW scan,
         scanJob' = [scanJob EXCEPT ![s] = scan], ScanSound(scan, library', linked'),
         library \subseteq library', linked \subseteq linked',
         library' \subseteq Artists, linked' \subseteq Artists, import' \in Import,
         Counted(import'.imported, import'.skipped, import'.cursor, library' \cap linked'),
         upload' \in {"none", "stored", "refused"},
         importErrors' \in 0..MaxImportErrors, importCrashes' \in 0..MaxImportCrashes
  PROVE  ScansInv'
<1>1. PICK lib, lnk : lib = library' /\ lnk = linked'
  OBVIOUS
<1>2. scan \in Scan /\ scanJob \in [Scans -> Scan]
  BY DEF ScanSound, ScansInv, ScanTypes
<1>3. ASSUME NEW t \in Scans PROVE ScanSound(scanJob'[t], library', linked')
  <2>1. CASE t = s
    BY <1>2, <2>1
  <2>2. CASE t # s
    <3>1. scanJob'[t] = scanJob[t] /\ ScanSound(scanJob[t], library, linked)
      BY <1>2, <2>2 DEF ScansInv
    <3>2. ScanSound(scanJob[t], lib, lnk)
      BY <1>1, <3>1, ScanSoundLater
    <3> QED BY <1>1, <3>1, <3>2
  <2> QED BY <2>1, <2>2
<1> QED BY <1>2, <1>3 DEF ScansInv, ScanTypes

-----------------------------------------------------------------------------
(* LegacyImport: what one scan does *)

\* A page is taken from its first row, which follows the place of the scan.
LEMMA NextRowFollows ==
  ASSUME ScansInv, NEW s \in Scans, scanJob[s].stage \in {"artist", "link"}
  PROVE  /\ scanJob[s].at \in 0..MaxRows /\ scanJob[s].at < MaxRows
         /\ NextRow(s) = scanJob[s].at + 1 /\ NextRow(s) \in Rows
         /\ AfterRow(s) \in {"progress", "artist"}
         /\ AfterRow(s) = "artist" => \E last \in Rows :
              /\ scanJob[s].at + 1 < last
              /\ scanJob[s].page \ {NextRow(s)} = (scanJob[s].at + 2)..last
<1> DEFINE at == scanJob[s].at
<1>1. scanJob[s] \in Scan /\ RowsLeft(scanJob[s])
  BY DEF ScansInv, ScanSound
<1>2. PICK last \in Rows : at < last /\ scanJob[s].page = (at + 1)..last
  BY <1>1 DEF RowsLeft
<1>3. at \in Nat /\ last \in Nat /\ last <= MaxRows /\ at \in 0..MaxRows /\ MaxRows \in Nat
  BY <1>1, <1>2, RowBounds DEF Scan, Rows
<1> HIDE DEF at
<1>4. at + 1 \in (at + 1)..last /\ (\A q \in (at + 1)..last : at + 1 <= q)
      /\ \A r \in (at + 1)..last : (\A q \in (at + 1)..last : r <= q) => r = at + 1
  BY <1>2, <1>3
<1>5. NextRow(s) = at + 1
  BY <1>2, <1>4 DEF NextRow
<1>6. ((at + 1)..last) \ {at + 1} = (at + 2)..last /\ at + 1 \in Rows
  BY <1>2, <1>3 DEF Rows
<1>7. at + 1 = last => scanJob[s].page = {NextRow(s)}
  BY <1>2, <1>3, <1>5
<1>8. at + 1 = last \/ at + 1 < last
  BY <1>2, <1>3
<1>9. at < MaxRows
  BY <1>2, <1>3
<1> QED BY <1>2, <1>3, <1>5, <1>6, <1>7, <1>8, <1>9 DEF AfterRow, at

\* The scan after one row has been dealt with.
DoneRow(s, imported, skipped) ==
  [scanJob[s] EXCEPT !.stage = AfterRow(s), !.at = NextRow(s), !.page = @ \ {NextRow(s)},
                     !.imported = imported, !.skipped = skipped]

LEMMA RowDone ==
  ASSUME ScansInv, NEW s \in Scans, scanJob[s].stage \in {"artist", "link"},
         NEW lib, NEW lnk, NEW imported \in Nat, NEW skipped \in Nat,
         Counted(imported, skipped, scanJob[s].at + 1, lib \cap lnk)
  PROVE  ScanSound(DoneRow(s, imported, skipped), lib, lnk)
<1> DEFINE scan == DoneRow(s, imported, skipped)
<1>1. scanJob[s] \in Scan
  BY DEF ScansInv, ScanSound
<1>2. /\ scanJob[s].at \in Nat /\ NextRow(s) = scanJob[s].at + 1 /\ NextRow(s) \in 0..MaxRows
      /\ AfterRow(s) \in {"progress", "artist"}
  BY NextRowFollows, RowBounds DEF Rows
<1>3. /\ scan \in Scan /\ scan.stage = AfterRow(s) /\ scan.at = scanJob[s].at + 1
      /\ scan.page = scanJob[s].page \ {NextRow(s)}
      /\ scan.imported = imported /\ scan.skipped = skipped
  BY <1>1, <1>2 DEF Scan, ScanStages, DoneRow
<1>4. AfterRow(s) = "artist" => RowsLeft(scan)
  <2> SUFFICES ASSUME AfterRow(s) = "artist" PROVE RowsLeft(scan)
    OBVIOUS
  <2>1. PICK last \in Rows : /\ scanJob[s].at + 1 < last
                             /\ scanJob[s].page \ {NextRow(s)} = (scanJob[s].at + 2)..last
    BY NextRowFollows
  <2>2. scan.at + 1 = scanJob[s].at + 2
    BY <1>2, <1>3
  <2> HIDE DEF scan
  <2> QED BY <1>3, <2>1, <2>2 DEF RowsLeft
<1> HIDE DEF scan
<1>5. ScanSound(scan, lib, lnk)
  BY <1>2, <1>3, <1>4 DEF ScanSound
<1> QED BY <1>5 DEF scan

LEMMA RowsKeep ==
  ASSUME ScansInv, NEW s \in Scans, SkipRow(s) \/ UpsertRow(s) \/ LinkRow(s)
  PROVE  ScansInv'
<1>1. /\ scanJob[s].stage \in {"artist", "link"} /\ UNCHANGED <<scanRest, import>>
      /\ scanJob[s].stage \in Underway
  BY DEF SkipRow, UpsertRow, LinkRow, ScanAt, Underway
<1>2. /\ ScanSound(scanJob[s], library, linked) /\ scanJob[s] \in Scan
      /\ Counted(scanJob[s].imported, scanJob[s].skipped, scanJob[s].at, library \cap linked)
      /\ library \subseteq Artists /\ linked \subseteq Artists
      /\ scanJob[s].imported \in Nat /\ scanJob[s].skipped \in Nat
  BY <1>1 DEF ScansInv, ScanTypes, ScanSound, Scan
<1>3. /\ scanJob[s].at \in 0..MaxRows /\ scanJob[s].at < MaxRows
      /\ NextRow(s) = scanJob[s].at + 1 /\ NextRow(s) \in Rows
  BY <1>1, NextRowFollows
<1>4. /\ import' \in Import /\ upload' \in {"none", "stored", "refused"}
      /\ importErrors' \in 0..MaxImportErrors /\ importCrashes' \in 0..MaxImportCrashes
  BY <1>1 DEF ScansInv, ScanTypes, scanRest, boundVars
<1>5. ASSUME library \subseteq library', linked \subseteq linked'
      PROVE  Counted(import'.imported, import'.skipped, import'.cursor, library' \cap linked')
  BY <1>1, <1>5 DEF ScansInv, Counted
<1>6. CASE SkipRow(s)
  <2> DEFINE scan == DoneRow(s, scanJob[s].imported, scanJob[s].skipped + 1)
  <2>1. library' = library /\ linked' = linked /\ NextRow(s) \in EmptyRows
    BY <1>6 DEF SkipRow, HasId
  <2>2. Counted(scanJob[s].imported, scanJob[s].skipped + 1, scanJob[s].at + 1,
                library \cap linked)
    BY <1>2, <1>3, <2>1, CountNext DEF Counted
  <2>3. ScanSound(scan, library, linked)
    <3>1. scanJob[s].skipped + 1 \in Nat
      BY <1>2
    <3> QED BY <1>1, <1>2, <2>2, <3>1, RowDone
  <2>4. scanJob' = [scanJob EXCEPT ![s] = scan]
    <3>1. [scanJob[s] EXCEPT !.stage = AfterRow(s), !.at = NextRow(s),
                             !.page = @ \ {NextRow(s)}, !.skipped = @ + 1] = scan
      BY <1>2 DEF Scan, DoneRow
    <3> HIDE DEF scan
    <3> QED BY <1>6, <3>1 DEF SkipRow
  <2> HIDE DEF scan
  <2> QED BY <1>2, <1>4, <1>5, <2>1, <2>3, <2>4, OneScan
<1>7. CASE UpsertRow(s)
  <2> DEFINE scan == [scanJob[s] EXCEPT !.stage = "link"]
  <2>1. /\ library' = library \cup {NextRow(s)} /\ linked' = linked /\ NextRow(s) \notin EmptyRows
        /\ scanJob' = [scanJob EXCEPT ![s] = scan] /\ scanJob[s].stage = "artist"
    BY <1>7 DEF UpsertRow, HasId, ScanTo, ScanAt
  <2>2. /\ scan \in Scan /\ scan.stage = "link" /\ scan.at = scanJob[s].at
        /\ scan.page = scanJob[s].page /\ scan.imported = scanJob[s].imported
        /\ scan.skipped = scanJob[s].skipped
    BY <1>2 DEF Scan, ScanStages
  <2>3. NextRow(s) \in Artists
    BY <1>3, <2>1 DEF Artists
  <2> HIDE DEF scan
  <2>4. ScanSound(scan, library', linked')
    BY <1>1, <1>2, <1>3, <2>1, <2>2, <2>3 DEF ScanSound, Counted, RowsLeft
  <2> QED BY <1>2, <1>4, <1>5, <2>1, <2>3, <2>4, OneScan
<1>8. CASE LinkRow(s)
  <2> DEFINE scan == DoneRow(s, scanJob[s].imported + 1, scanJob[s].skipped)
  <2>1. /\ library' = library /\ linked' = linked \cup {NextRow(s)}
        /\ scanJob[s].stage = "link"
    BY <1>8 DEF LinkRow, ScanAt
  <2>2. NextRow(s) \in library /\ NextRow(s) \in Artists /\ NextRow(s) \notin EmptyRows
    BY <1>2, <1>3, <2>1 DEF ScanSound, Artists
  <2>3. Counted(scanJob[s].imported + 1, scanJob[s].skipped, scanJob[s].at + 1,
                library' \cap linked')
    BY <1>2, <1>3, <2>1, <2>2, CountNext DEF Counted
  <2>4. ScanSound(scan, library', linked')
    <3>1. PICK lib, lnk : lib = library' /\ lnk = linked'
      OBVIOUS
    <3>2. Counted(scanJob[s].imported + 1, scanJob[s].skipped, scanJob[s].at + 1, lib \cap lnk)
      BY <2>3, <3>1
    <3>3. ScanSound(scan, lib, lnk)
      <4>1. scanJob[s].imported + 1 \in Nat
        BY <1>2
      <4> QED BY <1>1, <1>2, <3>2, <4>1, RowDone
    <3> QED BY <3>1, <3>3
  <2>5. scanJob' = [scanJob EXCEPT ![s] = scan]
    <3>1. [scanJob[s] EXCEPT !.stage = AfterRow(s), !.at = NextRow(s),
                             !.page = @ \ {NextRow(s)}, !.imported = @ + 1] = scan
      BY <1>2 DEF Scan, DoneRow
    <3> HIDE DEF scan
    <3> QED BY <1>8, <3>1 DEF LinkRow
  <2> HIDE DEF scan
  <2> QED BY <1>2, <1>4, <1>5, <2>1, <2>2, <2>4, <2>5, OneScan
<1> QED BY <1>6, <1>7, <1>8

\* A scan that starts, reads the import, reports, reads a page, ends or fails.
LEMMA StagesKeep ==
  ASSUME ScansInv, NEW s \in Scans,
         \/ RepeatScan(s) \/ StartScan(s) \/ ReadImport(s) \/ ReportProgress(s)
         \/ ReadRows(s) \/ FinishScan(s) \/ FailScan(s)
  PROVE  ScansInv'
<1>1. /\ UNCHANGED <<library, linked, upload>>
      /\ importErrors' \in 0..MaxImportErrors /\ importCrashes' \in 0..MaxImportCrashes
  BY LegacyImportAssumption
  DEF RepeatScan, StartScan, ReadImport, ReportProgress, ReadRows, FinishScan, FailScan,
      scanRest, boundVars, ScansInv, ScanTypes
<1>2. /\ ScanSound(scanJob[s], library, linked) /\ scanJob[s] \in Scan /\ import \in Import
      /\ Counted(import.imported, import.skipped, import.cursor, library \cap linked)
      /\ library \subseteq Artists /\ linked \subseteq Artists
      /\ upload \in {"none", "stored", "refused"}
  BY DEF ScansInv, ScanTypes, ScanSound
<1>3. ASSUME NEW scan, scanJob' = [scanJob EXCEPT ![s] = scan], ScanSound(scan, library, linked),
             import' = import \/ (scanJob[s].stage \in Underway
                                  /\ \E status \in {"running", "completed"} :
                                       import' = Progress(s, status))
      PROVE  ScansInv'
  <2>1. /\ import' \in Import
        /\ Counted(import'.imported, import'.skipped, import'.cursor, library \cap linked)
    BY <1>2, <1>3 DEF Progress, Import, ImportStatuses, ScanSound, Scan
  <2> QED BY <1>1, <1>2, <1>3, <2>1, OneScan
<1>4. ASSUME NEW stage \in {"queued", "reading", "failed"}, ScanTo(s, stage), import' = import
      PROVE  ScansInv'
  <2> DEFINE scan == [scanJob[s] EXCEPT !.stage = stage]
  <2>1. scan \in Scan /\ scan.stage = stage
    BY <1>2 DEF Scan, ScanStages
  <2> HIDE DEF scan
  <2>2. ScanSound(scan, library, linked)
    BY <2>1 DEF ScanSound, Underway
  <2> QED BY <1>3, <1>4, <2>2 DEF ScanTo, scan
<1>5. CASE RepeatScan(s) \/ StartScan(s) \/ FailScan(s)
  BY <1>4, <1>5 DEF RepeatScan, StartScan, FailScan, ScanTo
<1>6. CASE ReadImport(s)
  <2>1. Resume(s) \in Scan /\ Resume(s).stage = "starting" /\ Resume(s).at = import.cursor
        /\ Resume(s).imported = import.imported /\ Resume(s).skipped = import.skipped
    BY <1>2 DEF Resume, NoScan, Scan, ScanStages, Import
  <2>2. ScanSound(Resume(s), library, linked)
    BY <1>2, <2>1 DEF ScanSound
  <2> QED BY <1>3, <1>6, <2>2 DEF ReadImport
<1>7. CASE ReportProgress(s)
  <2> DEFINE scan == [scanJob[s] EXCEPT !.stage = "paging"]
  <2>1. scan \in Scan /\ scan.stage = "paging" /\ scan.at = scanJob[s].at
        /\ scan.imported = scanJob[s].imported /\ scan.skipped = scanJob[s].skipped
    BY <1>2 DEF Scan, ScanStages
  <2>2. scanJob[s].stage \in Underway /\ import' = Progress(s, "running")
        /\ scanJob' = [scanJob EXCEPT ![s] = scan]
    BY <1>7 DEF ReportProgress, ScanAt, Underway, ScanTo
  <2> HIDE DEF scan
  <2>3. ScanSound(scan, library, linked)
    BY <1>2, <2>1, <2>2 DEF ScanSound, Underway
  <2> QED BY <1>3, <2>2, <2>3
<1>8. CASE ReadRows(s)
  <2> DEFINE page == PageAfter(scanJob[s].at)
             scan == [scanJob[s] EXCEPT !.page = page,
                                        !.stage = IF page = {} THEN "finishing" ELSE "artist"]
             last == IF scanJob[s].at + PageSize < MaxRows THEN scanJob[s].at + PageSize
                     ELSE MaxRows
  <2>1. /\ scanJob' = [scanJob EXCEPT ![s] = scan] /\ import' = import
        /\ scanJob[s].stage = "paging"
    BY <1>8 DEF ReadRows, scanRest, ScanAt
  <2>2. scanJob[s].at \in Nat /\ scanJob[s].at <= MaxRows /\ PageSize \in Nat /\ PageSize >= 1
        /\ MaxRows \in Nat /\ MaxRows >= 1
    BY <1>2, RowBounds DEF Scan
  <2>3. page = (scanJob[s].at + 1)..last /\ last \in Rows
    BY <2>2 DEF PageAfter, Rows
  <2>4. page \subseteq Rows
    BY DEF PageAfter
  <2>5. page = {} => scanJob[s].at = MaxRows
    <3>1. scanJob[s].at < MaxRows => scanJob[s].at + 1 \in (scanJob[s].at + 1)..last
      BY <2>2, <2>3
    <3> HIDE DEF page, last
    <3> QED BY <2>2, <2>3, <3>1
  <2>6. page # {} => scanJob[s].at < last
    BY <2>2, <2>3
  <2> HIDE DEF page, last
  <2>7. /\ scan \in Scan /\ scan.at = scanJob[s].at /\ scan.page = page
        /\ scan.stage = (IF page = {} THEN "finishing" ELSE "artist")
        /\ scan.imported = scanJob[s].imported /\ scan.skipped = scanJob[s].skipped
    BY <1>2, <2>4 DEF Scan, ScanStages
  <2> HIDE DEF scan
  <2>8. Counted(scan.imported, scan.skipped, scan.at, library \cap linked)
    BY <1>2, <2>1, <2>7 DEF ScanSound, Underway
  <2>9. scan.stage = "artist" => RowsLeft(scan)
    BY <2>3, <2>6, <2>7 DEF RowsLeft
  <2>10. ScanSound(scan, library, linked)
    BY <2>5, <2>7, <2>8, <2>9 DEF ScanSound
  <2> QED BY <1>3, <2>1, <2>10
<1>9. CASE FinishScan(s)
  <2> DEFINE scan == [scanJob[s] EXCEPT !.stage = "completed"]
  <2>1. scan \in Scan /\ scan.stage = "completed"
    BY <1>2 DEF Scan, ScanStages
  <2>2. scanJob[s].stage \in Underway /\ import' = Progress(s, "completed")
        /\ scanJob' = [scanJob EXCEPT ![s] = scan] /\ scanJob[s].stage = "finishing"
    BY <1>9 DEF FinishScan, ScanAt, Underway, ScanTo
  <2>3. Artists \subseteq linked
    BY <1>2, <2>2, RowBounds DEF ScanSound, Counted
  <2> HIDE DEF scan
  <2>4. ScanSound(scan, library, linked)
    BY <2>1, <2>3 DEF ScanSound, Underway
  <2> QED BY <1>3, <2>2, <2>4
<1> QED BY <1>5, <1>6, <1>7, <1>8, <1>9

\* The upload, the first scan of the workflow, and a crash.
LEMMA AroundScansKeep ==
  ASSUME ScansInv, Upload \/ CreateImport \/ CreateRun \/ CrashImport
  PROVE  ScansInv'
<1>1. FirstScan \in Scans /\ MaxImportCrashes \in Nat /\ NoScan \in Scan /\ ScanTypes
  BY LegacyImportAssumption, NothingCounted DEF NoScan, Scan, ScanStages, ScansInv
<1>2. CASE Upload \/ CreateImport
  <2>1. UNCHANGED <<library, linked, scanJob, importErrors, importCrashes>>
    BY <1>2 DEF Upload, CreateImport, scanVars, boundVars
  <2>2. import' \in Import /\ import'.imported = import.imported
        /\ import'.skipped = import.skipped /\ import'.cursor = import.cursor
    BY <1>1, <1>2 DEF Upload, CreateImport, scanVars, ScanTypes, Import, ImportStatuses
  <2>3. upload' \in {"none", "stored", "refused"}
    BY <1>1, <1>2 DEF Upload, CreateImport, ScanTypes
  <2> QED BY <1>1, <2>1, <2>2, <2>3 DEF ScansInv, ScanTypes
<1>3. ASSUME NEW scan \in Scan, scan.stage = "queued" PROVE ScanSound(scan, library, linked)
  BY <1>3 DEF ScanSound, Underway
<1>4. CASE CreateRun
  <2> DEFINE scan == [scanJob[FirstScan] EXCEPT !.stage = "queued"]
  <2>1. scan \in Scan /\ scan.stage = "queued" /\ scanJob' = [scanJob EXCEPT ![FirstScan] = scan]
        /\ UNCHANGED <<upload, import, library, linked, boundVars>>
    BY <1>1, <1>4 DEF CreateRun, Scan, ScanStages, ScanTypes
  <2> HIDE DEF scan
  <2> QED BY <1>1, <1>3, <2>1, OneScan DEF ScansInv, ScanTypes, boundVars
<1>5. CASE CrashImport
  <2>1. /\ UNCHANGED <<upload, import, library, linked, importErrors>>
        /\ importCrashes < MaxImportCrashes /\ importCrashes' = importCrashes + 1
        /\ scanJob' = [s \in Scans |->
             IF scanJob[s].stage \in {"absent", "completed", "failed"} THEN scanJob[s]
             ELSE [NoScan EXCEPT !.stage = "queued"]]
    BY <1>5 DEF CrashImport
  <2>2. importCrashes' \in 0..MaxImportCrashes
    BY <1>1, <2>1 DEF ScanTypes
  <2>3. ASSUME NEW s \in Scans
        PROVE  scanJob'[s] \in Scan /\ ScanSound(scanJob'[s], library, linked)
    <3> DEFINE scan == [NoScan EXCEPT !.stage = "queued"]
    <3>1. scan \in Scan /\ scan.stage = "queued"
      BY <1>1 DEF Scan, ScanStages, NoScan
    <3>2. scanJob'[s] = scanJob[s] \/ scanJob'[s] = scan
      BY <2>1
    <3> HIDE DEF scan
    <3> QED BY <1>3, <3>1, <3>2 DEF ScansInv, ScanSound
  <2>4. scanJob' \in [Scans -> Scan]
    BY <2>1, <2>3
  <2> QED BY <1>1, <2>1, <2>2, <2>3, <2>4 DEF ScansInv, ScanTypes
<1> QED BY <1>2, <1>4, <1>5

\* The hydration does not touch what the scans write.
LEMMA HydrationIsApart ==
  ASSUME ScansInv, NEW h \in Hydrations,
         \/ HydrateImport(h) \/ HydrationStep(h) \/ CutHydration(h)
         \/ \E source \in Hydrations : RetryHydration(h, source)
  PROVE  ScansInv'
<1>1. UNCHANGED <<upload, scanVars, importCrashes>> /\ importErrors' \in 0..MaxImportErrors
  <2>1. CASE CutHydration(h)
    BY <2>1, LegacyImportAssumption DEF CutHydration, ScansInv, ScanTypes
  <2>2. CASE UNCHANGED hydrationRest
    BY <2>2 DEF hydrationRest, boundVars, ScansInv, ScanTypes
  <2> QED
    BY <2>1, <2>2
    DEF HydrateImport, HydrationStep, RetryHydration, StartHydration, HydrateArtist,
        RecordResult, FinishHydration
<1> QED BY <1>1 DEF ScansInv, ScanTypes, scanVars

LEMMA ScansNext == ScansInv /\ [ImportNext]_importVars => ScansInv'
<1>1. ScansInv /\ ImportNext => ScansInv'
  BY RowsKeep, StagesKeep, AroundScansKeep, HydrationIsApart DEF ImportNext, ScanStep
<1>2. ScansInv /\ UNCHANGED importVars => ScansInv'
  BY DEF importVars, ScansInv, ScanTypes
<1> QED BY <1>1, <1>2

LEMMA ScansInvariance == ImportSpec => []ScansInv
  BY ScansStart, ScansNext, PTL DEF ImportSpec

\* Whatever scans are cut off and repeated, even at once, the stored cursor and
\* the stored counters agree, and every artist up to the cursor is in the
\* library and linked.
THEOREM CursorIsExact == ImportSpec => []CursorCountsRows
<1>1. ScansInv => CursorCountsRows
  BY DEF ScansInv, Counted, CursorCountsRows, RowsUpTo, EmptyUpTo
<1> QED BY <1>1, ScansInvariance, PTL

-----------------------------------------------------------------------------
(* LegacyImport: what the hydration jobs do *)

\* What a job has still to report: targets it has not reached, the failures its
\* events name, and the one it is about to write.
Outstanding(job, failed) ==
  job.todo \cup failed \cup (IF job.outcome = "failed" THEN {job.current} ELSE {})

\* Every target of a job is hydrated, by whichever job, or can still be named.
JobSound(job, failed, done) ==
  /\ job \in Hydration
  /\ job.targets \subseteq Artists /\ job.todo \subseteq Artists /\ failed \subseteq Artists
  /\ job.outcome # "none" => job.current \in Artists
  /\ job.status = "running" => job.targets \subseteq done \cup Outstanding(job, failed)
  /\ job.status \in {"completed", "failed"} /\ ~job.cut => job.targets \subseteq done \cup failed

HydrationsInv ==
  /\ hydration \in [Hydrations -> Hydration] /\ results \in [Hydrations -> SUBSET Artists]
  /\ hydrated \subseteq Artists
  /\ \A h \in Hydrations : JobSound(hydration[h], results[h], hydrated)

\* More that is hydrated does no harm.
LEMMA JobSoundLater ==
  ASSUME NEW done, NEW done2, done \subseteq done2, NEW failed, NEW job,
         JobSound(job, failed, done)
  PROVE  JobSound(job, failed, done2)
  BY DEF JobSound

\* One job goes on.
LEMMA OneHydration ==
  ASSUME HydrationsInv, NEW h \in Hydrations, NEW job, NEW failed,
         hydration' = [hydration EXCEPT ![h] = job], results' = [results EXCEPT ![h] = failed],
         hydrated \subseteq hydrated', hydrated' \subseteq Artists,
         JobSound(job, failed, hydrated')
  PROVE  HydrationsInv'
<1>1. PICK done : done = hydrated'
  OBVIOUS
<1>2. /\ job \in Hydration /\ failed \in SUBSET Artists
      /\ hydration \in [Hydrations -> Hydration] /\ results \in [Hydrations -> SUBSET Artists]
  BY DEF JobSound, HydrationsInv
<1>3. ASSUME NEW g \in Hydrations PROVE JobSound(hydration'[g], results'[g], hydrated')
  <2>1. CASE g = h
    BY <1>2, <2>1
  <2>2. CASE g # h
    <3>1. /\ hydration'[g] = hydration[g] /\ results'[g] = results[g]
          /\ JobSound(hydration[g], results[g], hydrated)
      BY <1>2, <2>2 DEF HydrationsInv
    <3>2. JobSound(hydration[g], results[g], done)
      BY <1>1, <3>1, JobSoundLater
    <3> QED BY <1>1, <3>1, <3>2
  <2> QED BY <2>1, <2>2
<1> QED BY <1>2, <1>3 DEF HydrationsInv

LEMMA HydrationsStart == ImportInit => HydrationsInv
<1> SUFFICES ASSUME ImportInit PROVE HydrationsInv
  OBVIOUS
<1>1. NoHydration \in Hydration
  BY RowBounds DEF NoHydration, Hydration, HydrationStatuses, Outcomes
<1>2. JobSound(NoHydration, {}, hydrated)
  BY <1>1 DEF JobSound, NoHydration
<1> QED BY <1>1, <1>2 DEF ImportInit, HydrationsInv

\* Jobs are created for artists of the file only.
LEMMA NewJobsKeep ==
  ASSUME ScansInv, HydrationsInv, NEW h \in Hydrations,
         HydrateImport(h) \/ \E source \in Hydrations : RetryHydration(h, source)
  PROVE  HydrationsInv'
<1>1. PICK targets \in SUBSET Artists : NewHydration(h, targets)
  BY DEF HydrateImport, RetryHydration, RetryTargets, ScansInv, ScanTypes, HydrationsInv, JobSound
<1> DEFINE job == [hydration[h] EXCEPT !.status = "queued", !.targets = targets]
<1>2. hydration[h] \in Hydration /\ hydration[h] = NoHydration /\ Artists \subseteq Rows
  BY <1>1 DEF NewHydration, HydrationsInv, Artists
<1>3. /\ job \in Hydration /\ job.status = "queued" /\ job.targets = targets /\ job.todo = {}
      /\ job.outcome = "none"
  <2>1. NoHydration.todo = {} /\ NoHydration.outcome = "none" /\ targets \in SUBSET Rows
    BY <1>2 DEF NoHydration
  <2> QED BY <1>2, <2>1 DEF Hydration, HydrationStatuses
<1>4. /\ hydration' = [hydration EXCEPT ![h] = job] /\ UNCHANGED <<results, hydrated>>
  BY <1>1 DEF NewHydration, HydrateImport, RetryHydration
<1> HIDE DEF job
<1>5. JobSound(job, results[h], hydrated)
  BY <1>1, <1>3 DEF JobSound, HydrationsInv
<1>6. results' = [results EXCEPT ![h] = results[h]]
  BY <1>4 DEF HydrationsInv
<1>7. hydrated \subseteq Artists
  BY DEF HydrationsInv
<1> QED BY <1>4, <1>5, <1>6, <1>7, OneHydration

LEMMA HydrationsKeep ==
  ASSUME HydrationsInv, NEW h \in Hydrations, HydrationStep(h) \/ CutHydration(h)
  PROVE  HydrationsInv'
<1>1. /\ hydration[h] \in Hydration /\ JobSound(hydration[h], results[h], hydrated)
      /\ hydrated \subseteq Artists /\ results = [results EXCEPT ![h] = results[h]]
      /\ Artists \subseteq Rows /\ 0 \in 0..MaxRows /\ Rows \subseteq 0..MaxRows
      /\ results[h] \subseteq Artists
  BY RowBounds DEF HydrationsInv, Artists, Rows
<1>2. CASE StartHydration(h)
  <2> DEFINE job == [hydration[h] EXCEPT !.status = "running", !.todo = hydration[h].targets]
  <2>1. /\ job \in Hydration /\ job.status = "running" /\ job.targets = hydration[h].targets
        /\ job.todo = hydration[h].targets /\ job.outcome = hydration[h].outcome
        /\ job.current = hydration[h].current
    BY <1>1 DEF Hydration, HydrationStatuses
  <2>2. hydration' = [hydration EXCEPT ![h] = job] /\ UNCHANGED <<results, hydrated>>
    BY <1>2 DEF StartHydration
  <2> HIDE DEF job
  <2>3. JobSound(job, results[h], hydrated)
    BY <1>1, <2>1 DEF JobSound, Outstanding
  <2> QED BY <1>1, <2>2, <2>3, OneHydration
<1>3. CASE HydrateArtist(h)
  <2> DEFINE a == CHOOSE t \in hydration[h].todo : \A u \in hydration[h].todo : t <= u
  <2>1. /\ hydration[h].status = "running" /\ hydration[h].outcome = "none"
        /\ hydration[h].todo # {} /\ UNCHANGED results
    BY <1>3 DEF HydrateArtist
  <2>2. a \in hydration[h].todo
    <3>1. MaxRows \in Nat /\ hydration[h].todo \in SUBSET (0..MaxRows)
      BY <1>1, RowBounds DEF JobSound
    <3>2. \E t \in hydration[h].todo : \A u \in hydration[h].todo : t <= u
      BY <2>1, <3>1, HasEarliest
    <3> QED BY <3>2
  <2>3. PICK outcome \in {"hydrated", "failed"} :
          /\ hydration' = [hydration EXCEPT ![h].todo = @ \ {a}, ![h].current = a,
                                            ![h].outcome = outcome]
          /\ hydrated' = IF outcome = "hydrated" THEN hydrated \cup {a} ELSE hydrated
    BY <1>3 DEF HydrateArtist
  <2> HIDE DEF a
  <2> DEFINE job == [hydration[h] EXCEPT !.todo = @ \ {a}, !.current = a, !.outcome = outcome]
  <2>4. a \in Artists /\ a \in 0..MaxRows
    BY <1>1, <2>2 DEF JobSound
  <2>5. /\ job \in Hydration /\ job.status = "running" /\ job.targets = hydration[h].targets
        /\ job.todo = hydration[h].todo \ {a} /\ job.outcome = outcome /\ job.current = a
    BY <1>1, <2>1, <2>4 DEF Hydration, Outcomes
  <2>6. hydration' = [hydration EXCEPT ![h] = job]
    BY <2>3
  <2>7. hydrated \subseteq hydrated' /\ hydrated' \subseteq Artists
    BY <1>1, <2>3, <2>4
  <2> HIDE DEF job
  <2>8. JobSound(job, results[h], hydrated')
    BY <1>1, <2>1, <2>3, <2>4, <2>5 DEF JobSound, Outstanding
  <2>9. results' = [results EXCEPT ![h] = results[h]]
    BY <1>1, <2>1
  <2> QED BY <2>6, <2>7, <2>8, <2>9, OneHydration
<1>4. CASE RecordResult(h)
  <2> DEFINE more == IF hydration[h].outcome = "failed" THEN 1 ELSE 0
             job == [hydration[h] EXCEPT !.outcome = "none", !.current = 0, !.bad = @ + more]
  <2>1. /\ hydration[h].status = "running" /\ hydration[h].outcome # "none"
        /\ results' = [results EXCEPT ![h] = Failures(h)] /\ UNCHANGED hydrated
        /\ hydration' = [hydration EXCEPT ![h] = job]
    BY <1>4 DEF RecordResult
  <2>2. hydration[h].bad + more \in Nat
    BY <1>1 DEF Hydration
  <2> HIDE DEF more
  <2>3. /\ job \in Hydration /\ job.status = "running" /\ job.targets = hydration[h].targets
        /\ job.todo = hydration[h].todo /\ job.outcome = "none"
    BY <1>1, <2>1, <2>2 DEF Hydration, Outcomes
  <2> HIDE DEF job
  <2>4. JobSound(job, Failures(h), hydrated)
    BY <1>1, <2>1, <2>3 DEF JobSound, Outstanding, Failures
  <2> QED BY <1>1, <2>1, <2>4, OneHydration
<1>5. CASE FinishHydration(h)
  <2> DEFINE status == IF hydration[h].bad = 0 THEN "completed" ELSE "failed"
             job == [hydration[h] EXCEPT !.status = status]
  <2>1. /\ hydration[h].status = "running" /\ hydration[h].outcome = "none"
        /\ hydration[h].todo = {} /\ UNCHANGED <<results, hydrated>>
        /\ hydration' = [hydration EXCEPT ![h] = job]
    BY <1>5 DEF FinishHydration
  <2>2. status \in {"completed", "failed"}
    OBVIOUS
  <2> HIDE DEF status
  <2>3. /\ job \in Hydration /\ job.status = status /\ job.targets = hydration[h].targets
        /\ job.todo = {} /\ job.outcome = "none"
    BY <1>1, <2>1, <2>2 DEF Hydration, HydrationStatuses
  <2> HIDE DEF job
  <2>4. JobSound(job, results[h], hydrated)
    BY <1>1, <2>1, <2>2, <2>3 DEF JobSound, Outstanding
  <2> QED BY <1>1, <2>1, <2>4, OneHydration
<1>6. CASE CutHydration(h)
  <2> DEFINE job == [hydration[h] EXCEPT !.status = "failed", !.cut = TRUE, !.todo = {},
                                         !.current = 0, !.outcome = "none"]
  <2>1. /\ UNCHANGED <<results, hydrated>> /\ hydration' = [hydration EXCEPT ![h] = job]
    BY <1>6 DEF CutHydration
  <2>2. /\ job \in Hydration /\ job.status = "failed" /\ job.targets = hydration[h].targets
        /\ job.todo = {} /\ job.outcome = "none" /\ job.cut
    BY <1>1 DEF Hydration, HydrationStatuses, Outcomes
  <2> HIDE DEF job
  <2>3. JobSound(job, results[h], hydrated)
    BY <1>1, <2>2 DEF JobSound
  <2> QED BY <1>1, <2>1, <2>3, OneHydration
<1> QED BY <1>2, <1>3, <1>4, <1>5, <1>6 DEF HydrationStep

LEMMA HydrationsNext == ScansInv /\ HydrationsInv /\ [ImportNext]_importVars => HydrationsInv'
<1> SUFFICES ASSUME ScansInv, HydrationsInv, [ImportNext]_importVars PROVE HydrationsInv'
  OBVIOUS
<1>1. CASE CrashImport
  <2>1. /\ UNCHANGED <<results, hydrated>>
        /\ hydration' = [h \in Hydrations |->
             IF hydration[h].status = "running"
             THEN [NoHydration EXCEPT !.status = "queued", !.targets = hydration[h].targets]
             ELSE hydration[h]]
    BY <1>1 DEF CrashImport
  <2>2. ASSUME NEW h \in Hydrations
        PROVE  JobSound(hydration'[h], results[h], hydrated)
    <3> DEFINE job == [NoHydration EXCEPT !.status = "queued", !.targets = hydration[h].targets]
    <3>1. hydration[h] \in Hydration /\ JobSound(hydration[h], results[h], hydrated)
      BY DEF HydrationsInv
    <3>2. /\ job \in Hydration /\ job.status = "queued" /\ job.targets = hydration[h].targets
          /\ job.todo = {} /\ job.outcome = "none"
      <4>1. NoHydration \in Hydration /\ hydration[h].targets \in SUBSET Rows
        BY <3>1, RowBounds DEF Hydration, NoHydration, HydrationStatuses, Outcomes
      <4> QED BY <4>1 DEF Hydration, NoHydration, HydrationStatuses
    <3>3. hydration'[h] = job \/ hydration'[h] = hydration[h]
      BY <2>1
    <3> HIDE DEF job
    <3>4. JobSound(job, results[h], hydrated)
      BY <3>1, <3>2 DEF JobSound
    <3> QED BY <3>1, <3>3, <3>4
  <2>3. hydration' \in [Hydrations -> Hydration]
    BY <2>1, <2>2 DEF JobSound
  <2> QED BY <2>1, <2>2, <2>3 DEF HydrationsInv
<1>2. CASE UNCHANGED hydrationVars
  BY <1>2 DEF hydrationVars, HydrationsInv
<1>3. ASSUME NEW s \in Scans, RepeatScan(s) \/ ScanStep(s) \/ FailScan(s)
      PROVE  UNCHANGED hydrationVars
  BY <1>3
  DEF RepeatScan, ScanStep, FailScan, StartScan, ReadImport, ReportProgress, ReadRows,
      SkipRow, UpsertRow, LinkRow, FinishScan, scanRest, hydrationVars
<1>4. CASE Upload \/ CreateImport \/ CreateRun \/ UNCHANGED importVars
  BY <1>2, <1>4 DEF Upload, CreateImport, CreateRun, importVars, hydrationVars
<1> QED BY <1>1, <1>2, <1>3, <1>4, NewJobsKeep, HydrationsKeep DEF ImportNext

LEMMA HydrationsInvariance == ImportSpec => []HydrationsInv
  BY HydrationsStart, HydrationsNext, ScansInvariance, PTL DEF ImportSpec

\* However often an import is hydrated again, and whatever crashes repeat its
\* events, a retry misses no artist of a job that has reached all its targets.
THEOREM RetryIsComplete == ImportSpec => []RetryCoversFailures
<1>1. HydrationsInv => RetryCoversFailures
  BY DEF HydrationsInv, JobSound, RetryCoversFailures, RetryTargets
<1> QED BY <1>1, HydrationsInvariance, PTL


\* Targets are never changed.
LEMMA TargetsStay ==
  ASSUME HydrationsInv, [ImportNext]_importVars, NEW g \in Hydrations, hydration[g].targets # {}
  PROVE  hydration'[g].targets = hydration[g].targets
<1>1. /\ hydration \in [Hydrations -> Hydration] /\ hydration[g] # NoHydration
      /\ hydration[g] \in Hydration
  BY DEF HydrationsInv, NoHydration
<1>2. ASSUME NEW h \in Hydrations, NEW targets, NewHydration(h, targets)
      PROVE  hydration'[g].targets = hydration[g].targets
  BY <1>1, <1>2 DEF NewHydration
<1>3. ASSUME NEW h \in Hydrations, HydrationStep(h) \/ CutHydration(h)
      PROVE  hydration'[g].targets = hydration[g].targets
  <2>1. CASE g # h
    BY <1>1, <1>3, <2>1
    DEF HydrationStep, StartHydration, HydrateArtist, RecordResult, FinishHydration, CutHydration
  <2>2. CASE g = h
    <3>1. CASE StartHydration(h)
      BY <1>1, <2>2, <3>1 DEF StartHydration, Hydration
    <3>2. CASE HydrateArtist(h)
      BY <1>1, <2>2, <3>2 DEF HydrateArtist, Hydration
    <3>3. CASE RecordResult(h)
      BY <1>1, <2>2, <3>3 DEF RecordResult, Hydration
    <3>4. CASE FinishHydration(h)
      BY <1>1, <2>2, <3>4 DEF FinishHydration, Hydration
    <3>5. CASE CutHydration(h)
      BY <1>1, <2>2, <3>5 DEF CutHydration, Hydration
    <3> QED BY <1>3, <3>1, <3>2, <3>3, <3>4, <3>5 DEF HydrationStep
  <2> QED BY <2>1, <2>2
<1>4. CASE CrashImport
  BY <1>1, <1>4 DEF CrashImport, NoHydration
<1>5. CASE UNCHANGED hydration
  BY <1>5
<1>6. ASSUME NEW s \in Scans, RepeatScan(s) \/ ScanStep(s) \/ FailScan(s)
      PROVE  UNCHANGED hydration
  BY <1>6
  DEF RepeatScan, ScanStep, FailScan, StartScan, ReadImport, ReportProgress, ReadRows,
      SkipRow, UpsertRow, LinkRow, FinishScan, scanRest, hydrationVars
<1>7. CASE Upload \/ CreateImport \/ CreateRun \/ UNCHANGED importVars
  BY <1>5, <1>7 DEF Upload, CreateImport, CreateRun, importVars, hydrationVars
<1> QED
  BY <1>2, <1>3, <1>4, <1>5, <1>6, <1>7 DEF ImportNext, HydrateImport, RetryHydration

\* Only the node behind the scan creates the first job.
LEMMA FirstJob ==
  ASSUME HydrationsInv, [ImportNext]_importVars, \A g \in Hydrations : hydration[g] = NoHydration,
         NEW h \in Hydrations, hydration'[h] # NoHydration
  PROVE  HydrateImport(h)
<1>1. /\ hydration \in [Hydrations -> Hydration] /\ hydration[h] = NoHydration
      /\ \A g \in Hydrations : hydration[g].status = "absent"
  BY DEF HydrationsInv, NoHydration
<1>2. ASSUME NEW g \in Hydrations, g # h, HydrateImport(g) PROVE FALSE
  BY <1>1, <1>2 DEF HydrateImport, NewHydration
<1>3. \A g, source \in Hydrations : ~RetryHydration(g, source) /\ ~HydrationStep(g)
                                    /\ ~CutHydration(g)
  BY <1>1
  DEF RetryHydration, HydrationStep, StartHydration, HydrateArtist, RecordResult,
      FinishHydration, CutHydration
<1>4. ~CrashImport
  BY <1>1 DEF CrashImport
<1>5. hydration' # hydration
  BY <1>1
<1>6. \A s \in Scans : ~RepeatScan(s) /\ ~ScanStep(s) /\ ~FailScan(s)
  BY <1>5
  DEF RepeatScan, ScanStep, FailScan, StartScan, ReadImport, ReportProgress, ReadRows,
      SkipRow, UpsertRow, LinkRow, FinishScan, scanRest, hydrationVars
<1>7. ~Upload /\ ~CreateImport /\ ~CreateRun /\ ~UNCHANGED importVars
  BY <1>5 DEF Upload, CreateImport, CreateRun, importVars, hydrationVars
<1> QED BY <1>2, <1>3, <1>4, <1>6, <1>7 DEF ImportNext

\* A file without an artist never gets a job.
NoIdleJob == Artists = {} => \A h \in Hydrations : hydration[h] = NoHydration

LEMMA IdleNext == ScansInv /\ HydrationsInv /\ NoIdleJob /\ [ImportNext]_importVars => NoIdleJob'
<1> SUFFICES ASSUME ScansInv, HydrationsInv, NoIdleJob, [ImportNext]_importVars, Artists = {},
                    NEW h \in Hydrations, hydration'[h] # NoHydration
             PROVE  FALSE
  BY DEF NoIdleJob
<1>1. HydrateImport(h)
  BY FirstJob DEF NoIdleJob
<1>2. linked # {} /\ linked \subseteq Artists
  BY <1>1 DEF HydrateImport, NewHydration, ScansInv, ScanTypes
<1> QED BY <1>2

\* Once there is a job, one has been given every artist of the file.
LEMMA CompleteNext ==
  ScansInv /\ HydrationsInv /\ NoIdleJob /\ HydrationIsComplete /\ [ImportNext]_importVars
    => HydrationIsComplete'
<1> SUFFICES ASSUME ScansInv, HydrationsInv, NoIdleJob, HydrationIsComplete, [ImportNext]_importVars,
                    NEW h \in Hydrations, hydration'[h] # NoHydration
             PROVE  \E g \in Hydrations : hydration'[g].targets = Artists
  BY DEF HydrationIsComplete
<1>1. CASE \A g \in Hydrations : hydration[g] = NoHydration
  <2>1. HydrateImport(h)
    BY <1>1, FirstJob
  <2>2. linked = Artists
    BY <2>1, LegacyImportAssumption DEF HydrateImport, ScanAt, ScansInv, ScanSound, ScanTypes
  <2>3. hydration'[h].targets = Artists
    BY <2>1, <2>2 DEF HydrateImport, NewHydration, HydrationsInv, Hydration
  <2> QED BY <2>3
<1>2. CASE \E g \in Hydrations : hydration[g] # NoHydration
  <2>1. PICK g \in Hydrations : hydration[g].targets = Artists
    BY <1>2 DEF HydrationIsComplete
  <2>2. Artists # {}
    BY <1>2 DEF NoIdleJob
  <2> QED BY <2>1, <2>2, TargetsStay
<1> QED BY <1>1, <1>2

\* The first hydration job is given every artist of the file, whatever crashes,
\* failures and repetitions of the scan came before it.
THEOREM FirstHydrationIsComplete == ImportSpec => []HydrationIsComplete
<1>1. ImportInit => HydrationIsComplete
  BY DEF ImportInit, HydrationIsComplete
<1>2. ImportInit => NoIdleJob
  BY DEF ImportInit, NoIdleJob
<1> QED
  BY <1>1, <1>2, IdleNext, CompleteNext, ScansInvariance, HydrationsInvariance, PTL DEF ImportSpec

\* The variables of LibrarySync keep their types, whatever jobs run.
THEOREM SyncTypes == SyncSpec => []SyncTypeOK
<1>1. SyncInv => SyncTypeOK
  BY DEF SyncInv
<1> QED BY <1>1, SyncStarts, SyncNextKeeps, PTL DEF SyncSpec

\* The same of the import.
THEOREM ImportTypes == ImportSpec => []ImportTypeOK
<1>1. ScansInv /\ HydrationsInv => ImportTypeOK
  BY DEF ScansInv, ScanTypes, HydrationsInv, ImportTypeOK
<1> QED BY <1>1, ScansInvariance, HydrationsInvariance, PTL
=============================================================================
