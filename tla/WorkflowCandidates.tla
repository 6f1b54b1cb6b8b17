------------------------- MODULE WorkflowCandidates -------------------------
(***************************************************************************)
(* What a download workflow works on.  A run resolves the artists it       *)
(* targets, synchronises them, collects the artworks to handle into a      *)
(* candidate set, filters the set and creates the jobs that download it,   *)
(* one for each artist or one for the set; a trigger that also retries     *)
(* failed files collects, filters and downloads a second time.  The nodes  *)
(* run one after the other, each when the jobs of the one before have      *)
(* ended (WorkflowRunner); several runs share one library, out of which    *)
(* the user removes artists meanwhile.                                     *)
(*                                                                         *)
(* An artwork has one page; how jobs share a page is FileClaims, what a    *)
(* synchronisation writes is LibrarySync.                                  *)
(***************************************************************************)
EXTENDS Integers, FiniteSets, Sequences

CONSTANTS
  Owners,      \* artists
  MaxWorks,    \* bound: artworks, numbered by id
  OwnerOf,     \* [1..MaxWorks -> Owners]
  Tagged,      \* artworks with a tag some filters block
  Runs,        \* workflow runs at once
  Asks,        \* what their definitions ask for
  Libraries,   \* pages stored at first, subset of [1..MaxWorks -> PageStatuses]
  Uploads,     \* a synchronisation finds the artworks up to one of these
  MaxRuns,     \* bound: runs started
  MaxRemovals, \* bound: attempts to remove an artist
  MaxTroubles  \* bound: jobs that fail or are cancelled, nodes that raise

Works == 1..MaxWorks

Scopes == {"all_artists", "artists_with_tag", "artists_not_checked",
           "artists", "selected", "single_artist", "artworks", "single_artwork"}
Bulk    == {"all_artists", "artists_with_tag", "artists_not_checked"}
ByWork  == {"artworks", "single_artwork"}
Sources == {"new_since_last_download", "pending_files", "failed_files", "all_synced"}

\* artists: those it names, or with artists_with_tag those who carry the tag
\* pick: the order of the targets; max, limit and stop are 0 when not given
Ask == [scope : Scopes, artists : SUBSET Owners, works : SUBSET Works, max : Nat,
        pick : {"any", "oldest", "newest"}, skip : BOOLEAN, stale : BOOLEAN,
        actions : SUBSET {"download", "retry"}, mode : Sources, limit : Nat,
        order : {"newest_first", "oldest_first", "local_order"},
        range : SUBSET Works, blocks : BOOLEAN, stop : Nat, unit : {"artist", "set"}]

Complete == {"downloaded", "skipped"}
PageStatuses == {"absent", "remote_only", "pending", "failed", "downloaded", "skipped"}

ASSUME WorkflowCandidatesAssumption ==
  /\ IsFiniteSet(Owners) /\ MaxWorks \in Nat /\ OwnerOf \in [Works -> Owners] /\ Tagged \subseteq Works
  /\ Asks # {} /\ Asks \subseteq Ask
  /\ Libraries \subseteq [Works -> PageStatuses] /\ Uploads \subseteq Works
  /\ MaxRuns \in Nat /\ MaxRemovals \in Nat /\ MaxTroubles \in Nat

VARIABLES
  listed,    \* artists in the library
  gone,      \* those whose account is known to be unavailable
  checked,   \* rank of last_checked_at, 0 if never
  cursor,    \* latest_downloaded_artwork_id
  status,      \* status of the page of each artwork, "absent" if it is not stored
  kept,      \* workflow_candidate_artworks: artworks some candidate set holds
  runs,      \* the runs
  ahead,     \* history: for each artist, who was synchronised since he was
  missed,    \* history: artworks completed runs should have tried and have not
  refused,   \* history: artists whose removal failed
  started, removals, troubles   \* history

candVars == <<listed, gone, checked, cursor, status, kept, runs, ahead, missed, refused,
              started, removals, troubles>>
shelf == <<listed, gone, checked, cursor, status>>
counts  == <<started, removals, troubles>>

OwnersOf(S) == {OwnerOf[w] : w \in S}
Least(i, j) == IF i < j THEN i ELSE j

\* A job is the set of artists it works for, empty for the resolver.
\* ids, cand, source: what the nodes hand on; open, begun, ill: jobs of the node
\* that have not ended, have chosen their pages, have failed; left: pages chosen
\* wanted, taken: history, new works collected and works seen complete since
NoAsk == CHOOSE a \in Asks : TRUE
FreeRun == [phase |-> "free", ask |-> NoAsk, step |-> 1, ids |-> {}, cand |-> {},
            source |-> "all_synced", open |-> {}, begun |-> {}, ill |-> {}, left |-> {},
            wanted |-> {}, taken |-> {}]
RunPhases == {"free", "node", "jobs", "completed", "failed", "retry"}

CandInit ==
  /\ status \in Libraries
  /\ listed = {OwnerOf[w] : w \in {x \in Works : status[x] # "absent"}}
  /\ gone = {} /\ checked = [a \in Owners |-> 0] /\ cursor = [a \in Owners |-> 0]
  /\ kept = {} /\ runs = [r \in Runs |-> FreeRun]
  /\ ahead = [a \in Owners |-> {}] /\ missed = {} /\ refused = {}
  /\ started = 0 /\ removals = 0 /\ troubles = 0

-----------------------------------------------------------------------------
(* The compiled definition: its nodes one after the other. *)

Nodes(ask) ==
  <<"target", "sync">>
  \o (IF "download" \in ask.actions THEN <<"collect", "filter", "act">> ELSE <<>>)
  \o (IF "retry" \in ask.actions THEN <<"recollect", "filter", "act">> ELSE <<>>)

Node(r) == Nodes(runs[r].ask)[runs[r].step]
InNode(r, kind) == runs[r].phase = "node" /\ Node(r) = kind

\* run r with the next node to execute
After(run) == IF run.step = Len(Nodes(run.ask)) THEN [run EXCEPT !.phase = "completed"]
              ELSE [run EXCEPT !.phase = "node", !.step = @ + 1, !.ill = {}]
WithJobs(run, jobs) ==
  IF jobs = {} THEN After(run)
  ELSE [run EXCEPT !.phase = "jobs", !.open = jobs, !.begun = {}, !.left = {}]
\* a completed run is forgotten but for what it has not delivered
SetRun(r, run) ==
  IF run.phase = "completed"
  THEN runs' = [runs EXCEPT ![r] = FreeRun] /\ missed' = missed \cup (run.wanted \ run.taken)
  ELSE runs' = [runs EXCEPT ![r] = run] /\ missed' = missed

StartRun(r, ask) ==
  /\ runs[r].phase \in {"free", "failed"} /\ started < MaxRuns
  /\ started' = started + 1
  /\ SetRun(r, [FreeRun EXCEPT !.phase = "node", !.ask = ask])
  /\ UNCHANGED <<shelf, kept, ahead, refused, removals, troubles>>

\* run r when its job j has ended, well or ill: the job that ends last goes on
\* to the next node, unless one has ended ill
Ended(run, j, ill) ==
  LET rest == [run EXCEPT !.open = @ \ {j}, !.ill = IF ill THEN @ \cup {j} ELSE @,
                          !.left = {w \in @ : OwnerOf[w] \notin j}]
  IN IF rest.open # {} THEN rest
     ELSE IF rest.ill # {} THEN [rest EXCEPT !.phase = "failed"]
     ELSE IF run.phase = "retry" THEN FreeRun
     ELSE After(rest)

-----------------------------------------------------------------------------
(* artist_target and sync_metadata *)

\* the artists the scope names, available and not checked lately
Candidates(ask, old) ==
  LET named == CASE ask.scope \in {"all_artists", "artists_not_checked"} -> listed
                 [] ask.scope = "artists_with_tag" -> ask.artists \cap listed
                 [] ask.scope \in ByWork -> {}
                 [] OTHER -> ask.artists
  IN {a \in named : (ask.skip => a \notin gone) /\ (ask.stale => checked[a] <= old)}

BeforeReversed(ask, a, b) ==
  CASE ask.pick = "oldest" -> checked[a] >= checked[b]
    [] ask.pick = "newest" -> checked[a] <= checked[b]
    [] OTHER -> TRUE
Before(ask, a, b) ==
  CASE ask.pick = "oldest" -> checked[a] <= checked[b]
    [] ask.pick = "newest" -> checked[a] >= checked[b]
    [] OTHER -> TRUE

CutAt(max, n) == IF max = 0 THEN n ELSE Least(max, n)

\* S are the first of the candidates
Chosen(ask, from, S) ==
  /\ S \subseteq from /\ Cardinality(S) = CutAt(ask.max, Cardinality(from))
  /\ \A a \in S, b \in from \ S : Before(ask, a, b)

\* old: the days of artists_not_checked, as a rank
Target(r, old, S) ==
  LET ask == runs[r].ask
      from == Candidates(ask, old)
  IN
  /\ InNode(r, "target") /\ Chosen(ask, from, S)
  /\ SetRun(r, WithJobs([runs[r] EXCEPT !.ids = S],
                        IF S = {} /\ ask.works = {} THEN {} ELSE {{}}))
  /\ UNCHANGED <<shelf, kept, ahead, refused, counts>>

\* the resolver adds the artists of the artworks as far as the limit allows
Resolve(r, S) ==
  LET run == runs[r]
      found == OwnersOf(run.ask.works) \ run.ids
      room == CutAt(run.ask.max, Cardinality(run.ids) + Cardinality(found))
  IN
  /\ run.phase = "jobs" /\ Node(r) = "target" /\ {} \in run.open
  /\ S \subseteq found /\ Cardinality(S) = room - Cardinality(run.ids)
  /\ SetRun(r, Ended([run EXCEPT !.ids = @ \cup S], {}, FALSE))
  /\ UNCHANGED <<shelf, kept, ahead, refused, counts>>

SyncNode(r) ==
  /\ InNode(r, "sync")
  /\ SetRun(r, WithJobs(runs[r], {{a} : a \in runs[r].ids}))
  /\ UNCHANGED <<shelf, kept, ahead, refused, counts>>

\* the artist is the one checked last
Ranked(a) ==
  [b \in Owners |-> IF b = a THEN Cardinality(Owners)
                    ELSE IF checked[b] > checked[a] THEN checked[b] - 1 ELSE checked[b]]

\* the artist has not been checked, and those before him move up
Unranked(a) ==
  [b \in Owners |-> IF b = a THEN 0
                    ELSE IF checked[b] \in 1..checked[a] THEN checked[b] + 1 ELSE checked[b]]

\* all artworks he has published, up to id upTo; an unavailable artist has none
SyncArtist(r, a, available, upTo) ==
  /\ runs[r].phase = "jobs" /\ Node(r) = "sync" /\ {a} \in runs[r].open
  /\ a \in listed \/ available
  /\ listed' = listed \cup {a}
  /\ gone' = IF available THEN gone \ {a} ELSE gone \cup {a}
  /\ checked' = Ranked(a)
  /\ status' = [w \in Works |->
       IF available /\ OwnerOf[w] = a /\ w <= upTo /\ status[w] = "absent"
       THEN "remote_only" ELSE status[w]]
  /\ ahead' = [b \in Owners |-> IF b = a THEN {} ELSE ahead[b] \cup {a}]
  /\ SetRun(r, Ended(runs[r], {a}, FALSE))
  /\ UNCHANGED <<cursor, kept, refused, counts>>

-----------------------------------------------------------------------------
(* collect_artworks, filter_artworks and execute_actions *)

Collects(source, w) ==
  CASE source = "new_since_last_download" -> w > cursor[OwnerOf[w]] /\ status[w] \notin Complete
    [] source = "pending_files" -> status[w] \in {"pending", "remote_only"}
    [] source = "failed_files"  -> status[w] = "failed"
    [] OTHER -> TRUE

\* artwork_ids restricts the set only when the scope is artworks
Restricted(run, w) == run.ask.scope \in ByWork => w \in run.ask.works

Source(r) == IF Node(r) = "recollect" THEN "failed_files" ELSE runs[r].ask.mode

\* candidate_sort_expression; discovered_at may be in any order
Earlier(order, v, w) == CASE order = "newest_first" -> v > w
                          [] order = "oldest_first" -> v < w
                          [] OTHER -> TRUE

Eligible(r) ==
  {w \in Works : /\ status[w] # "absent" /\ OwnerOf[w] \in runs[r].ids \cap listed
                 /\ Restricted(runs[r], w) /\ w \in runs[r].ask.range
                 /\ Collects(Source(r), w)}

\* history: all that a run for new works must deliver
NewWorks(r) ==
  LET ask == runs[r].ask
  IN IF Source(r) # "new_since_last_download" \/ ask.limit > 0 \/ ask.stop > 0 THEN {}
     ELSE {w \in Works : /\ OwnerOf[w] \in runs[r].ids \cap listed
                         /\ ask.scope \in ByWork => w \in ask.works
                         /\ w \in ask.range \ (IF ask.blocks THEN Tagged ELSE {})
                         /\ w > cursor[OwnerOf[w]]
                         /\ status[w] \in {"remote_only", "pending", "failed"}}

Collect(r, S) ==
  /\ InNode(r, "collect") \/ InNode(r, "recollect")
  /\ S \subseteq Eligible(r)
  /\ Cardinality(S) = CutAt(runs[r].ask.limit, Cardinality(Eligible(r)))
  /\ \A v \in S, w \in Eligible(r) \ S : Earlier(runs[r].ask.order, v, w)
  /\ kept' = kept \cup S
  /\ SetRun(r, [After(runs[r]) EXCEPT !.cand = S, !.source = Source(r),
                                      !.wanted = @ \cup NewWorks(r)])
  /\ UNCHANGED <<shelf, ahead, refused, counts>>

\* the rule that stops a run counts the set before the other filters
Filtered(run) == IF run.ask.stop > 0 /\ Cardinality(run.cand) > run.ask.stop THEN {}
                 ELSE run.cand \ (IF run.ask.blocks THEN Tagged ELSE {})

Filter(r) ==
  /\ InNode(r, "filter")
  /\ SetRun(r, [After(runs[r]) EXCEPT !.cand = Filtered(runs[r])])
  /\ UNCHANGED <<shelf, kept, ahead, refused, counts>>

\* no job when no artist was targeted; a job for a set may have nothing to do
JobsFor(run) ==
  IF run.ids = {} THEN {}
  ELSE IF run.ask.unit = "set" THEN {OwnersOf(run.cand)}
  ELSE {{a} : a \in OwnersOf(run.cand)}

Act(r) ==
  /\ InNode(r, "act")
  /\ SetRun(r, WithJobs(runs[r], JobsFor(runs[r])))
  /\ UNCHANGED <<shelf, kept, ahead, refused, counts>>

-----------------------------------------------------------------------------
(* The candidate jobs. *)

Downloading(r) == runs[r].phase = "retry" \/ (runs[r].phase = "jobs" /\ Node(r) = "act")

\* file_statuses_for_candidate_source
ListsUntouched(source) ==
  CASE source = "failed_files" -> {"failed"}
    [] source \in {"pending_files", "new_since_last_download"} -> {"remote_only", "pending"}
    [] OTHER -> PageStatuses \ {"absent"}
Lists(source) ==
  CASE source = "failed_files" -> {"failed"}
    [] source = "pending_files" -> {"remote_only", "pending"}
    [] source = "new_since_last_download" -> {"remote_only", "pending", "failed"}
    [] OTHER -> PageStatuses \ {"absent"}

WorksOf(r, j) == {w \in runs[r].cand : OwnerOf[w] \in j \cap listed /\ status[w] # "absent"}

\* history: what the job finds complete needs no download
Select(r, j) ==
  LET run == runs[r] IN
  /\ Downloading(r) /\ j \in run.open \ run.begun
  /\ SetRun(r, [run EXCEPT
       !.begun = @ \cup {j},
       !.left = @ \cup {w \in WorksOf(r, j) : status[w] \in Lists(run.source)},
       !.taken = @ \cup {w \in WorksOf(r, j) : status[w] \in Complete}])
  /\ UNCHANGED <<shelf, kept, ahead, refused, counts>>

\* what claiming the page shows: whether it is still one the source asks for
StillWantedAlways(source, s) == TRUE
StillWanted(source, s) ==
  CASE source = "failed_files"  -> s = "failed"
    [] source = "pending_files" -> s \in {"pending", "remote_only"}
    [] source = "new_since_last_download" -> s \notin Complete
    [] OTHER -> TRUE

\* advance_download_cursor: up to the first artwork that is not complete
CursorAfter(a, pages) ==
  LET above == {w \in Works : OwnerOf[w] = a /\ w > cursor[a] /\ pages[w] # "absent"}
      done == {w \in above : \A v \in above : v <= w => pages[v] \in Complete}
  IN IF done = {} THEN cursor[a] ELSE CHOOSE w \in done : \A v \in done : v <= w

\* One page of job j: result is the status its download ends with; a page that
\* failed before is never skipped for the file it has left.
Fetch(r, j, w, result) ==
  LET run == runs[r]
      wants == StillWanted(run.source, status[w])
      kind == IF ~wants THEN status[w]
              ELSE IF status[w] = "downloaded" THEN "downloaded" ELSE result
      pages == [status EXCEPT ![w] = kind]
      fails == wants /\ result = "failed"
  IN
  /\ Downloading(r) /\ j \in run.begun \cap run.open /\ w \in run.left /\ OwnerOf[w] \in j
  /\ wants /\ result = "skipped" => status[w] # "failed"
  /\ fails => troubles < MaxTroubles
  /\ troubles' = troubles + (IF fails THEN 1 ELSE 0)
  /\ status' = pages
  /\ cursor' = IF wants /\ ~fails
               THEN [cursor EXCEPT ![OwnerOf[w]] = CursorAfter(OwnerOf[w], pages)] ELSE cursor
  /\ SetRun(r, [run EXCEPT !.left = @ \ {w},
       !.ill = IF fails THEN @ \cup {j} ELSE @,
       !.taken = IF pages[w] \in Complete THEN @ \cup {w} ELSE @])
  /\ UNCHANGED <<listed, gone, checked, kept, ahead, refused, started, removals>>

\* the job has been through its pages
CloseJob(r, j) ==
  LET run == runs[r] IN
  /\ Downloading(r) /\ j \in run.begun \cap run.open
  /\ {w \in run.left : OwnerOf[w] \in j} = {}
  /\ cursor' = [a \in Owners |-> IF a \in OwnersOf(WorksOf(r, j)) THEN CursorAfter(a, status)
                                 ELSE cursor[a]]
  /\ SetRun(r, Ended(run, j, FALSE))
  /\ UNCHANGED <<listed, gone, checked, status, kept, ahead, refused, counts>>

-----------------------------------------------------------------------------
(* What goes wrong, and what the user does about it. *)

\* a job fails or is cancelled: pages it has not taken stay as they are
JobEndsIll(r, j) ==
  /\ runs[r].phase \in {"jobs", "retry"} /\ j \in runs[r].open
  /\ troubles < MaxTroubles /\ troubles' = troubles + 1
  /\ SetRun(r, Ended(runs[r], j, TRUE))
  /\ UNCHANGED <<shelf, kept, ahead, refused, started, removals>>

NodeRaises(r) ==
  /\ runs[r].phase = "node"
  /\ troubles < MaxTroubles /\ troubles' = troubles + 1
  /\ SetRun(r, [runs[r] EXCEPT !.phase = "failed"])
  /\ UNCHANGED <<shelf, kept, ahead, refused, started, removals>>

\* retry of a job that did not end well: the same set, its failed pages
RetryJob(r, j) ==
  /\ runs[r].phase = "failed" /\ Node(r) = "act" /\ j \in runs[r].ill
  /\ SetRun(r, [runs[r] EXCEPT !.phase = "retry", !.source = "failed_files",
                               !.open = {j}, !.begun = {}, !.left = {}, !.ill = @ \ {j}])
  /\ UNCHANGED <<shelf, kept, ahead, refused, counts>>

\* no foreign key removes the rows of the candidate sets with the artwork
RemoveArtist(a) ==
  LET own == {w \in Works : OwnerOf[w] = a} IN
  /\ a \in listed /\ removals < MaxRemovals
  /\ removals' = removals + 1
  /\ IF own \cap kept # {}
     THEN refused' = refused \cup {a} /\ UNCHANGED <<shelf, ahead>>
     ELSE /\ listed' = listed \ {a} /\ gone' = gone \ {a}
          /\ checked' = Unranked(a) /\ cursor' = [cursor EXCEPT ![a] = 0]
          /\ status' = [w \in Works |-> IF w \in own THEN "absent" ELSE status[w]]
          /\ ahead' = [b \in Owners |-> IF b = a THEN {} ELSE ahead[b] \ {a}]
          /\ UNCHANGED refused
  /\ UNCHANGED <<kept, runs, missed, started, troubles>>

-----------------------------------------------------------------------------

RunNext(r) ==
  \/ \E ask \in Asks : StartRun(r, ask)
  \/ \E old \in 0..Cardinality(Owners), S \in SUBSET Owners : Target(r, old, S)
  \/ \E S \in SUBSET Owners : Resolve(r, S)
  \/ SyncNode(r)
  \/ \E a \in Owners, upTo \in Uploads : SyncArtist(r, a, TRUE, upTo)
  \/ \E a \in Owners : SyncArtist(r, a, FALSE, 0)
  \/ \E S \in SUBSET Works : Collect(r, S)
  \/ Filter(r)
  \/ Act(r)
  \/ \E j \in runs[r].open :
       \/ Select(r, j) \/ CloseJob(r, j) \/ JobEndsIll(r, j)
       \/ \E w \in runs[r].left, result \in {"downloaded", "skipped", "failed"} :
            Fetch(r, j, w, result)
  \/ \E j \in runs[r].ill : RetryJob(r, j)
  \/ NodeRaises(r)

CandNext == (\E r \in Runs : RunNext(r)) \/ (\E a \in Owners : RemoveArtist(a))

CandSpec == CandInit /\ [][CandNext]_candVars

-----------------------------------------------------------------------------

Run == [phase : RunPhases, ask : Asks, step : 1..8, ids : SUBSET Owners, cand : SUBSET Works,
        source : Sources, open : SUBSET SUBSET Owners, begun : SUBSET SUBSET Owners,
        ill : SUBSET SUBSET Owners, left : SUBSET Works, wanted : SUBSET Works,
        taken : SUBSET Works]

CandTypeOK ==
  /\ listed \in SUBSET Owners /\ gone \in SUBSET listed
  /\ checked \in [Owners -> 0..Cardinality(Owners)]
  /\ cursor \in [Owners -> 0..MaxWorks]
  /\ status \in [Works -> PageStatuses] /\ kept \in SUBSET Works
  /\ runs \in [Runs -> Run]
  /\ ahead \in [Owners -> SUBSET Owners] /\ missed \in SUBSET Works /\ refused \in SUBSET Owners
  /\ started \in 0..MaxRuns /\ removals \in 0..MaxRemovals /\ troubles \in 0..MaxTroubles

\* A run for new artworks that completes has tried every one its artists had in
\* the library when it collected: the collection, the lists of the jobs, their
\* shares of the set and the check under the claim agree on what is new, while
\* another run takes the same artworks (docs/configuration.md:61).
RunDelivers == missed = {}

\* A page changes only by a job of a run that asks for it: its artist was
\* resolved within the limit, the artwork is one the definition names, in its
\* range, not blocked, and in the state its source takes.
AskedFor(r, w) ==
  LET ask == runs[r].ask IN
  /\ OwnerOf[w] \in runs[r].ids
  /\ ask.max > 0 => Cardinality(runs[r].ids) <= ask.max
  /\ ask.scope \in ByWork => w \in ask.works
  /\ ask.scope \notin Bulk /\ ask.works = {} => OwnerOf[w] \in ask.artists
  /\ w \in ask.range /\ (ask.blocks => w \notin Tagged)
  /\ ask.mode # "all_synced" => status[w] \notin Complete
  /\ runs[r].phase = "retry" => status[w] = "failed"

OnlyWhatIsAsked ==
  [][\A w \in Works : status[w] # "absent" /\ status'[w] \notin {"absent", status[w]} =>
       \E r \in Runs : w \in runs[r].left \ runs'[r].left /\ AskedFor(r, w)]_candVars

\* A limited target that takes the artists checked longest ago laps nobody: an
\* artist who was synchronised while another waited is not taken before him
\* (workflow_nodes/target.py select_artists), whichever runs and jobs did it.
NobodyIsLapped ==
  [][\A r \in Runs :
       /\ InNode(r, "target") /\ runs[r].ask.scope = "all_artists"
       /\ runs[r].ask.pick = "oldest" /\ runs'[r] # runs[r]
       => \A a \in listed \ (gone \cup runs'[r].ids) : ahead[a] \cap runs'[r].ids = {}]_candVars

\* An artist can be removed from the library (README.md:14,
\* tests/test_repositories.py:136).
ArtistsCanBeRemoved == refused = {}
=============================================================================
