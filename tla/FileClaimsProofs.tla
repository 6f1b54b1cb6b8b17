-------------------------- MODULE FileClaimsProofs --------------------------
(* Theorems about FileClaims, for every set of pages and workers, every     *)
(* library and every bound.                                                 *)
EXTENDS FileClaims, FiniteSetTheorems, TLAPS

-----------------------------------------------------------------------------
(* Type correctness. *)

\* A worker that waits for a page or holds one knows which.
PageKnown == \A w \in Workers : at[w] = "waiting" \/ Holding(w) => page[w] \in Pages

TypeInv == TypeOK /\ PageKnown

\* An idle worker's memory is well typed.
LEMMA AtRestType ==
  ASSUME AtRest
  PROVE  /\ at \in [Workers -> Places]
         /\ work \in [Workers -> [mode : Modes, cursor : 0..MaxArtworks]]
         /\ todo \in [Workers -> SUBSET Pages]
         /\ page \in [Workers -> Pages \cup {NoPage}]
         /\ seen \in [Workers -> Statuses]
         /\ quitting \in [Workers -> BOOLEAN]
         /\ \A w \in Workers : at[w] = "idle"
<1>1. 0 \in 0..MaxArtworks
  BY FileClaimsAssumption
<1>2. [mode |-> "all", cursor |-> 0] \in [mode : Modes, cursor : 0..MaxArtworks]
  BY <1>1 DEF Modes
<1> QED BY <1>2 DEF AtRest, Places, Statuses

\* A claim that says nothing is a claim.
LEMMA NoClaimType ==
  NoClaim \in [owner : Workers \cup {Nobody}, previous : Statuses \ {"downloading"}]
  BY DEF NoClaim, Statuses

LEMMA TypeInit == Init => TypeInv
<1> SUFFICES ASSUME Init PROVE TypeInv
  OBVIOUS
<1>1. /\ 0 \in 0..MaxArtworks /\ 0 \in 0..MaxStarts
      /\ 0 \in 0..MaxFaults /\ 0 \in 0..MaxCrashes
  BY FileClaimsAssumption
<1>2. AtRest
  BY DEF Init
<1>3. status \in [Pages -> Statuses]
  BY DEF Init, Statuses
<1> QED
  BY <1>1, <1>2, <1>3, AtRestType, NoClaimType
  DEF Init, TypeInv, TypeOK, PageKnown, Holding

\* The conditional update writes a status.
LEMMA UpdateClaimType ==
  ASSUME TypeInv, NEW w \in Workers, NEW s \in Statuses, UpdateClaim(w, s)
  PROVE  status' \in [Pages -> Statuses]
  BY DEF UpdateClaim, TypeInv, TypeOK

\* The cursor stays in the library.
LEMMA AdvanceType ==
  ASSUME TypeInv, AdvanceCursor
  PROVE  cursor' \in 0..MaxArtworks
  BY FileClaimsAssumption DEF AdvanceCursor, TypeInv, TypeOK

\* The statuses a claim restores and records.
LEMMA StatusOperators ==
  ASSUME NEW s \in Statuses, NEW r \in {"downloaded", "skipped", "failed"}
  PROVE  /\ Restored(s) \in Statuses \ {"downloading"}
         /\ Result(s, r) \in {"downloaded", "skipped", "failed"}
         /\ Result(s, r) \in Statuses
  BY DEF Restored, Result, Statuses

LEMMA TypeNext == TypeInv /\ [Next]_vars => TypeInv'
<1> SUFFICES ASSUME TypeInv, [Next]_vars PROVE TypeInv'
  OBVIOUS
<1> USE DEF TypeInv, TypeOK, PageKnown, Holding, rowVars, ctlVars, jobVars, heldVars, Goto
<1>1. ASSUME NEW w \in Workers, NEW mode \in Modes, StartJob(w, mode) PROVE TypeInv'
  <2>1. 0 \in 0..MaxArtworks
    BY FileClaimsAssumption
  <2> QED BY <1>1, <2>1, FileClaimsAssumption DEF StartJob, Places
<1>2. ASSUME NEW w \in Workers, Step(w) PROVE TypeInv'
  <2>1. CASE Select(w) \/ LeaveAsIs(w) \/ Fetch(w)
    BY <2>1 DEF Select, LeaveAsIs, Fetch, Places
  <2>2. ASSUME NEW p \in Pages, Choose(w, p) PROVE TypeInv'
    BY <2>2 DEF Choose, Places
  <2>3. CASE Acquire(w)
    <3>1. page[w] \in Pages
      BY <2>3 DEF Acquire
    <3>2. [owner |-> w, previous |-> Restored(status[page[w]])]
            \in [owner : Workers \cup {Nobody}, previous : Statuses \ {"downloading"}]
      BY <3>1, StatusOperators
    <3> QED BY <2>3, <3>1, <3>2 DEF Acquire, Places, Statuses
  <2>4. CASE MarkSkipped(w) \/ Fetched(w)
    <3>1. /\ Result(seen[w], "skipped") \in Statuses
          /\ Result(seen[w], "failed") \in Statuses
          /\ "downloaded" \in Statuses
      BY StatusOperators DEF Statuses
    <3>2. status' \in [Pages -> Statuses]
      BY <2>4, <3>1, UpdateClaimType DEF MarkSkipped, Fetched
    <3> QED BY <2>4, <3>2 DEF MarkSkipped, Fetched, Places
  <2>5. CASE Advance(w) \/ Finish(w)
    BY <2>5, AdvanceType DEF Advance, Finish, Places
  <2>6. CASE Release(w)
    <3>1. status' \in [Pages -> Statuses]
      BY <2>6, StatusOperators, UpdateClaimType DEF Release
    <3>2. claims' \in [Pages -> [owner : Workers \cup {Nobody},
                                 previous : Statuses \ {"downloading"}]]
      BY <2>6, NoClaimType DEF Release, Released
    <3> QED BY <2>6, <3>1, <3>2 DEF Release, Places, Statuses
  <2> QED BY <1>2, <2>1, <2>2, <2>3, <2>4, <2>5, <2>6 DEF Step
<1>3. ASSUME NEW w \in Workers, Cancelled(w) \/ Fault(w) PROVE TypeInv'
  <2>1. ASSUME Leave(w), UNCHANGED <<up, starts, crashes>>, faults' \in 0..MaxFaults
        PROVE  TypeInv'
    <3>1. CASE Holding(w)
      BY <2>1, <3>1 DEF Leave, Places
    <3>2. CASE ~Holding(w)
      BY <2>1, <3>2 DEF Leave, Places
    <3> QED BY <3>1, <3>2
  <2>2. CASE Cancelled(w)
    BY <2>1, <2>2 DEF Cancelled
  <2>3. CASE Fault(w)
    <3>1. faults' \in 0..MaxFaults
      BY <2>3, FileClaimsAssumption DEF Fault
    <3>2. CASE at[w] = "releasing"
      <4>1. /\ at' = [at EXCEPT ![w] = "idle"]
            /\ page' = [page EXCEPT ![w] = NoPage]
            /\ seen' = [seen EXCEPT ![w] = "failed"]
            /\ quitting' = [quitting EXCEPT ![w] = FALSE]
            /\ todo' = [todo EXCEPT ![w] = {}]
            /\ UNCHANGED <<status, claims, cursor, imported, work, up, starts, crashes>>
        BY <2>3, <3>2 DEF Fault
      <4>2. \A v \in Workers : at'[v] = IF v = w THEN "idle" ELSE at[v]
        BY <4>1
      <4>3. PageKnown'
        BY <4>1, <4>2
      <4>4. /\ at' \in [Workers -> Places] /\ seen' \in [Workers -> Statuses]
            /\ quitting' \in [Workers -> BOOLEAN]
        BY <4>1 DEF Places, Statuses
      <4> QED BY <3>1, <4>1, <4>3, <4>4
    <3>3. CASE at[w] # "releasing"
      BY <2>1, <2>3, <3>1, <3>3 DEF Fault
    <3> QED BY <3>2, <3>3
  <2> QED BY <1>3, <2>2, <2>3
<1>4. CASE ImportArtist
  BY <1>4, FileClaimsAssumption DEF ImportArtist
<1>5. ASSUME NEW p \in Pages, ImportPage(p) PROVE TypeInv'
  BY <1>5 DEF ImportPage, Statuses
<1>6. CASE Crash
  <2>1. [mode |-> "all", cursor |-> 0] \in [mode : Modes, cursor : 0..MaxArtworks]
    BY FileClaimsAssumption DEF Modes
  <2>2. crashes' \in 0..MaxCrashes
    BY <1>6, FileClaimsAssumption DEF Crash
  <2>3. /\ at' \in [Workers -> Places]
        /\ work' \in [Workers -> [mode : Modes, cursor : 0..MaxArtworks]]
        /\ todo' \in [Workers -> SUBSET Pages]
        /\ page' \in [Workers -> Pages \cup {NoPage}]
        /\ seen' \in [Workers -> Statuses]
        /\ quitting' \in [Workers -> BOOLEAN]
        /\ \A w \in Workers : at'[w] = "idle"
    BY <1>6, <2>1 DEF Crash, Places, Statuses
  <2> QED BY <1>6, <2>2, <2>3 DEF Crash
<1>7. CASE Boot
  <2>1. ASSUME NEW p \in Pages PROVE Recovered(p) \in Statuses
    BY DEF Recovered
  <2> QED BY <1>7, <2>1, NoClaimType DEF Boot
<1>8. CASE UNCHANGED vars
  BY <1>8 DEF vars
<1> QED BY <1>1, <1>2, <1>3, <1>4, <1>5, <1>6, <1>7, <1>8 DEF Next

\* Every reachable state is well typed; in particular a claim never remembers a
\* page as downloading, so that giving it back always decides it.
THEOREM TypeCorrect == Spec => []TypeOK
  BY TypeInit, TypeNext, PTL DEF Spec, TypeInv
-----------------------------------------------------------------------------
(* The claims. *)

\* The claim of a page a worker holds is its own, and restores what it saw.
OwnClaim(w) ==
  Holding(w) => /\ claims[page[w]].owner = w
                /\ claims[page[w]].previous = Restored(seen[w])

ClaimInv ==
  /\ TypeInv
  /\ \A w \in Workers : OwnClaim(w)
  /\ \A p \in Pages : claims[p].owner = Nobody => claims[p] = NoClaim
  /\ ~up => \A w \in Workers : at[w] = "idle"

LEMMA ClaimInit == Init => ClaimInv
  BY TypeInit DEF Init, AtRest, ClaimInv, OwnClaim, Holding

LEMMA ClaimNext == ClaimInv /\ [Next]_vars => ClaimInv'
<1> SUFFICES ASSUME ClaimInv, [Next]_vars PROVE ClaimInv'
  OBVIOUS
<1>1. /\ TypeInv /\ TypeInv'
      /\ \A w \in Workers : OwnClaim(w)
      /\ \A p \in Pages : claims[p].owner = Nobody => claims[p] = NoClaim
      /\ ~up => \A w \in Workers : at[w] = "idle"
      /\ at \in [Workers -> Places] /\ page \in [Workers -> Pages \cup {NoPage}]
      /\ seen \in [Workers -> Statuses] /\ DOMAIN claims = Pages
      /\ \A w \in Workers : at[w] = "waiting" \/ Holding(w) => page[w] \in Pages
  BY TypeNext DEF ClaimInv, TypeInv, TypeOK, PageKnown
<1> USE DEF rowVars, ctlVars, jobVars, heldVars, Goto
\* Most steps leave the claims alone and do not begin to hold a page.
<1>2. ASSUME UNCHANGED claims, up' = up,
             \A w \in Workers :
               Holding(w)' => Holding(w) /\ page'[w] = page[w] /\ seen'[w] = seen[w],
             \A w \in Workers : ~up => at'[w] = at[w]
      PROVE  ClaimInv'
  <2>1. ASSUME NEW w \in Workers PROVE OwnClaim(w)'
    BY <1>1, <1>2 DEF OwnClaim
  <2> QED BY <1>1, <1>2, <2>1 DEF ClaimInv
<1>3. ASSUME NEW w \in Workers,
             \/ \E mode \in Modes : StartJob(w, mode)
             \/ Select(w) \/ (\E p \in Pages : Choose(w, p)) \/ LeaveAsIs(w)
             \/ MarkSkipped(w) \/ Fetch(w) \/ Fetched(w) \/ Advance(w) \/ Finish(w)
      PROVE  ClaimInv'
  <2>1. /\ UNCHANGED <<claims, up, seen>>
        /\ \A v \in Workers \ {w} : at'[v] = at[v] /\ page'[v] = page[v]
        /\ Holding(w)' => Holding(w) /\ page'[w] = page[w]
        /\ at[w] # "idle" \/ up
    BY <1>1, <1>3
    DEF StartJob, Select, Choose, LeaveAsIs, MarkSkipped, Fetch, Fetched, Advance,
        Finish, Holding
  <2> QED BY <1>1, <1>2, <2>1 DEF Holding
<1>4. ASSUME NEW w \in Workers, Acquire(w) PROVE ClaimInv'
  <2>1. PICK p \in Pages : page[w] = p /\ claims[p] = NoClaim
    BY <1>1, <1>4 DEF Acquire, Free
  <2>2. /\ claims' = [claims EXCEPT ![p] =
                        [owner |-> w, previous |-> Restored(status[p])]]
        /\ seen' = [seen EXCEPT ![w] = status[p]]
        /\ at' = [at EXCEPT ![w] = "deciding"]
        /\ UNCHANGED <<page, up>> /\ at[w] = "waiting"
    BY <1>4, <2>1 DEF Acquire
  <2>3. OwnClaim(w)'
    BY <1>1, <2>1, <2>2 DEF OwnClaim
  <2>4. ASSUME NEW v \in Workers \ {w} PROVE OwnClaim(v)'
    <3>1. Holding(v)' = Holding(v)
      BY <1>1, <2>2 DEF Holding
    <3>2. Holding(v) => page[v] # p
      BY <1>1, <2>1, FileClaimsAssumption DEF OwnClaim, NoClaim
    <3> QED BY <1>1, <2>2, <3>1, <3>2 DEF OwnClaim
  <2>5. \A q \in Pages : claims'[q].owner = Nobody => claims'[q] = NoClaim
    BY <1>1, <2>2, FileClaimsAssumption
  <2>6. up
    BY <1>1, <2>2
  <2> QED BY <1>1, <2>2, <2>3, <2>4, <2>5, <2>6 DEF ClaimInv
<1>5. ASSUME NEW w \in Workers, Release(w) PROVE ClaimInv'
  <2>1. PICK p \in Pages : page[w] = p
    BY <1>1, <1>5 DEF Release, Holding
  <2>2. /\ claims' = [claims EXCEPT ![p] = NoClaim]
        /\ at'[w] \notin {"deciding", "fetching", "advancing", "releasing"}
        /\ \A v \in Workers \ {w} :
             at'[v] = at[v] /\ page'[v] = page[v] /\ seen'[v] = seen[v]
        /\ up' = up /\ at[w] # "idle"
    BY <1>1, <1>5, <2>1 DEF Release, Released, OwnClaim, Holding
  <2>3. ASSUME NEW v \in Workers PROVE OwnClaim(v)'
    <3>1. CASE v = w
      BY <2>2, <3>1 DEF OwnClaim, Holding
    <3>2. CASE v # w
      <4>1. Holding(v)' = Holding(v) /\ page'[v] = page[v] /\ seen'[v] = seen[v]
        BY <2>2, <3>2 DEF Holding
      <4>2. Holding(v) => page[v] # p
        BY <1>1, <1>5, <2>1, <3>2 DEF OwnClaim, Release, Holding
      <4> QED BY <1>1, <2>2, <4>1, <4>2 DEF OwnClaim
    <3> QED BY <3>1, <3>2
  <2>4. \A q \in Pages : claims'[q].owner = Nobody => claims'[q] = NoClaim
    BY <1>1, <2>2
  <2> QED BY <1>1, <2>2, <2>3, <2>4 DEF ClaimInv
<1>6. ASSUME NEW w \in Workers, Cancelled(w) \/ Fault(w) PROVE ClaimInv'
  <2>1. /\ UNCHANGED <<claims, up>>
        /\ \A v \in Workers \ {w} :
             at'[v] = at[v] /\ page'[v] = page[v] /\ seen'[v] = seen[v]
        /\ Holding(w)' => Holding(w) /\ page'[w] = page[w] /\ seen'[w] = seen[w]
        /\ at[w] # "idle"
    BY <1>1, <1>6 DEF Cancelled, Fault, Leave, Holding
  <2> QED BY <1>1, <1>2, <2>1 DEF Holding
<1>7. CASE ImportArtist \/ (\E p \in Pages : ImportPage(p)) \/ UNCHANGED vars
  BY <1>2, <1>7 DEF ImportArtist, ImportPage, vars, Holding
<1>8. CASE Crash
  BY <1>1, <1>8 DEF Crash, ClaimInv, OwnClaim, Holding
<1>9. CASE Boot
  BY <1>1, <1>9 DEF Boot, ClaimInv, OwnClaim, Holding
<1> QED BY <1>3, <1>4, <1>5, <1>6, <1>7, <1>8, <1>9 DEF Next, Step

LEMMA ClaimInvariance == Spec => []ClaimInv
  BY ClaimInit, ClaimNext, PTL DEF Spec

\* No page is downloaded by two workers at the same time, whatever cancellations,
\* errors, crashes and imports happen between the claims.
THEOREM DownloadsAreExclusive == Spec => []ExclusiveDownload
<1>1. ClaimInv => ExclusiveDownload
  BY DEF ClaimInv, OwnClaim, ExclusiveDownload
<1> QED BY <1>1, ClaimInvariance, PTL
-----------------------------------------------------------------------------
(* The ledger. *)

LedgerFn == [p \in Pages |-> LedgerOf(p)]
HolderFn == [p \in Pages |-> claims[p].owner]

\* A step that neither moves a claim nor changes a result stutters.
LEMMA LedgerStutter ==
  ASSUME \A p \in Pages : LedgerOf(p)' = LedgerOf(p) /\ claims'[p].owner = claims[p].owner
  PROVE  LedgerFn' = LedgerFn /\ HolderFn' = HolderFn
  BY DEF LedgerFn, HolderFn

\* A holder that writes a result records it in the ledger, unless the page was
\* downloaded before or has been imported meanwhile.
LEMMA UpdateRecords ==
  ASSUME ClaimInv, NEW w \in Workers, Holding(w), UNCHANGED claims,
         NEW s \in {"downloaded", "skipped", "failed"}, UpdateClaim(w, s),
         seen[w] = "downloaded" => s = "downloaded"
  PROVE  \/ LedgerFn' = LedgerFn /\ HolderFn' = HolderFn
         \/ Ledger!Next
<1>1. PICK p \in Pages : page[w] = p
  BY DEF ClaimInv, TypeInv, PageKnown
<1>2. /\ claims[p].owner = w /\ claims[p] # NoClaim
      /\ claims[p].previous = Restored(seen[w]) /\ seen[w] \in Statuses
      /\ status \in [Pages -> Statuses]
  BY <1>1, FileClaimsAssumption DEF ClaimInv, OwnClaim, NoClaim, TypeInv, TypeOK
<1>3. CASE status[p] # "downloading"
  <2>1. status' = status
    BY <1>1, <1>3 DEF UpdateClaim
  <2> QED BY <2>1, LedgerStutter DEF LedgerOf
<1>4. CASE status[p] = "downloading"
  <2>1. status' = [status EXCEPT ![p] = s]
    BY <1>1, <1>2, <1>4 DEF UpdateClaim
  <2>2. LedgerOf(p) = Restored(seen[w]) /\ LedgerOf(p)' = s
    BY <1>2, <1>4, <2>1 DEF LedgerOf
  <2>3. \A q \in Pages \ {p} : LedgerOf(q)' = LedgerOf(q)
    BY <1>2, <2>1 DEF LedgerOf
  <2>4. CASE seen[w] = "downloaded"
    BY <2>2, <2>3, <2>4, LedgerStutter DEF Restored
  <2>5. CASE seen[w] # "downloaded"
    <3>1. LedgerFn[p] # "downloaded" /\ HolderFn[p] = w /\ HolderFn' = HolderFn
      BY <1>2, <2>2, <2>5 DEF Restored, LedgerFn, HolderFn
    <3>2. LedgerFn' = [LedgerFn EXCEPT ![p] = s]
      BY <2>2, <2>3 DEF LedgerFn
    <3>3. Ledger!Record(w, p)
      BY <3>1, <3>2 DEF Ledger!Record, LedgerFn, HolderFn
    <3> QED BY <3>3 DEF Ledger!Next
  <2> QED BY <2>4, <2>5
<1> QED BY <1>3, <1>4

LEMMA LedgerInit == Init => Ledger!Init
<1> SUFFICES ASSUME Init PROVE Ledger!Init
  OBVIOUS
<1>1. ASSUME NEW p \in Pages PROVE LedgerOf(p) \in Ledger!Results
  BY DEF Init, LedgerOf, NoClaim, Ledger!Results
<1> QED BY <1>1 DEF Init, Ledger!Init, NoClaim

LEMMA LedgerNext ==
  ClaimInv /\ [Next]_vars => Ledger!Next \/ (LedgerFn' = LedgerFn /\ HolderFn' = HolderFn)
<1> SUFFICES ASSUME ClaimInv, [Next]_vars
             PROVE  Ledger!Next \/ (LedgerFn' = LedgerFn /\ HolderFn' = HolderFn)
  OBVIOUS
<1>1. /\ status \in [Pages -> Statuses] /\ DOMAIN claims = Pages
      /\ \A w \in Workers : OwnClaim(w) /\ seen[w] \in Statuses
      /\ \A w \in Workers : at[w] = "waiting" \/ Holding(w) => page[w] \in Pages
      /\ \A p \in Pages : claims[p].owner = Nobody => claims[p] = NoClaim
  BY DEF ClaimInv, TypeInv, TypeOK, PageKnown
<1> USE DEF rowVars
<1>2. CASE UNCHANGED <<status, claims>>
  BY <1>2, LedgerStutter DEF LedgerOf
<1>3. ASSUME NEW w \in Workers, MarkSkipped(w) \/ Fetched(w)
      PROVE  Ledger!Next \/ (LedgerFn' = LedgerFn /\ HolderFn' = HolderFn)
  <2>1. Holding(w) /\ UNCHANGED claims
    BY <1>3 DEF MarkSkipped, Fetched, Holding
  <2>2. PICK s \in {"downloaded", "skipped", "failed"} :
          UpdateClaim(w, s) /\ (seen[w] = "downloaded" => s = "downloaded")
    BY <1>3 DEF MarkSkipped, Fetched, Result
  <2>3. (LedgerFn' = LedgerFn /\ HolderFn' = HolderFn) \/ Ledger!Next
    BY <2>1, <2>2, UpdateRecords
  <2> QED BY <2>3
<1>4. ASSUME NEW w \in Workers, Acquire(w)
      PROVE  Ledger!Next
  <2>1. PICK p \in Pages : page[w] = p /\ claims[p] = NoClaim
    BY <1>1, <1>4 DEF Acquire, Free
  <2>2. /\ claims' = [claims EXCEPT ![p] =
                        [owner |-> w, previous |-> Restored(status[p])]]
        /\ status' = [status EXCEPT ![p] = "downloading"]
    BY <1>4, <2>1 DEF Acquire
  <2>3. claims'[p] # NoClaim
    BY <1>1, <2>2, FileClaimsAssumption DEF NoClaim
  <2>4. /\ LedgerOf(p)' = IF LedgerOf(p) = "interrupted" THEN "failed" ELSE LedgerOf(p)
        /\ \A q \in Pages \ {p} : LedgerOf(q)' = LedgerOf(q)
    <3>1. LedgerOf(p)' = Restored(status[p])
      BY <1>1, <2>2, <2>3 DEF LedgerOf
    <3>2. LedgerOf(p) = IF status[p] = "downloading" THEN "interrupted" ELSE status[p]
      BY <2>1 DEF LedgerOf
    <3>3. Restored(status[p])
            = IF LedgerOf(p) = "interrupted" THEN "failed" ELSE LedgerOf(p)
      BY <1>1, <3>2 DEF Restored, Statuses
    <3> QED BY <1>1, <2>2, <3>1, <3>3 DEF LedgerOf
  <2>5. /\ HolderFn[p] = Nobody /\ HolderFn' = [HolderFn EXCEPT ![p] = w]
    <3>1. /\ claims'[p].owner = w /\ claims[p].owner = Nobody
          /\ \A q \in Pages \ {p} : claims'[q] = claims[q]
      BY <1>1, <2>1, <2>2 DEF NoClaim
    <3> QED BY <3>1 DEF HolderFn
  <2>6. LedgerFn' = [LedgerFn EXCEPT ![p] = IF @ = "interrupted" THEN "failed" ELSE @]
    BY <2>4 DEF LedgerFn
  <2>7. Ledger!Acquire(w, p)
    BY <2>5, <2>6 DEF Ledger!Acquire, LedgerFn, HolderFn
  <2> QED BY <2>7 DEF Ledger!Next
<1>5. ASSUME NEW w \in Workers, Release(w) PROVE Ledger!Next
  <2>1. PICK p \in Pages : page[w] = p
    BY <1>1, <1>5 DEF Release, Holding
  <2>2. /\ claims[p].owner = w /\ claims[p].previous = Restored(seen[w])
        /\ claims[p] # NoClaim
    BY <1>1, <1>5, <2>1, FileClaimsAssumption DEF OwnClaim, Release, Holding, NoClaim
  <2>3. /\ claims' = [claims EXCEPT ![p] = NoClaim]
        /\ status' = IF status[p] = "downloading"
                      THEN [status EXCEPT ![p] = Restored(seen[w])] ELSE status
    BY <1>5, <2>1, <2>2 DEF Release, Released, UpdateClaim
  <2>4. Restored(seen[w]) # "downloading"
    BY DEF Restored
  <2>5. \A q \in Pages : LedgerOf(q)' = LedgerOf(q)
    BY <1>1, <2>2, <2>3, <2>4 DEF LedgerOf
  <2>6. HolderFn[p] = w /\ HolderFn' = [HolderFn EXCEPT ![p] = Nobody]
    BY <1>1, <2>2, <2>3 DEF HolderFn, NoClaim
  <2>7. Ledger!Release(w, p)
    BY <2>5, <2>6 DEF Ledger!Release, LedgerFn, HolderFn
  <2> QED BY <2>7 DEF Ledger!Next
<1>6. ASSUME NEW p \in Pages, ImportPage(p) PROVE Ledger!Next
  <2>1. /\ LedgerOf(p)' = "downloaded" /\ UNCHANGED claims
        /\ \A q \in Pages \ {p} : LedgerOf(q)' = LedgerOf(q)
    BY <1>1, <1>6 DEF ImportPage, LedgerOf
  <2>2. LedgerFn' = [LedgerFn EXCEPT ![p] = "downloaded"] /\ HolderFn' = HolderFn
    BY <2>1 DEF LedgerFn, HolderFn
  <2>3. Ledger!Import(p)
    BY <2>2 DEF Ledger!Import, LedgerFn, HolderFn
  <2> QED BY <2>3 DEF Ledger!Next
<1>7. CASE Boot
  <2>1. ASSUME NEW p \in Pages PROVE LedgerOf(p)' = LedgerOf(p)
    <3>1. claims[p].previous # "downloading"
      BY DEF ClaimInv, TypeInv, TypeOK
    <3> QED BY <1>7, <3>1 DEF Boot, Recovered, LedgerOf
  <2>2. HolderFn' = [p \in Pages |-> Nobody]
    BY <1>7 DEF Boot, HolderFn, NoClaim
  <2>3. Ledger!Restart
    BY <2>1, <2>2 DEF Ledger!Restart, LedgerFn, HolderFn
  <2>4. Ledger!Next
    BY <2>3 DEF Ledger!Next
  <2> QED BY <2>4
<1>8. ASSUME NEW w \in Workers,
             Cancelled(w) \/ Fault(w) \/ (\E mode \in Modes : StartJob(w, mode))
             \/ Select(w) \/ (\E p \in Pages : Choose(w, p)) \/ LeaveAsIs(w)
             \/ Fetch(w) \/ Advance(w) \/ Finish(w)
      PROVE  UNCHANGED <<status, claims>>
  BY <1>8
  DEF Cancelled, Fault, Leave, StartJob, Select, Choose, LeaveAsIs, Fetch, Advance, Finish
<1>9. CASE ImportArtist \/ Crash \/ UNCHANGED vars
  BY <1>2, <1>9 DEF ImportArtist, Crash, vars
<1> QED
  BY <1>2, <1>3, <1>4, <1>5, <1>6, <1>7, <1>8, <1>9 DEF Next, Step

\* Claims, conditional updates and recovery implement the ledger: a page has one
\* recorder at a time, and no cancellation, error, crash or import loses the
\* result of a downloaded page.
THEOREM LedgerRefinement == Spec => ImplementsLedger
<1>1. ClaimInv /\ [Next]_vars => [Ledger!Next]_<<LedgerFn, HolderFn>>
  BY LedgerNext
<1> QED
  BY <1>1, LedgerInit, ClaimInvariance, PTL
  DEF Spec, ImplementsLedger, Ledger!Spec, LedgerFn, HolderFn

\* No step leaves a page downloading without the claim that can undo it.
THEOREM DownloadingStaysCovered == Spec => DownloadingIsCovered
<1>1. ClaimInv /\ [Next]_vars =>
        [\A p \in Pages : status'[p] = "downloading" /\ claims'[p] = NoClaim =>
            status[p] = "downloading" /\ claims[p] = NoClaim]_vars
  <2> SUFFICES ASSUME ClaimInv, Ledger!Next \/ (LedgerFn' = LedgerFn /\ HolderFn' = HolderFn),
                      [Next]_vars, NEW p \in Pages,
                      status'[p] = "downloading", claims'[p] = NoClaim
               PROVE  status[p] = "downloading" /\ claims[p] = NoClaim
    BY LedgerNext
  <2>1. LedgerFn'[p] = "interrupted"
    BY DEF LedgerFn, LedgerOf
  <2>2. LedgerFn[p] = "interrupted"
    <3>1. DOMAIN LedgerFn = Pages
      BY DEF LedgerFn
    <3>2. CASE Ledger!Next
      BY <2>1, <3>1, <3>2
      DEF LedgerFn, HolderFn, Ledger!Next, Ledger!Acquire, Ledger!Record,
          Ledger!Release, Ledger!Import, Ledger!Restart
    <3> QED BY <2>1, <3>2
  <2>3. status[p] \in Statuses /\ claims[p].previous \in Statuses
    BY DEF ClaimInv, TypeInv, TypeOK
  <2> QED BY <2>2, <2>3 DEF LedgerFn, LedgerOf, Statuses
<1> QED BY <1>1, ClaimInvariance, PTL DEF Spec, DownloadingIsCovered
-----------------------------------------------------------------------------
(* The cursor. *)

Decided == {"downloaded", "skipped", "failed"}

\* A page that has a result keeps one.
LEMMA DecidedStays ==
  ASSUME ClaimInv, [Next]_vars, NEW p \in Pages, LedgerOf(p) \in Decided
  PROVE  LedgerOf(p)' \in Decided
<1>1. Ledger!Next \/ (LedgerFn' = LedgerFn /\ HolderFn' = HolderFn)
  BY LedgerNext
<1>2. DOMAIN LedgerFn = Pages /\ LedgerFn[p] \in Decided
  BY DEF LedgerFn
<1>3. LedgerFn'[p] \in Decided
  <2>1. CASE Ledger!Next
    BY <1>2, <2>1
    DEF LedgerFn, HolderFn, Ledger!Next, Ledger!Acquire, Ledger!Record, Ledger!Release,
        Ledger!Import, Ledger!Restart, Decided
  <2> QED BY <1>1, <1>2, <2>1
<1> QED BY <1>3 DEF LedgerFn

\* The cursor moves only over pages that are complete when it does, or with the
\* imported one.
LEMMA CursorMoves ==
  ASSUME ClaimInv, [Next]_vars, NEW p \in Pages,
         LegacyLatest < ArtworkOf[p], ArtworkOf[p] <= cursor', ~(ArtworkOf[p] <= cursor)
  PROVE  LedgerOf(p)' \in Decided
<1>1. /\ cursor \in 0..MaxArtworks /\ ArtworkOf[p] \in Artworks
      /\ LegacyLatest \in 0..MaxArtworks /\ MaxArtworks \in Nat
  BY FileClaimsAssumption DEF ClaimInv, TypeInv, TypeOK
<1>2. CASE AdvanceCursor /\ status' = status
  <2>1. ArtworkDone(ArtworkOf[p])
    BY <1>1, <1>2 DEF AdvanceCursor, Artworks
  <2>2. status[p] \in Complete
    BY <2>1 DEF ArtworkDone, PagesOf
  <2> QED BY <1>2, <2>2 DEF LedgerOf, Complete, Decided
<1>3. CASE cursor' = cursor
  BY <1>1, <1>3
<1>4. CASE ImportArtist
  BY <1>1, <1>4 DEF ImportArtist, Artworks
<1>5. (AdvanceCursor /\ status' = status) \/ cursor' = cursor \/ ImportArtist
  BY DEF Next, Step, StartJob, Select, Choose, Acquire, LeaveAsIs, MarkSkipped, Fetch, Fetched,
         Advance, Release, Finish, Cancelled, Fault, Leave, ImportPage, Crash, Boot, vars, rowVars
<1> QED BY <1>2, <1>3, <1>4, <1>5

\* Whoever holds pages when the cursor is advanced, it never passes one that has
\* no result, and what it has passed keeps a result.
THEOREM CursorIsSafe == Spec => []CursorLeavesNoGap
<1>1. Init => CursorLeavesNoGap
  BY FileClaimsAssumption DEF Init, CursorLeavesNoGap, Artworks
<1>2. ClaimInv /\ CursorLeavesNoGap /\ [Next]_vars => CursorLeavesNoGap'
  <2> SUFFICES ASSUME ClaimInv, CursorLeavesNoGap, [Next]_vars, NEW p \in Pages,
                      LegacyLatest < ArtworkOf[p], ArtworkOf[p] <= cursor'
               PROVE  LedgerOf(p)' \in Decided
    BY DEF CursorLeavesNoGap, Decided
  <2>1. CASE ArtworkOf[p] <= cursor
    BY <2>1, DecidedStays DEF CursorLeavesNoGap, Decided
  <2> QED BY <2>1, CursorMoves
<1> QED BY <1>1, <1>2, ClaimInvariance, PTL DEF Spec

-----------------------------------------------------------------------------
(* The claims left behind. *)

\* While the process runs, each claim without a worker has an error to itself.
AbandonInv == up => IsFiniteSet(Abandoned) /\ Cardinality(Abandoned) <= faults

\* A set of abandoned pages that has at most one more than before is bounded by
\* the errors when one has been added.
LEMMA OneMore ==
  ASSUME ClaimInv, AbandonInv, up, NEW p,
         Abandoned' \subseteq Abandoned \cup {p}, faults' = faults + 1
  PROVE  AbandonInv'
<1>1. IsFiniteSet(Abandoned) /\ Cardinality(Abandoned) \in Nat /\ faults \in Nat
  BY FileClaimsAssumption, FS_CardinalityType DEF AbandonInv, ClaimInv, TypeInv, TypeOK
<1>2. /\ IsFiniteSet(Abandoned \cup {p})
      /\ Cardinality(Abandoned \cup {p}) \in Nat
      /\ Cardinality(Abandoned \cup {p}) <= Cardinality(Abandoned) + 1
  BY <1>1, FS_AddElement, FS_CardinalityType
<1>3. IsFiniteSet(Abandoned') /\ Cardinality(Abandoned') <= Cardinality(Abandoned \cup {p})
  BY <1>2, FS_Subset
<1>4. Cardinality(Abandoned') \in Nat
  BY <1>3, FS_CardinalityType
<1>5. Cardinality(Abandoned') <= faults'
  BY <1>1, <1>2, <1>3, <1>4 DEF AbandonInv
<1> QED BY <1>3, <1>5 DEF AbandonInv

\* One that has no more than before stays bounded.
LEMMA NoMore ==
  ASSUME ClaimInv, AbandonInv, up, Abandoned' \subseteq Abandoned,
         faults' \in {faults, faults + 1}
  PROVE  AbandonInv'
<1>1. IsFiniteSet(Abandoned) /\ Cardinality(Abandoned) \in Nat /\ faults \in Nat
  BY FileClaimsAssumption, FS_CardinalityType DEF AbandonInv, ClaimInv, TypeInv, TypeOK
<1>2. IsFiniteSet(Abandoned') /\ Cardinality(Abandoned') <= Cardinality(Abandoned)
  BY <1>1, FS_Subset
<1>3. Cardinality(Abandoned') \in Nat
  BY <1>2, FS_CardinalityType
<1>4. Cardinality(Abandoned') <= faults'
  BY <1>1, <1>2, <1>3 DEF AbandonInv
<1> QED BY <1>2, <1>4 DEF AbandonInv

\* Steps in which no worker lets go of a page abandon none.
LEMMA HoldersGoOn ==
  ASSUME UNCHANGED claims,
         \A p \in Pages : claims[p] # NoClaim => claims[p].owner \in Workers,
         \A w \in Workers : Holding(w) => Holding(w)' /\ page'[w] = page[w]
  PROVE  Abandoned' \subseteq Abandoned
<1>1. ASSUME NEW p \in Abandoned' PROVE p \in Abandoned
  <2>1. p \in Pages /\ claims'[p] = claims[p] /\ claims[p] # NoClaim
    BY DEF Abandoned
  <2> QED BY <2>1 DEF Abandoned
<1> QED BY <1>1

LEMMA AbandonNext == ClaimInv /\ AbandonInv /\ [Next]_vars => AbandonInv'
<1> SUFFICES ASSUME ClaimInv, AbandonInv, [Next]_vars PROVE AbandonInv'
  OBVIOUS
<1> USE DEF rowVars, ctlVars, jobVars, heldVars, Goto
<1>1. /\ at \in [Workers -> Places] /\ page \in [Workers -> Pages \cup {NoPage}]
      /\ DOMAIN claims = Pages
      /\ \A w \in Workers : at[w] = "waiting" \/ Holding(w) => page[w] \in Pages
      /\ \A p \in Pages : claims[p] # NoClaim => claims[p].owner \in Workers
      /\ \A w \in Workers : OwnClaim(w)
      /\ ~up => \A w \in Workers : at[w] = "idle"
  BY DEF ClaimInv, TypeInv, TypeOK, PageKnown
<1>2. ASSUME NEW w \in Workers, Cancelled(w) \/ (Fault(w) /\ at[w] # "releasing")
             \/ (\E mode \in Modes : StartJob(w, mode))
             \/ Select(w) \/ (\E p \in Pages : Choose(w, p)) \/ LeaveAsIs(w)
             \/ MarkSkipped(w) \/ Fetch(w) \/ Fetched(w) \/ Advance(w) \/ Finish(w)
      PROVE  AbandonInv'
  <2>1. /\ UNCHANGED <<claims, up>> /\ faults' \in {faults, faults + 1}
        /\ \A v \in Workers \ {w} : at'[v] = at[v] /\ page'[v] = page[v]
        /\ Holding(w) => Holding(w)' /\ page'[w] = page[w]
        /\ at[w] # "idle" \/ up
    BY <1>1, <1>2
    DEF Cancelled, Fault, Leave, StartJob, Select, Choose, LeaveAsIs, MarkSkipped, Fetch,
        Fetched, Advance, Finish, Holding
  <2>2. \A v \in Workers : Holding(v) => Holding(v)' /\ page'[v] = page[v]
    BY <2>1 DEF Holding
  <2>3. Abandoned' \subseteq Abandoned
    BY <1>1, <2>1, <2>2, HoldersGoOn
  <2> QED BY <1>1, <2>1, <2>3, NoMore
\* The page a worker takes is one it holds.
<1>3. ASSUME NEW w \in Workers, Acquire(w) PROVE AbandonInv'
  <2>1. PICK p \in Pages : page[w] = p
    BY <1>1, <1>3 DEF Acquire
  <2>2. /\ claims' = [claims EXCEPT ![p] =
                        [owner |-> w, previous |-> Restored(status[p])]]
        /\ at[w] = "waiting" /\ at' = [at EXCEPT ![w] = "deciding"]
        /\ UNCHANGED <<page, up, faults>>
    BY <1>3, <2>1 DEF Acquire
  <2>3. Holding(w)' /\ ~Holding(w) /\ \A v \in Workers \ {w} : Holding(v)' = Holding(v)
    BY <1>1, <2>2 DEF Holding
  <2>4. ASSUME NEW q \in Abandoned' PROVE q \in Abandoned
    <3>1. q \in Pages /\ q # p
      BY <1>1, <2>1, <2>2, <2>3 DEF Abandoned
    <3>2. claims'[q] = claims[q]
      BY <1>1, <2>2, <3>1
    <3> QED BY <1>1, <2>2, <2>3, <3>1, <3>2 DEF Abandoned
  <2> QED BY <1>1, <2>2, <2>4, NoMore
\* The claim a worker gives back was the one of its page.
<1>4. ASSUME NEW w \in Workers, Release(w) PROVE AbandonInv'
  <2>1. PICK p \in Pages : page[w] = p
    BY <1>1, <1>4 DEF Release, Holding
  <2>2. /\ claims' = [claims EXCEPT ![p] = NoClaim]
        /\ \A v \in Workers \ {w} : at'[v] = at[v] /\ page'[v] = page[v]
        /\ at[w] # "idle" /\ UNCHANGED <<up, faults>>
    BY <1>1, <1>4, <2>1 DEF Release, Released, OwnClaim, Holding
  <2>3. ASSUME NEW q \in Abandoned' PROVE q \in Abandoned
    <3>1. q \in Pages /\ q # p /\ claims'[q] = claims[q] /\ claims[q] # NoClaim
      BY <1>1, <2>2 DEF Abandoned
    <3>2. \A v \in Workers \ {w} : Holding(v)' = Holding(v) /\ page'[v] = page[v]
      BY <2>2 DEF Holding
    <3> QED BY <1>1, <2>1, <3>1, <3>2 DEF Abandoned
  <2> QED BY <1>1, <2>2, <2>3, NoMore
\* An error in the finally block abandons the page the worker was giving back.
<1>5. ASSUME NEW w \in Workers, Fault(w), at[w] = "releasing" PROVE AbandonInv'
  <2>1. /\ UNCHANGED <<claims, up>> /\ faults' = faults + 1
        /\ \A v \in Workers \ {w} : at'[v] = at[v] /\ page'[v] = page[v]
    BY <1>1, <1>5 DEF Fault
  <2>2. ASSUME NEW q \in Abandoned' PROVE q \in Abandoned \cup {page[w]}
    <3>1. q \in Pages /\ claims'[q] = claims[q] /\ claims[q] # NoClaim
      BY <2>1 DEF Abandoned
    <3>2. \A v \in Workers \ {w} : Holding(v)' = Holding(v) /\ page'[v] = page[v]
      BY <2>1 DEF Holding
    <3> QED BY <1>1, <3>1, <3>2 DEF Abandoned
  <2> QED BY <1>1, <1>5, <2>1, <2>2, OneMore
<1>6. CASE Crash
  BY <1>6 DEF Crash, AbandonInv
<1>7. CASE Boot
  <2>1. \A p \in Pages : claims'[p] = NoClaim
    BY <1>7 DEF Boot
  <2>2. Abandoned' = {}
    BY <2>1 DEF Abandoned
  <2>3. faults' \in Nat
    BY <1>7, FileClaimsAssumption DEF Boot, ClaimInv, TypeInv, TypeOK
  <2> QED BY <2>2, <2>3, FS_EmptySet DEF AbandonInv
<1>8. CASE ImportArtist \/ (\E p \in Pages : ImportPage(p)) \/ UNCHANGED vars
  <2>1. UNCHANGED <<claims, at, page, up, faults>>
    BY <1>8 DEF ImportArtist, ImportPage, vars
  <2>2. AbandonInv' = AbandonInv
    BY <2>1 DEF AbandonInv, Abandoned, Holding
  <2> QED BY <2>2
<1> QED
  BY <1>2, <1>3, <1>4, <1>5, <1>6, <1>7, <1>8 DEF Next, Step

\* While the process runs, no more pages are refused to the other jobs by workers
\* that have gone on than there have been database errors: cancellations,
\* exceptions of a download and imports leave no claim behind.
THEOREM ClaimsAreGivenBack == Spec => []AbandonedByErrors
<1>1. Init => AbandonInv
  <2> SUFFICES ASSUME Init PROVE AbandonInv
    OBVIOUS
  <2>1. Abandoned = {} /\ faults = 0
    BY DEF Init, Abandoned
  <2> QED BY <2>1, FS_EmptySet DEF AbandonInv
<1>2. AbandonInv => AbandonedByErrors
  BY DEF AbandonInv, AbandonedByErrors
<1> QED BY <1>1, <1>2, AbandonNext, ClaimInvariance, PTL DEF Spec
=============================================================================
