--------------------------- MODULE FileDownloads ---------------------------
(***************************************************************************)
(* FileDownloader and the request policy it waits for: several workers     *)
(* choose names, share the slots of a rate limiter, retry, and put whole   *)
(* files in their places.                                                  *)
(*                                                                         *)
(* A transfer holds the lock of the path it wants from the choice of the   *)
(* name to the replacement; the path it writes may be another one.  Time   *)
(* is a counter; a slot is the earliest time a request may start.  The     *)
(* content of a file is the URL it came from and whether all of it came.   *)
(* Cancellation and errors look alike here: the transfer ends and its      *)
(* temporary file is removed.                                              *)
(***************************************************************************)
EXTENDS Integers, Sequences

CONSTANTS
  Loaders,       \* threads of jobs that download
  Urls,          \* files at Pixiv
  Paths,         \* paths below the download directory
  Wanted,        \* [Urls -> Paths]: the path the naming rule gives a file
  Numbered,      \* [Paths -> Seq(Paths)]: "x (1)", "x (2)", ... for x
  LockOf,        \* [Paths -> 0..63]: the hash of a path
  IntervalOf,    \* the interval of each rule (pair of settings) in use
  StatusRetries, \* retries of a 429 or 50x status
  NetworkRetries,\* retries of a network error
  Leftovers,       \* SUBSET Paths: sets of files earlier transfers may have left
  MaxTransfers,  \* bound: transfers
  MaxClock,      \* bound: ticks of the clock
  MaxFileCrashes \* bound: crashes

Rules == DOMAIN IntervalOf

NumberedNames(p) == {Numbered[p][i] : i \in 1..Len(Numbered[p])}

\* unique_download_path puts the number between stem and suffix, so a numbered
\* name tells whose it is.
ASSUME FileDownloadsAssumption ==
  /\ Wanted \in [Urls -> Paths]
  /\ Numbered \in [Paths -> Seq(Paths)]
  /\ \A p, q \in Paths : p # q => NumberedNames(p) \cap NumberedNames(q) = {}
  /\ LockOf \in [Paths -> 0..63]
  /\ IntervalOf \in [Rules -> Nat]
  /\ Leftovers \subseteq SUBSET Paths
  /\ StatusRetries \in Nat /\ NetworkRetries \in Nat
  /\ MaxTransfers \in Nat /\ MaxClock \in Nat /\ MaxFileCrashes \in Nat

VARIABLES
  disk,       \* the files, by path
  transfer,   \* what each worker transfers and where it is
  nextSlot,   \* RateLimiter._next_allowed_at of the shared limiter of each rule
  monotonic,  \* time.monotonic
  granted,    \* history: the last slot of each rule, and how many there were
  transfers, fileCrashes   \* history

fileVars == <<disk, transfer, nextSlot, monotonic, granted, transfers, fileCrashes>>

Behaviors == {"skip", "overwrite", "save_duplicate"}
Bodies    == {"whole", "part", "empty"}
Content   == [url : Urls \cup {"earlier"}, whole : BOOLEAN]
NoFile    == [url |-> "none", whole |-> TRUE]
LeftoverFile == [url |-> "earlier", whole |-> TRUE]
Choices   == [url : Urls, behavior : Behaviors, retry : BOOLEAN, rule : Rules]

Places == {"idle", "acquiring", "choosing", "reserving", "waiting", "receiving", "replacing"}

NoTransfer == [place |-> "idle"]

\* slot: the time of its slot; body: what it has received
Transfer ==
  {NoTransfer} \cup [place : Places \ {"idle"}, url : Urls, behavior : Behaviors, retry : BOOLEAN,
              rule : Rules, target : Paths, attempt : Nat, slot : Nat, body : Bodies]

FileInit == /\ \E files \in Leftovers :
                 disk = [p \in Paths |-> IF p \in files THEN LeftoverFile ELSE NoFile]
            /\ transfer = [w \in Loaders |-> NoTransfer]
            /\ nextSlot = [l \in Rules |-> 0]
            /\ monotonic = 0
            /\ granted = [l \in Rules |-> [last |-> 0, count |-> 0]]
            /\ transfers = 0 /\ fileCrashes = 0

limiterVars == <<nextSlot, monotonic, granted>>

-----------------------------------------------------------------------------
(* Names and locks. *)

OnDisk(p) == disk[p] # NoFile

\* unique_download_path: the first name that is free
NamesFor(p) == <<p>> \o Numbered[p]
FreeName(p) ==
  LET taken == {i \in 1..Len(NamesFor(p)) : \A k \in 1..i : OnDisk(NamesFor(p)[k])} IN
  NamesFor(p)[1 + CHOOSE n \in taken \cup {0} : \A i \in taken : i <= n]

HasFreeName(p) == \E i \in 1..Len(NamesFor(p)) : ~OnDisk(NamesFor(p)[i])

Wants(w) == Wanted[transfer[w].url]
Holding(w) == transfer[w].place \notin {"idle", "acquiring"}

LockIsFreeAlways(w) == TRUE
LockIsFree(w) ==
  \A v \in Loaders \ {w} : Holding(v) => LockOf[Wants(v)] # LockOf[Wants(w)]

GoOn(w, place) == transfer' = [transfer EXCEPT ![w].place = place]
EndTransfer(w) == transfer' = [transfer EXCEPT ![w] = NoTransfer]

\* The settings are read when the job starts, so any rule may be in use.
BeginTransfer(w) ==
  /\ transfer[w].place = "idle" /\ transfers < MaxTransfers
  /\ transfers' = transfers + 1
  /\ \E c \in Choices :
       transfer' = [transfer EXCEPT ![w] =
         [place |-> "acquiring", url |-> c.url, behavior |-> c.behavior, retry |-> c.retry,
          rule |-> c.rule, target |-> Wanted[c.url], attempt |-> 0, slot |-> 0,
          body |-> "empty"]]
  /\ UNCHANGED <<disk, limiterVars, fileCrashes>>

Acquire(w) == /\ transfer[w].place = "acquiring" /\ LockIsFree(w)
              /\ GoOn(w, "choosing")
              /\ UNCHANGED <<disk, limiterVars, transfers, fileCrashes>>

\* An existing file is skipped, or the duplicate gets another name, unless the
\* database says that the last attempt at this file did not succeed.
ChooseName(w) ==
  LET t == transfer[w] IN
  /\ t.place = "choosing"
  /\ IF t.behavior = "skip" /\ ~t.retry /\ OnDisk(Wants(w))
     THEN EndTransfer(w)
     ELSE IF t.behavior = "save_duplicate" /\ ~t.retry
     THEN /\ HasFreeName(Wants(w))
          /\ transfer' = [transfer EXCEPT ![w].place = "reserving",
                                          ![w].target = FreeName(Wants(w))]
     ELSE GoOn(w, "reserving")
  /\ UNCHANGED <<disk, limiterVars, transfers, fileCrashes>>

-----------------------------------------------------------------------------
(* PixivRequestPolicy.run. *)

Later(a, b) == IF a > b THEN a ELSE b

\* _reserve_delay, under the lock of the limiter
SlotForgetful(l) == monotonic
Slot(l) == Later(monotonic, nextSlot[l])

Reserve(w) ==
  LET l == transfer[w].rule IN
  /\ transfer[w].place = "reserving"
  /\ nextSlot' = [nextSlot EXCEPT ![l] = Slot(l) + IntervalOf[l]]
  /\ granted' = [granted EXCEPT ![l] = [last |-> Slot(l), count |-> @.count + 1]]
  /\ transfer' = [transfer EXCEPT ![w].place = "waiting", ![w].slot = Slot(l)]
  /\ UNCHANGED <<disk, monotonic, transfers, fileCrashes>>

\* _retry_delay: one counter of attempts, whatever went wrong each time
Retries(error) == IF error = "status" THEN StatusRetries ELSE NetworkRetries

SendRequest(w) ==
  /\ transfer[w].place = "waiting" /\ transfer[w].slot <= monotonic
  /\ \/ GoOn(w, "receiving")
     \/ \E error \in {"status", "network"} :
          /\ transfer[w].attempt < Retries(error)
          /\ transfer' = [transfer EXCEPT ![w].place = "reserving", ![w].attempt = @ + 1]
  /\ UNCHANGED <<disk, limiterVars, transfers, fileCrashes>>

Receive(w) ==
  /\ transfer[w].place = "receiving"
  /\ \E body \in Bodies :
       transfer' = [transfer EXCEPT ![w].place = "replacing", ![w].body = body]
  /\ UNCHANGED <<disk, limiterVars, transfers, fileCrashes>>

\* The size of the temporary file is compared with Content-Length, which Pixiv
\* sends; a file of the right size replaces the target in one step.
SizeIsRight(body) == body = "whole"

Replace(w) ==
  LET t == transfer[w] IN
  /\ t.place = "replacing"
  /\ disk' = IF SizeIsRight(t.body)
             THEN [disk EXCEPT ![t.target] = [url |-> t.url, whole |-> t.body = "whole"]]
             ELSE disk
  /\ EndTransfer(w)
  /\ UNCHANGED <<limiterVars, transfers, fileCrashes>>

\* Cancelled, out of retries, or any other exception
AbortTransfer(w) ==
  /\ transfer[w].place \in Places \ {"idle"}
  /\ EndTransfer(w)
  /\ UNCHANGED <<disk, limiterVars, transfers, fileCrashes>>

TickClock == /\ monotonic < MaxClock
             /\ monotonic' = monotonic + 1
             /\ UNCHANGED <<disk, transfer, nextSlot, granted, transfers, fileCrashes>>

\* Temporary files stay behind; the limiters start afresh.
CrashTransfers ==
  /\ fileCrashes < MaxFileCrashes
  /\ fileCrashes' = fileCrashes + 1
  /\ transfer' = [w \in Loaders |-> NoTransfer]
  /\ nextSlot' = [l \in Rules |-> 0]
  /\ granted' = [l \in Rules |-> [last |-> 0, count |-> 0]]
  /\ UNCHANGED <<disk, monotonic, transfers>>

TransferStep(w) == Acquire(w) \/ ChooseName(w) \/ Reserve(w) \/ SendRequest(w) \/ Receive(w)
                   \/ Replace(w)

FileNext == \/ \E w \in Loaders : BeginTransfer(w) \/ TransferStep(w) \/ AbortTransfer(w)
            \/ TickClock \/ CrashTransfers

FileSpec == FileInit /\ [][FileNext]_fileVars

-----------------------------------------------------------------------------
(* Properties. *)

FileTypeOK ==
  /\ disk \in [Paths -> Content \cup {NoFile}]
  /\ transfer \in [Loaders -> Transfer]
  /\ nextSlot \in [Rules -> Nat] /\ monotonic \in 0..MaxClock
  /\ granted \in [Rules -> [last : Nat, count : Nat]]
  /\ transfers \in 0..MaxTransfers /\ fileCrashes \in 0..MaxFileCrashes

\* The slots a limiter gives to concurrent workers and to their retries are an
\* interval apart (RateLimiter._reserve_delay).
SlotsAreSpaced ==
  [][\A l \in Rules : granted'[l].count > 1 /\ granted'[l].count > granted[l].count
       => granted'[l].last >= granted[l].last + IntervalOf[l]]_fileVars

\* The own name of one file that is also a numbered name of another.
Contested == {p \in Paths : \E u, v \in Urls :
                Wanted[u] = p /\ p \in NumberedNames(Wanted[v])}

\* A file is replaced only by a worker that was told to overwrite or that
\* repeats an unsuccessful transfer, never because two workers chose one name
\* (FileDownloader._path_locks) - except under a contested name: its two writers
\* hold the locks of the different names they wanted.
DuplicatesAreKept ==
  [][\A p \in Paths \ Contested : OnDisk(p) /\ disk'[p] # disk[p]
       => \E w \in Loaders : /\ transfer[w].place = "replacing" /\ transfer[w].target = p
                             /\ transfer[w].behavior = "overwrite" \/ transfer[w].retry
    ]_fileVars
=============================================================================
