-------------------------- MODULE DownloadsProofs --------------------------
(* Theorems about WorkflowCandidates, what is downloaded, and FileDownloads,  *)
(* the files it is downloaded to, for every value of their constants.         *)
EXTENDS FileDownloads, WorkflowCandidates, BoundedSets

-----------------------------------------------------------------------------
(* FileDownloads: names *)

\* While some name is free, unique_download_path finds one.
LEMMA FreeNameIsFree ==
  ASSUME NEW p \in Paths, HasFreeName(p)
  PROVE  /\ FreeName(p) \in {p} \cup NumberedNames(p) /\ FreeName(p) \in Paths
         /\ ~OnDisk(FreeName(p))
<1> DEFINE names == NamesFor(p)
           taken == {i \in 1..Len(names) : \A k \in 1..i : OnDisk(names[k])}
<1>1. Numbered[p] \in Seq(Paths) /\ Len(Numbered[p]) \in Nat
  BY FileDownloadsAssumption
<1>2. /\ names \in Seq(Paths) /\ Len(names) = 1 + Len(Numbered[p]) /\ names[1] = p
      /\ \A i \in 2..Len(names) : names[i] = Numbered[p][i - 1]
  BY <1>1 DEF NamesFor
<1>3. /\ Len(names) \in Nat /\ \A i \in 1..Len(names) : names[i] \in Paths
  BY <1>2
<1> HIDE DEF names
<1>4. PICK free \in 1..Len(names) : ~OnDisk(names[free])
  BY DEF HasFreeName, names
<1>5. taken \cup {0} \in SUBSET (0..Len(names))
  BY <1>3
<1>6. PICK m \in taken \cup {0} : \A i \in taken \cup {0} : i <= m
  <2> HIDE DEF taken
  <2> QED BY <1>3, <1>5, HasLatest
<1> DEFINE last == CHOOSE n \in taken \cup {0} : \A i \in taken : i <= n
<1>7. last \in taken \cup {0} /\ \A i \in taken : i <= last
  <2> HIDE DEF taken
  <2> QED BY <1>6
<1>8. FreeName(p) = names[1 + last]
  BY DEF FreeName, names
<1> HIDE DEF last
<1>9. last \in 0..Len(names) /\ last < free
  <2>1. CASE last = 0
    BY <1>3, <1>4, <2>1
  <2>2. CASE last \in taken
    <3>1. last \in 1..Len(names) /\ \A k \in 1..last : OnDisk(names[k])
      BY <2>2
    <3>2. free \notin 1..last
      BY <1>4, <3>1
    <3> QED BY <1>3, <1>4, <3>1, <3>2
  <2> QED BY <1>7, <2>1, <2>2
<1>10. 1 + last \in 1..Len(names)
  BY <1>3, <1>4, <1>9
<1>11. ~OnDisk(names[1 + last])
  <2> SUFFICES ASSUME OnDisk(names[1 + last]) PROVE FALSE
    OBVIOUS
  <2>1. \A k \in 1..(1 + last) : k = 1 + last \/ k \in 1..last
    BY <1>9
  <2>2. \A k \in 1..last : OnDisk(names[k])
    BY <1>7, <1>9
  <2>3. 1 + last \in taken
    BY <1>10, <2>1, <2>2
  <2> HIDE DEF taken
  <2> QED BY <1>7, <1>9, <2>3
<1>12. names[1 + last] \in {p} \cup NumberedNames(p)
  <2>1. CASE last = 0
    BY <1>2, <2>1 DEF names
  <2>2. CASE last # 0
    <3>1. 1 + last \in 2..Len(names) /\ last \in 1..Len(Numbered[p]) /\ (1 + last) - 1 = last
      BY <1>1, <1>2, <1>9, <1>10, <2>2 DEF names
    <3> QED BY <1>2, <3>1 DEF NumberedNames, names
  <2> QED BY <2>1, <2>2
<1> QED BY <1>3, <1>8, <1>10, <1>11, <1>12

\* Two workers that hold different locks can only collide under a contested name.
LEMMA NamesCollide ==
  ASSUME NEW u \in Urls, NEW v \in Urls, LockOf[Wanted[u]] # LockOf[Wanted[v]],
         NEW p, p \in {Wanted[u]} \cup NumberedNames(Wanted[u]),
         p \in {Wanted[v]} \cup NumberedNames(Wanted[v])
  PROVE  p \in Contested
<1>1. Wanted[u] # Wanted[v] /\ Wanted[u] \in Paths /\ Wanted[v] \in Paths
  BY FileDownloadsAssumption
<1>2. NumberedNames(Wanted[u]) \cap NumberedNames(Wanted[v]) = {}
  BY <1>1, FileDownloadsAssumption
<1>3. \A q \in Paths : NumberedNames(q) \subseteq Paths
  BY FileDownloadsAssumption DEF NumberedNames
<1> QED BY <1>1, <1>2, <1>3 DEF Contested

-----------------------------------------------------------------------------
(* FileDownloads: the invariant *)

Busy == [place : Places \ {"idle"}, url : Urls, behavior : Behaviors, retry : BOOLEAN,
         rule : Rules, target : Paths, attempt : Nat, slot : Nat, body : Bodies]

\* The places after the name has been chosen.
Named == {"reserving", "waiting", "receiving", "replacing"}

\* Those who may replace a file.
MayReplace(t) == t.behavior = "overwrite" \/ t.retry

\* A worker writes its own name or a numbered one of it, and unless it may
\* replace a file, nobody else has written there since it found the name free.
TransferSound(t, files) ==
  /\ t \in Busy
  /\ t.place \in {"acquiring", "choosing"} => t.target = Wanted[t.url]
  /\ t.place \in Named =>
       /\ t.target \in {Wanted[t.url]} \cup NumberedNames(Wanted[t.url])
       /\ MayReplace(t) \/ t.target \in Contested \/ files[t.target] = NoFile

FilesInv ==
  /\ FileTypeOK
  /\ \A w \in Loaders : transfer[w] = NoTransfer \/ TransferSound(transfer[w], disk)
  /\ \A v, w \in Loaders : v # w /\ Holding(v) /\ Holding(w) => LockOf[Wants(v)] # LockOf[Wants(w)]
  /\ \A l \in Rules : granted[l].count > 0 => nextSlot[l] = granted[l].last + IntervalOf[l]

LEMMA FilesStart == FileInit => FilesInv
<1> SUFFICES ASSUME FileInit PROVE FilesInv
  OBVIOUS
<1>1. disk \in [Paths -> Content \cup {NoFile}]
  BY DEF FileInit, Content, LeftoverFile
<1>2. /\ transfer = [w \in Loaders |-> NoTransfer] /\ nextSlot = [l \in Rules |-> 0]
      /\ monotonic = 0 /\ granted = [l \in Rules |-> [last |-> 0, count |-> 0]]
      /\ transfers = 0 /\ fileCrashes = 0
  BY DEF FileInit
<1>3. 0 \in 0..MaxClock /\ 0 \in 0..MaxTransfers /\ 0 \in 0..MaxFileCrashes
  BY FileDownloadsAssumption
<1>4. FileTypeOK
  BY <1>1, <1>2, <1>3 DEF FileTypeOK, Transfer
<1> QED BY <1>2, <1>4 DEF FilesInv, Holding, NoTransfer

\* A worker that is not idle has a whole record.
LEMMA BusyTransfer ==
  ASSUME FilesInv, NEW w \in Loaders, transfer[w].place # "idle"
  PROVE  TransferSound(transfer[w], disk) /\ transfer[w] \in Busy /\ transfer[w].rule \in Rules
         /\ transfer \in [Loaders -> Transfer]
  BY DEF FilesInv, FileTypeOK, TransferSound, NoTransfer, Busy

\* One worker goes on, the files stay.
LEMMA OneTransfer ==
  ASSUME FilesInv, NEW w \in Loaders, NEW t,
         transfer' = [transfer EXCEPT ![w] = t], t = NoTransfer \/ TransferSound(t, disk),
         t = NoTransfer \/ t.place = "acquiring"
           \/ (t.url = transfer[w].url /\ (Holding(w) \/ LockIsFree(w))),
         UNCHANGED <<disk, nextSlot, monotonic, granted, fileCrashes>>,
         transfers' \in 0..MaxTransfers
  PROVE  FilesInv'
<1>1. transfer \in [Loaders -> Transfer] /\ t \in Transfer
  BY DEF FilesInv, FileTypeOK, TransferSound, Transfer, Busy
<1>2. FileTypeOK'
  BY <1>1 DEF FilesInv, FileTypeOK
<1>3. transfer'[w] = t /\ \A v \in Loaders \ {w} : transfer'[v] = transfer[v]
  BY <1>1
<1>4. ASSUME NEW v \in Loaders PROVE transfer'[v] = NoTransfer \/ TransferSound(transfer'[v], disk)
  BY <1>3 DEF FilesInv
<1>5. \A v \in Loaders \ {w} : (Holding(v)' <=> Holding(v)) /\ Wants(v)' = Wants(v)
  BY <1>3 DEF Holding, Wants
<1>6. Holding(w)' => Wants(w)' = Wants(w) /\ (Holding(w) \/ LockIsFree(w))
  BY <1>3 DEF Holding, Wants, NoTransfer
<1>7. ASSUME NEW v \in Loaders \ {w}, Holding(v)', Holding(w)'
      PROVE  LockOf[Wants(v)'] # LockOf[Wants(w)']
  BY <1>5, <1>6, <1>7 DEF FilesInv, LockIsFree
<1>8. ASSUME NEW v \in Loaders, NEW u \in Loaders, v # u, Holding(v)', Holding(u)'
      PROVE  LockOf[Wants(v)'] # LockOf[Wants(u)']
  BY <1>5, <1>7, <1>8 DEF FilesInv
<1> QED BY <1>2, <1>4, <1>8 DEF FilesInv

LEMMA BeginKeepsFiles ==
  ASSUME FilesInv, NEW w \in Loaders, BeginTransfer(w)
  PROVE  FilesInv'
<1>1. PICK c \in Choices :
        transfer' = [transfer EXCEPT ![w] =
          [place |-> "acquiring", url |-> c.url, behavior |-> c.behavior, retry |-> c.retry,
           rule |-> c.rule, target |-> Wanted[c.url], attempt |-> 0, slot |-> 0,
           body |-> "empty"]]
  BY DEF BeginTransfer
<1> DEFINE t == [place |-> "acquiring", url |-> c.url, behavior |-> c.behavior, retry |-> c.retry,
                 rule |-> c.rule, target |-> Wanted[c.url], attempt |-> 0, slot |-> 0,
                 body |-> "empty"]
<1>2. Wanted[c.url] \in Paths
  BY FileDownloadsAssumption DEF Choices
<1>3. t \in Busy
  BY <1>2 DEF Busy, Choices, Places, Bodies
<1>4. TransferSound(t, disk) /\ t.place = "acquiring" /\ transfer' = [transfer EXCEPT ![w] = t]
  BY <1>1, <1>3 DEF TransferSound, Named
<1>5. transfers \in Nat /\ transfers + 1 \in 0..MaxTransfers /\ transfers' = transfers + 1
  BY FileDownloadsAssumption DEF FilesInv, FileTypeOK, BeginTransfer
<1>6. UNCHANGED <<disk, nextSlot, monotonic, granted, fileCrashes>>
  BY DEF BeginTransfer, limiterVars
<1> HIDE DEF t
<1> QED BY <1>4, <1>5, <1>6, OneTransfer

LEMMA AcquireKeepsFiles ==
  ASSUME FilesInv, NEW w \in Loaders, Acquire(w)
  PROVE  FilesInv'
<1> DEFINE t == [transfer[w] EXCEPT !.place = "choosing"]
<1>1. transfer[w].place = "acquiring" /\ LockIsFree(w) /\ transfer' = [transfer EXCEPT ![w] = t]
  BY DEF Acquire, GoOn
<1>2. TransferSound(transfer[w], disk) /\ transfer[w] \in Busy
  BY <1>1, BusyTransfer
<1>3. t \in Busy /\ t.url = transfer[w].url /\ t.target = transfer[w].target /\ t.place = "choosing"
  BY <1>2 DEF Busy, Places
<1>4. TransferSound(t, disk)
  BY <1>1, <1>2, <1>3 DEF TransferSound, Named
<1>5. UNCHANGED <<disk, nextSlot, monotonic, granted, fileCrashes>> /\ transfers' \in 0..MaxTransfers
  BY DEF Acquire, limiterVars, FilesInv, FileTypeOK
<1> HIDE DEF t
<1> QED BY <1>1, <1>3, <1>4, <1>5, OneTransfer

LEMMA EndKeepsFiles ==
  ASSUME FilesInv, NEW w \in Loaders, EndTransfer(w),
         UNCHANGED <<disk, limiterVars, transfers, fileCrashes>>
  PROVE  FilesInv'
<1>1. UNCHANGED <<disk, nextSlot, monotonic, granted, fileCrashes>> /\ transfers' \in 0..MaxTransfers
  BY DEF limiterVars, FilesInv, FileTypeOK
<1> QED BY <1>1, OneTransfer DEF EndTransfer

LEMMA ChooseNameKeepsFiles ==
  ASSUME FilesInv, NEW w \in Loaders, ChooseName(w)
  PROVE  FilesInv'
<1>1. transfer[w].place = "choosing" /\ UNCHANGED <<disk, limiterVars, transfers, fileCrashes>>
  BY DEF ChooseName
<1>2. TransferSound(transfer[w], disk) /\ transfer[w] \in Busy /\ Holding(w)
  BY <1>1, BusyTransfer DEF Holding
<1>3. UNCHANGED <<disk, nextSlot, monotonic, granted, fileCrashes>> /\ transfers' \in 0..MaxTransfers
  BY <1>1 DEF limiterVars, FilesInv, FileTypeOK
<1>4. transfer[w].target = Wants(w) /\ Wants(w) \in Paths /\ Wants(w) = Wanted[transfer[w].url]
  BY <1>1, <1>2, FileDownloadsAssumption DEF TransferSound, Wants, Busy
<1>5. CASE EndTransfer(w)
  BY <1>1, <1>5, EndKeepsFiles
<1>6. CASE /\ transfer[w].behavior = "save_duplicate" /\ ~transfer[w].retry /\ HasFreeName(Wants(w))
           /\ transfer' = [transfer EXCEPT ![w].place = "reserving", ![w].target = FreeName(Wants(w))]
  <2> DEFINE t == [transfer[w] EXCEPT !.place = "reserving", !.target = FreeName(Wants(w))]
  <2>1. /\ FreeName(Wants(w)) \in {Wants(w)} \cup NumberedNames(Wants(w))
        /\ FreeName(Wants(w)) \in Paths /\ ~OnDisk(FreeName(Wants(w)))
    BY <1>4, <1>6, FreeNameIsFree
  <2>2. transfer' = [transfer EXCEPT ![w] = t]
    BY <1>6, <1>2 DEF FilesInv, FileTypeOK
  <2>3. /\ t \in Busy /\ t.url = transfer[w].url /\ t.place = "reserving"
        /\ t.target = FreeName(Wants(w))
    BY <1>2, <2>1 DEF Busy, Places
  <2> HIDE DEF t
  <2>4. TransferSound(t, disk)
    BY <1>4, <2>1, <2>3 DEF TransferSound, OnDisk
  <2> QED BY <1>2, <1>3, <2>2, <2>3, <2>4, OneTransfer
<1>7. CASE /\ GoOn(w, "reserving")
           /\ ~(transfer[w].behavior = "skip" /\ ~transfer[w].retry /\ OnDisk(Wants(w)))
           /\ ~(transfer[w].behavior = "save_duplicate" /\ ~transfer[w].retry)
  <2> DEFINE t == [transfer[w] EXCEPT !.place = "reserving"]
  <2>1. transfer' = [transfer EXCEPT ![w] = t]
    BY <1>7 DEF GoOn
  <2>2. /\ t \in Busy /\ t.url = transfer[w].url /\ t.place = "reserving"
        /\ t.target = transfer[w].target /\ t.behavior = transfer[w].behavior
        /\ t.retry = transfer[w].retry
    BY <1>2 DEF Busy, Places
  <2> HIDE DEF t
  <2>3. MayReplace(t) \/ disk[t.target] = NoFile
    BY <1>2, <1>4, <1>7, <2>2 DEF MayReplace, OnDisk, Busy, Behaviors
  <2>4. TransferSound(t, disk)
    BY <1>4, <2>2, <2>3 DEF TransferSound
  <2> QED BY <1>2, <1>3, <2>1, <2>2, <2>4, OneTransfer
<1> QED BY <1>5, <1>6, <1>7 DEF ChooseName

\* From one place to the next with the name unchanged.
LEMMA NamedKeepsFiles ==
  ASSUME FilesInv, NEW w \in Loaders, transfer[w].place \in Named, NEW t \in Busy, t.place \in Named,
         t.url = transfer[w].url, t.target = transfer[w].target, t.retry = transfer[w].retry,
         t.behavior = transfer[w].behavior
  PROVE  TransferSound(t, disk) /\ Holding(w)
<1>1. TransferSound(transfer[w], disk)
  BY BusyTransfer DEF Named
<1> QED BY <1>1 DEF TransferSound, MayReplace, Named, Holding

LEMMA RequestKeepsFiles ==
  ASSUME FilesInv, NEW w \in Loaders, SendRequest(w) \/ Receive(w)
  PROVE  FilesInv'
<1>1. transfer[w].place \in Named /\ UNCHANGED <<disk, limiterVars, transfers, fileCrashes>>
  BY DEF SendRequest, Receive, Named
<1>2. UNCHANGED <<disk, nextSlot, monotonic, granted, fileCrashes>> /\ transfers' \in 0..MaxTransfers
  BY <1>1 DEF limiterVars, FilesInv, FileTypeOK
<1>3. transfer[w] \in Busy /\ transfer \in [Loaders -> Transfer]
  BY <1>1, BusyTransfer DEF Named
<1>4. \E t \in Busy : /\ t.place \in Named /\ t.url = transfer[w].url /\ t.target = transfer[w].target
                      /\ t.retry = transfer[w].retry /\ t.behavior = transfer[w].behavior
                      /\ transfer' = [transfer EXCEPT ![w] = t]
  <2>1. CASE GoOn(w, "receiving")
    <3> DEFINE t == [transfer[w] EXCEPT !.place = "receiving"]
    <3>1. t \in Busy /\ t.place \in Named /\ t.url = transfer[w].url /\ t.target = transfer[w].target
          /\ t.retry = transfer[w].retry /\ t.behavior = transfer[w].behavior
      BY <1>3 DEF Busy, Named, Places
    <3>2. transfer' = [transfer EXCEPT ![w] = t]
      BY <2>1 DEF GoOn
    <3> HIDE DEF t
    <3> QED BY <3>1, <3>2
  <2>2. CASE transfer' = [transfer EXCEPT ![w].place = "reserving", ![w].attempt = @ + 1]
    <3> DEFINE t == [transfer[w] EXCEPT !.place = "reserving", !.attempt = @ + 1]
    <3>0. transfer[w].attempt + 1 \in Nat
      BY <1>3 DEF Busy
    <3>1. t \in Busy /\ t.place \in Named /\ t.url = transfer[w].url /\ t.target = transfer[w].target
          /\ t.retry = transfer[w].retry /\ t.behavior = transfer[w].behavior
      BY <1>3, <3>0 DEF Busy, Named, Places
    <3>2. transfer' = [transfer EXCEPT ![w] = t]
      BY <1>3, <2>2
    <3> HIDE DEF t
    <3> QED BY <3>1, <3>2
  <2>3. ASSUME NEW body \in Bodies,
               transfer' = [transfer EXCEPT ![w].place = "replacing", ![w].body = body]
        PROVE  \E t \in Busy :
                 /\ t.place \in Named /\ t.url = transfer[w].url /\ t.target = transfer[w].target
                 /\ t.retry = transfer[w].retry /\ t.behavior = transfer[w].behavior
                 /\ transfer' = [transfer EXCEPT ![w] = t]
    <3> DEFINE t == [transfer[w] EXCEPT !.place = "replacing", !.body = body]
    <3>1. t \in Busy /\ t.place \in Named /\ t.url = transfer[w].url /\ t.target = transfer[w].target
          /\ t.retry = transfer[w].retry /\ t.behavior = transfer[w].behavior
      BY <1>3 DEF Busy, Named, Places
    <3>2. transfer' = [transfer EXCEPT ![w] = t]
      BY <1>3, <2>3
    <3> HIDE DEF t
    <3> QED BY <3>1, <3>2
  <2> QED BY <2>1, <2>2, <2>3 DEF SendRequest, Receive
<1>5. PICK t \in Busy : /\ t.place \in Named /\ t.url = transfer[w].url /\ t.target = transfer[w].target
                        /\ t.retry = transfer[w].retry /\ t.behavior = transfer[w].behavior
                        /\ transfer' = [transfer EXCEPT ![w] = t]
  BY <1>4, Zenon
<1>6. TransferSound(t, disk) /\ Holding(w)
  BY <1>1, <1>5, NamedKeepsFiles
<1> QED BY <1>2, <1>5, <1>6, OneTransfer

\* The slot is not before now, nor before the time the limiter keeps.
LEMMA SlotIsLate ==
  ASSUME FilesInv, NEW l \in Rules
  PROVE  Slot(l) \in Nat /\ Slot(l) >= nextSlot[l] /\ IntervalOf[l] \in Nat
         /\ Slot(l) + IntervalOf[l] \in Nat
<1>1. monotonic \in Nat /\ nextSlot[l] \in Nat /\ IntervalOf[l] \in Nat
  BY FileDownloadsAssumption DEF FilesInv, FileTypeOK
<1> QED BY <1>1 DEF Slot, Later

LEMMA ReserveKeepsFiles ==
  ASSUME FilesInv, NEW w \in Loaders, Reserve(w)
  PROVE  FilesInv'
<1> DEFINE l == transfer[w].rule
           t == [transfer[w] EXCEPT !.place = "waiting", !.slot = Slot(l)]
<1>1. /\ transfer[w].place = "reserving"
      /\ nextSlot' = [nextSlot EXCEPT ![l] = Slot(l) + IntervalOf[l]]
      /\ granted' = [granted EXCEPT ![l] = [last |-> Slot(l), count |-> @.count + 1]]
      /\ UNCHANGED <<disk, monotonic, transfers, fileCrashes>>
  BY DEF Reserve
<1>2. TransferSound(transfer[w], disk) /\ transfer[w] \in Busy /\ l \in Rules
      /\ transfer \in [Loaders -> Transfer] /\ Holding(w) /\ transfer[w].place \in Named
  BY <1>1, BusyTransfer DEF Holding, Named
<1>3. transfer' = [transfer EXCEPT ![w] = t]
  BY <1>2 DEF Reserve
<1>4. Slot(l) \in Nat /\ Slot(l) + IntervalOf[l] \in Nat
  BY <1>2, SlotIsLate
<1>5. t \in Busy /\ t.url = transfer[w].url /\ t.target = transfer[w].target
      /\ t.retry = transfer[w].retry /\ t.behavior = transfer[w].behavior /\ t.place = "waiting"
  BY <1>2, <1>4 DEF Busy, Places
<1> HIDE DEF t
<1>6. TransferSound(t, disk)
  BY <1>2, <1>5, NamedKeepsFiles DEF Named
<1>7. /\ nextSlot \in [Rules -> Nat] /\ granted \in [Rules -> [last : Nat, count : Nat]]
      /\ granted[l].count + 1 \in Nat
  BY <1>2 DEF FilesInv, FileTypeOK
<1>8. /\ nextSlot' \in [Rules -> Nat] /\ granted' \in [Rules -> [last : Nat, count : Nat]]
      /\ \A k \in Rules : granted'[k].count > 0 => nextSlot'[k] = granted'[k].last + IntervalOf[k]
  <2> DEFINE s == Slot(l)
             c == granted[l].count + 1
  <2>1. /\ nextSlot' = [nextSlot EXCEPT ![l] = s + IntervalOf[l]]
        /\ granted' = [granted EXCEPT ![l] = [last |-> s, count |-> c]]
        /\ s \in Nat /\ c \in Nat /\ s + IntervalOf[l] \in Nat
    BY <1>1, <1>4, <1>7
  <2> HIDE DEF s, c
  <2> QED BY <1>2, <1>7, <2>1 DEF FilesInv
<1>9. t \in Transfer /\ FileTypeOK'
  BY <1>1, <1>2, <1>3, <1>5, <1>8 DEF FilesInv, FileTypeOK, Transfer, Busy
<1>10. \A v \in Loaders : transfer'[v] = NoTransfer \/ TransferSound(transfer'[v], disk)
  BY <1>2, <1>3, <1>6 DEF FilesInv
<1>11. \A v \in Loaders : (Holding(v)' <=> Holding(v)) /\ Wants(v)' = Wants(v)
  BY <1>2, <1>3, <1>5 DEF Holding, Wants
<1> QED BY <1>1, <1>8, <1>9, <1>10, <1>11 DEF FilesInv

\* A file that is put in its place disturbs no other worker: one that wants the
\* same path waits, and a numbered name belongs to one path.
LEMMA ReplaceKeepsFiles ==
  ASSUME FilesInv, NEW w \in Loaders, Replace(w)
  PROVE  FilesInv'
<1> DEFINE t == transfer[w]
<1>1. t.place = "replacing" /\ EndTransfer(w) /\ UNCHANGED <<limiterVars, transfers, fileCrashes>>
  BY DEF Replace
<1>2. TransferSound(t, disk) /\ t \in Busy /\ Holding(w) /\ transfer \in [Loaders -> Transfer]
  BY <1>1, BusyTransfer DEF Holding
<1>3. t.target \in Paths /\ t.url \in Urls
      /\ t.target \in {Wanted[t.url]} \cup NumberedNames(Wanted[t.url])
  BY <1>1, <1>2 DEF TransferSound, Busy, Named
<1>4. /\ disk' \in [Paths -> Content \cup {NoFile}]
      /\ \A p \in Paths : p # t.target => disk'[p] = disk[p]
  <2>1. disk \in [Paths -> Content \cup {NoFile}]
    BY DEF FilesInv, FileTypeOK
  <2>2. [url |-> t.url, whole |-> t.body = "whole"] \in Content
    BY <1>3 DEF Content
  <2>3. disk' = disk \/ disk' = [disk EXCEPT ![t.target] = [url |-> t.url, whole |-> t.body = "whole"]]
    BY DEF Replace
  <2> QED BY <1>3, <2>1, <2>2, <2>3
<1>5. transfer'[w] = NoTransfer /\ \A v \in Loaders \ {w} : transfer'[v] = transfer[v]
  BY <1>1, <1>2 DEF EndTransfer
<1>6. FileTypeOK'
  BY <1>1, <1>4 DEF EndTransfer, FilesInv, FileTypeOK, limiterVars, Transfer
<1>7. ASSUME NEW v \in Loaders PROVE transfer'[v] = NoTransfer \/ TransferSound(transfer'[v], disk')
  <2> DEFINE r == transfer[v]
  <2>1. CASE v = w
    BY <1>5, <2>1
  <2>2. CASE v # w /\ r = NoTransfer
    BY <1>5, <2>2
  <2>3. CASE v # w /\ TransferSound(r, disk)
    <3>1. transfer'[v] = r /\ r \in Busy /\ r.url \in Urls /\ r.target \in Paths
      BY <1>5, <2>3 DEF TransferSound, Busy
    <3>2. CASE r.place \notin Named
      BY <2>3, <3>1, <3>2 DEF TransferSound
    <3>3. CASE r.place \in Named
      <4>1. LockOf[Wanted[r.url]] # LockOf[Wanted[t.url]]
        BY <1>2, <2>3, <3>3 DEF FilesInv, Holding, Named, Wants
      <4>2. r.target \in {Wanted[r.url]} \cup NumberedNames(Wanted[r.url])
        BY <2>3, <3>3 DEF TransferSound
      <4>3. r.target = t.target => r.target \in Contested
        BY <1>3, <3>1, <4>1, <4>2, NamesCollide
      <4>4. r.target # t.target => disk'[r.target] = disk[r.target]
        BY <1>4, <3>1
      <4> QED BY <2>3, <3>1, <4>3, <4>4 DEF TransferSound
    <3> QED BY <3>2, <3>3
  <2> QED BY <2>1, <2>2, <2>3 DEF FilesInv
<1>8. \A v \in Loaders \ {w} : (Holding(v)' <=> Holding(v)) /\ Wants(v)' = Wants(v)
  BY <1>5 DEF Holding, Wants
<1>9. ~Holding(w)'
  BY <1>5 DEF Holding, NoTransfer
<1> QED BY <1>1, <1>6, <1>7, <1>8, <1>9 DEF FilesInv, limiterVars

LEMMA ClockKeepsFiles == FilesInv /\ TickClock => FilesInv'
<1> SUFFICES ASSUME FilesInv, TickClock PROVE FilesInv'
  OBVIOUS
<1>1. monotonic' \in 0..MaxClock
  BY FileDownloadsAssumption DEF FilesInv, FileTypeOK, TickClock
<1> QED BY <1>1 DEF FilesInv, FileTypeOK, TickClock, Holding, Wants

LEMMA CrashKeepsFiles == FilesInv /\ CrashTransfers => FilesInv'
<1> SUFFICES ASSUME FilesInv, CrashTransfers PROVE FilesInv'
  OBVIOUS
<1>1. /\ transfer' = [w \in Loaders |-> NoTransfer] /\ nextSlot' = [l \in Rules |-> 0]
      /\ granted' = [l \in Rules |-> [last |-> 0, count |-> 0]]
      /\ UNCHANGED <<disk, monotonic, transfers>>
  BY DEF CrashTransfers
<1>2. fileCrashes' \in 0..MaxFileCrashes
  BY FileDownloadsAssumption DEF FilesInv, FileTypeOK, CrashTransfers
<1>3. FileTypeOK'
  BY <1>1, <1>2 DEF FilesInv, FileTypeOK, Transfer
<1> QED BY <1>1, <1>3 DEF FilesInv, Holding, NoTransfer

LEMMA FilesNext == FilesInv /\ [FileNext]_fileVars => FilesInv'
<1> SUFFICES ASSUME FilesInv, [FileNext]_fileVars PROVE FilesInv'
  OBVIOUS
<1>1. ASSUME NEW w \in Loaders, BeginTransfer(w) PROVE FilesInv'
  BY <1>1, BeginKeepsFiles
<1>2. ASSUME NEW w \in Loaders, TransferStep(w) PROVE FilesInv'
  BY <1>2, AcquireKeepsFiles, ChooseNameKeepsFiles, ReserveKeepsFiles, RequestKeepsFiles,
     ReplaceKeepsFiles DEF TransferStep
<1>3. ASSUME NEW w \in Loaders, AbortTransfer(w) PROVE FilesInv'
  BY <1>3, EndKeepsFiles DEF AbortTransfer
<1>4. CASE UNCHANGED fileVars
  BY <1>4 DEF fileVars, FilesInv, FileTypeOK, Holding, Wants
<1> QED BY <1>1, <1>2, <1>3, <1>4, ClockKeepsFiles, CrashKeepsFiles DEF FileNext

-----------------------------------------------------------------------------
(* FileDownloads: the theorems *)

LEMMA FilesAlways == FileSpec => []FilesInv
<1> QED BY FilesStart, FilesNext, PTL DEF FileSpec

\* The types of FileDownloads hold for any number of workers, files and rules.
THEOREM FileTypes == FileSpec => []FileTypeOK
<1>1. FilesInv => FileTypeOK
  BY DEF FilesInv
<1> QED BY <1>1, FilesAlways, PTL

\* The requests of all workers and their retries start an interval apart: each
\* slot of RateLimiter._reserve_delay is taken from the time the last one left.
THEOREM SlotsStayApart == FileSpec => SlotsAreSpaced
<1> DEFINE Goal == \A l \in Rules : granted'[l].count > 1 /\ granted'[l].count > granted[l].count
                     => granted'[l].last >= granted[l].last + IntervalOf[l]
<1>1. ASSUME FilesInv, [FileNext]_fileVars PROVE [Goal]_fileVars
  <2> SUFFICES ASSUME NEW l \in Rules, granted'[l].count > 1, granted'[l].count > granted[l].count
               PROVE  granted'[l].last >= granted[l].last + IntervalOf[l]
    OBVIOUS
  <2>1. /\ granted \in [Rules -> [last : Nat, count : Nat]] /\ granted[l].count \in Nat
        /\ granted[l].last \in Nat
    BY <1>1 DEF FilesInv, FileTypeOK
  <2>2. granted' # granted
    BY <2>1
  <2>3. ~CrashTransfers
    BY DEF CrashTransfers
  <2>4. PICK w \in Loaders : Reserve(w)
    BY <1>1, <2>2, <2>3
       DEF FileNext, fileVars, limiterVars, BeginTransfer, TransferStep, Acquire, ChooseName,
           SendRequest, Receive, Replace, AbortTransfer, TickClock
  <2>5. granted' = [granted EXCEPT ![transfer[w].rule] =
                      [last |-> Slot(transfer[w].rule), count |-> @.count + 1]]
    BY <2>4 DEF Reserve
  <2>6. l = transfer[w].rule
    BY <2>1, <2>5
  <2>7. granted'[l].count = granted[l].count + 1 /\ granted'[l].last = Slot(l)
    BY <2>1, <2>5, <2>6
  <2>8. granted[l].count > 0
    BY <2>1, <2>7
  <2>9. nextSlot[l] = granted[l].last + IntervalOf[l]
    BY <1>1, <2>8 DEF FilesInv
  <2> QED BY <1>1, <2>7, <2>9, SlotIsLate
<1>2. FileSpec => [][Goal]_fileVars
  <2> HIDE DEF Goal
  <2> QED BY <1>1, FilesAlways, PTL DEF FileSpec
<1> QED BY <1>2 DEF SlotsAreSpaced

\* No two workers ever choose one name: a file is replaced only by a worker that
\* was told to overwrite it or that repeats an unsuccessful transfer, but under
\* a contested name (FileDownloader._path_locks, unique_download_path).
THEOREM FilesAreKept == FileSpec => DuplicatesAreKept
<1> DEFINE Goal ==
      \A p \in Paths \ Contested : OnDisk(p) /\ disk'[p] # disk[p]
        => \E w \in Loaders : /\ transfer[w].place = "replacing" /\ transfer[w].target = p
                              /\ transfer[w].behavior = "overwrite" \/ transfer[w].retry
<1>1. ASSUME FilesInv, [FileNext]_fileVars PROVE [Goal]_fileVars
  <2> SUFFICES ASSUME NEW p \in Paths \ Contested, OnDisk(p), disk'[p] # disk[p]
               PROVE  \E w \in Loaders :
                        /\ transfer[w].place = "replacing" /\ transfer[w].target = p
                        /\ transfer[w].behavior = "overwrite" \/ transfer[w].retry
    OBVIOUS
  <2>1. PICK w \in Loaders : Replace(w)
    BY <1>1 DEF FileNext, fileVars, BeginTransfer, TransferStep, Acquire, ChooseName, Reserve,
                SendRequest, Receive, AbortTransfer, TickClock, CrashTransfers
  <2>2. transfer[w].place = "replacing" /\ transfer[w].place \in Named
    BY <2>1 DEF Replace, Named
  <2>3. transfer[w].target = p
    <3>1. disk \in [Paths -> Content \cup {NoFile}]
      BY <1>1 DEF FilesInv, FileTypeOK
    <3> QED BY <2>1, <3>1 DEF Replace
  <2>4. MayReplace(transfer[w])
    <3>1. TransferSound(transfer[w], disk)
      BY <1>1, <2>2, BusyTransfer
    <3> QED BY <2>2, <2>3, <3>1 DEF TransferSound, OnDisk
  <2> QED BY <2>2, <2>3, <2>4 DEF MayReplace
<1>2. FileSpec => [][Goal]_fileVars
  <2> HIDE DEF Goal
  <2> QED BY <1>1, FilesAlways, PTL DEF FileSpec
<1> QED BY <1>2 DEF DuplicatesAreKept


-----------------------------------------------------------------------------
(* WorkflowCandidates: the nodes of a run *)

NodeKinds == {"target", "sync", "collect", "recollect", "filter", "act"}

\* Nodes go on with a collection, the filter and the actions, or they do not.
LEMMA Continued ==
  ASSUME NEW s \in Seq(NodeKinds), NEW t \in Seq(NodeKinds), t # <<>> => Len(t) = 3
  PROVE  /\ s \o t \in Seq(NodeKinds) /\ Len(s \o t) = Len(s) + Len(t) /\ Len(t) \in {0, 3}
         /\ \A i \in 1..Len(s) : (s \o t)[i] = s[i]
         /\ t # <<>> => /\ (s \o t)[Len(s) + 1] = t[1] /\ (s \o t)[Len(s) + 2] = t[2]
                        /\ (s \o t)[Len(s) + 3] = t[3]
<1>1. Len(s) \in Nat /\ Len(t) \in {0, 3}
  OBVIOUS
<1>2. t # <<>> => Len(t) = 3
  OBVIOUS
<1> QED BY <1>1, <1>2

\* The compiled nodes come in their order, and sets are filtered before they are
\* acted upon.
LEMMA NodeOrder ==
  ASSUME NEW ask, NEW i \in 1..Len(Nodes(ask))
  PROVE  /\ Len(Nodes(ask)) \in 2..8
         /\ Nodes(ask)[1] = "target" /\ (Nodes(ask)[i] = "target" => i = 1)
         /\ Nodes(ask)[i] \in NodeKinds
         /\ i = Len(Nodes(ask)) => Nodes(ask)[i] \in {"sync", "act"}
         /\ i < Len(Nodes(ask)) =>
              /\ Nodes(ask)[i + 1] = "filter" <=> Nodes(ask)[i] \in {"collect", "recollect"}
              /\ Nodes(ask)[i + 1] = "act" <=> Nodes(ask)[i] = "filter"
<1> DEFINE a == <<"target", "sync">>
           b == IF "download" \in ask.actions THEN <<"collect", "filter", "act">> ELSE <<>>
           c == IF "retry" \in ask.actions THEN <<"recollect", "filter", "act">> ELSE <<>>
           ab == a \o b
           n == ab \o c
<1>1. a \in Seq(NodeKinds) /\ Len(a) = 2 /\ a[1] = "target" /\ a[2] = "sync"
  <2>1. "target" \in NodeKinds /\ "sync" \in NodeKinds
    BY DEF NodeKinds
  <2> QED BY <2>1
<1>2. /\ b \in Seq(NodeKinds)
      /\ b # <<>> => Len(b) = 3 /\ b[1] = "collect" /\ b[2] = "filter" /\ b[3] = "act"
  <2>1. "collect" \in NodeKinds /\ "filter" \in NodeKinds /\ "act" \in NodeKinds
    BY DEF NodeKinds
  <2> QED BY <2>1
<1>3. /\ c \in Seq(NodeKinds)
      /\ c # <<>> => Len(c) = 3 /\ c[1] = "recollect" /\ c[2] = "filter" /\ c[3] = "act"
  <2>1. "recollect" \in NodeKinds /\ "filter" \in NodeKinds /\ "act" \in NodeKinds
    BY DEF NodeKinds
  <2> QED BY <2>1
<1>4. Nodes(ask) = n
  BY DEF Nodes
<1> HIDE DEF a, b, c
<1>5. /\ Len(ab) = 2 + Len(b) /\ ab \in Seq(NodeKinds)
      /\ (b = <<>> /\ Len(b) = 0) \/ (b # <<>> /\ Len(b) = 3)
      /\ ab[1] = "target" /\ ab[2] = "sync"
      /\ b # <<>> => ab[3] = "collect" /\ ab[4] = "filter" /\ ab[5] = "act"
  <2>1. /\ ab \in Seq(NodeKinds) /\ Len(ab) = Len(a) + Len(b) /\ Len(b) \in {0, 3}
        /\ \A k \in 1..Len(a) : ab[k] = a[k]
        /\ b # <<>> => /\ ab[Len(a) + 1] = b[1] /\ ab[Len(a) + 2] = b[2]
                       /\ ab[Len(a) + 3] = b[3]
    BY <1>1, <1>2, Continued
  <2>2. b = <<>> => Len(b) = 0
    OBVIOUS
  <2> HIDE DEF ab
  <2> QED BY <1>1, <1>2, <2>1, <2>2
<1> HIDE DEF ab
<1>6. /\ Len(n) = Len(ab) + Len(c) /\ n \in Seq(NodeKinds)
      /\ (c = <<>> /\ Len(c) = 0) \/ (c # <<>> /\ Len(c) = 3)
      /\ \A k \in 1..Len(ab) : n[k] = ab[k]
      /\ c # <<>> => /\ n[Len(ab) + 1] = "recollect" /\ n[Len(ab) + 2] = "filter"
                     /\ n[Len(ab) + 3] = "act"
  <2>1. /\ n \in Seq(NodeKinds) /\ Len(n) = Len(ab) + Len(c) /\ Len(c) \in {0, 3}
        /\ \A k \in 1..Len(ab) : n[k] = ab[k]
        /\ c # <<>> => /\ n[Len(ab) + 1] = c[1] /\ n[Len(ab) + 2] = c[2]
                       /\ n[Len(ab) + 3] = c[3]
    BY <1>3, <1>5, Continued
  <2>2. c = <<>> => Len(c) = 0
    OBVIOUS
  <2> HIDE DEF n
  <2> QED BY <1>3, <2>1, <2>2
<1> HIDE DEF n
<1>7. n[1] = "target" /\ n[2] = "sync"
  BY <1>5, <1>6
<1>a. (b = <<>> /\ Len(ab) = 2) \/ (b # <<>> /\ Len(ab) = 5)
  <2>1. CASE b = <<>> /\ Len(b) = 0
    BY <1>5, <2>1
  <2>2. CASE b # <<>> /\ Len(b) = 3
    BY <1>5, <2>2
  <2> QED BY <1>5, <2>1, <2>2
<1>b. (c = <<>> /\ Len(n) = Len(ab)) \/ (c # <<>> /\ Len(n) = Len(ab) + 3)
  <2>1. CASE c = <<>> /\ Len(c) = 0
    BY <1>6, <1>a, <2>1
  <2>2. CASE c # <<>> /\ Len(c) = 3
    BY <1>6, <1>a, <2>2
  <2> QED BY <1>6, <2>1, <2>2
<1>8. b # <<>> => n[3] = "collect" /\ n[4] = "filter" /\ n[5] = "act"
  <2>1. b # <<>> => 3 \in 1..Len(ab) /\ 4 \in 1..Len(ab) /\ 5 \in 1..Len(ab)
    BY <1>a
  <2> QED BY <1>5, <1>6, <2>1
<1>9. i \in 1..Len(n)
  BY <1>4
<1>10. CASE b = <<>> /\ c = <<>>
  <2>1. Len(n) = 2 /\ i \in {1, 2}
    BY <1>a, <1>b, <1>9, <1>10
  <2> QED BY <1>4, <1>7, <2>1 DEF NodeKinds
<1>11. CASE b # <<>> /\ c = <<>>
  <2>0. Len(n) = 5
    BY <1>a, <1>b, <1>11
  <2>1. i \in {1, 2, 3, 4, 5}
    BY <1>9, <2>0
  <2> QED BY <1>4, <1>7, <1>8, <1>11, <2>0, <2>1 DEF NodeKinds
<1>12. CASE b = <<>> /\ c # <<>>
  <2>a. Len(ab) = 2
    BY <1>a, <1>12
  <2>b. Len(n) = Len(ab) + 3
    BY <1>b, <1>12
  <2>0. Len(n) = 5 /\ Len(ab) = 2
    BY <2>a, <2>b
  <2>1. i \in {1, 2, 3, 4, 5}
    BY <1>9, <2>0
  <2>2. n[3] = "recollect" /\ n[4] = "filter" /\ n[5] = "act"
    BY <1>6, <1>12, <2>0, <2>1
  <2> QED BY <1>4, <1>7, <2>0, <2>1, <2>2 DEF NodeKinds
<1>13. CASE b # <<>> /\ c # <<>>
  <2>a. Len(ab) = 5
    BY <1>a, <1>13
  <2>b. Len(n) = Len(ab) + 3
    BY <1>b, <1>13
  <2>0. Len(n) = 8 /\ Len(ab) = 5
    BY <2>a, <2>b
  <2>1. i \in {1, 2, 3, 4, 5, 6, 7, 8}
    BY <1>9, <2>0
  <2>2. n[6] = "recollect" /\ n[7] = "filter" /\ n[8] = "act"
    BY <1>6, <1>13, <2>0, <2>1
  <2> QED BY <1>4, <1>7, <1>8, <1>13, <2>0, <2>1, <2>2 DEF NodeKinds
<1> QED BY <1>10, <1>11, <1>12, <1>13

-----------------------------------------------------------------------------
(* WorkflowCandidates: what is true of a run *)

NodeOf(run) == Nodes(run.ask)[run.step]

\* The artists of a run are those its definition allows.
TargetsSound(run) ==
  /\ run.ask.max > 0 => Cardinality(run.ids) <= run.ask.max
  /\ run.ask.scope \notin Bulk /\ run.ask.works = {} => run.ids \subseteq run.ask.artists

\* Its set has been collected for them, in its range, and is filtered before a
\* job acts upon it.
SetSound(run) ==
  /\ NodeOf(run) \in {"filter", "act"} =>
       /\ \A w \in run.cand : /\ OwnerOf[w] \in run.ids /\ w \in run.ask.range
                              /\ run.ask.scope \in ByWork => w \in run.ask.works
       /\ run.source \in {run.ask.mode, "failed_files"}
  /\ NodeOf(run) = "act" /\ run.ask.blocks => run.cand \cap Tagged = {}
  /\ run.phase \in {"jobs", "retry"} => run.left \subseteq run.cand
  /\ run.phase = "retry" => NodeOf(run) = "act" /\ run.source = "failed_files"
  /\ run.phase = "jobs" => NodeOf(run) \in {"target", "sync", "act"}

\* A new work the run has not tried yet is on its way: in the set and, once jobs
\* act, in a job that has not chosen its pages or is still to come to it, unless
\* the run is bound to fail.
Pursued(run, w) ==
  /\ NodeOf(run) \in {"filter", "act"} /\ w \in run.cand
  /\ run.source = "new_since_last_download" /\ run.ask.stop = 0
  /\ run.ask.blocks => w \notin Tagged
  /\ run.phase = "jobs" =>
       \/ run.ill # {}
       \/ \E j \in run.open : OwnerOf[w] \in j /\ (j \notin run.begun \/ w \in run.left)

\* hold: the artworks some candidate set holds
WorkSound(run, hold) ==
  /\ run \in Run /\ run.phase # "completed" /\ run.step \in 1..Len(Nodes(run.ask))
  /\ run.cand \subseteq hold
  /\ TargetsSound(run) /\ SetSound(run)
  /\ run.phase \in {"node", "jobs"} => \A w \in run.wanted \ run.taken : Pursued(run, w)

RunSound(run, hold) ==
  /\ WorkSound(run, hold)
  /\ run.phase = "node" /\ NodeOf(run) = "target" => run.ids = {}
  /\ run.phase = "jobs" => \A i, j \in run.open : i # j => i \cap j = {}

\* A step leaves a run sound, or completed with all it wanted taken.
Fit(run, hold) ==
  \/ RunSound(run, hold)
  \/ run.phase = "completed" /\ run.wanted \subseteq run.taken

LibraryTypes ==
  /\ listed \in SUBSET Owners /\ gone \in SUBSET listed
  /\ checked \in [Owners -> 0..Cardinality(Owners)]
  /\ cursor \in [Owners -> 0..MaxWorks]
  /\ status \in [Works -> PageStatuses]

HistoryTypes ==
  /\ ahead \in [Owners -> SUBSET Owners] /\ refused \in SUBSET Owners
  /\ started \in 0..MaxRuns /\ removals \in 0..MaxRemovals /\ troubles \in 0..MaxTroubles

\* What candidate sets hold stays in the library.
KeptInv == kept \in SUBSET Works /\ \A w \in kept : OwnerOf[w] \in listed /\ status[w] # "absent"

RunsInv == runs \in [Runs -> Run] /\ \A r \in Runs : RunSound(runs[r], kept)

\* Ranks order the artists by the time of their check, with room below the first
\* for those that have none: no rank is lost when an artist moves or goes.
Never(ranks) == {a \in Owners : ranks[a] = 0}
RanksSound(ranks, later) ==
  /\ ranks \in [Owners -> 0..Cardinality(Owners)]
  /\ \A a, b \in Owners : a # b /\ ranks[a] = ranks[b] => ranks[a] = 0
  /\ \A a \in Owners : ranks[a] # 0 => ranks[a] > Cardinality(Never(ranks))
  /\ \A a \in Owners : \A b \in later[a] : ranks[b] > ranks[a]
RanksInv == RanksSound(checked, ahead)

CandInv == LibraryTypes /\ HistoryTypes /\ KeptInv /\ RunsInv /\ RanksInv /\ missed = {}

LEMMA AskedRuns ==
  ASSUME NEW run \in Run
  PROVE  /\ run.ask \in Ask /\ run.ask \in Asks /\ run.ids \in SUBSET Owners /\ run.cand \in SUBSET Works
         /\ run.open \in SUBSET SUBSET Owners /\ run.left \in SUBSET Works
         /\ run.phase \in RunPhases /\ run.source \in Sources /\ run.step \in 1..8
         /\ run.begun \in SUBSET SUBSET Owners /\ run.ill \in SUBSET SUBSET Owners
         /\ run.wanted \in SUBSET Works /\ run.taken \in SUBSET Works
  BY WorkflowCandidatesAssumption DEF Run

LEMMA FreeIsSound == ASSUME NEW hold PROVE RunSound(FreeRun, hold) /\ FreeRun \in Run
<1>1. NoAsk \in Asks /\ NoAsk \in Ask
  BY WorkflowCandidatesAssumption DEF NoAsk
<1>2. FreeRun \in Run
  BY <1>1 DEF FreeRun, Run, RunPhases, Sources
<1>3. 1 \in 1..Len(Nodes(NoAsk)) /\ NodeOf(FreeRun) = "target"
  <2>1. Len(Nodes(NoAsk)) \in Nat
    BY DEF Nodes
  <2>2. 1 \in 1..Len(Nodes(NoAsk))
    BY DEF Nodes
  <2> QED BY <2>2, NodeOrder DEF NodeOf, FreeRun
<1>4. TargetsSound(FreeRun)
  BY <1>1, FS_EmptySet DEF TargetsSound, FreeRun, Ask
<1> QED BY <1>2, <1>3, <1>4 DEF RunSound, WorkSound, FreeRun, SetSound

\* One run goes on.
LEMMA OneRun ==
  ASSUME CandInv, NEW r \in Runs, NEW run, SetRun(r, run), NEW hold, kept \subseteq hold, Fit(run, hold)
  PROVE  runs' \in [Runs -> Run] /\ (\A q \in Runs : RunSound(runs'[q], hold)) /\ missed' = {}
<1>1. runs \in [Runs -> Run] /\ missed = {} /\ \A q \in Runs : RunSound(runs[q], hold)
  BY DEF CandInv, RunsInv, RunSound, WorkSound
<1>2. CASE run.phase = "completed"
  <2>1. runs' = [runs EXCEPT ![r] = FreeRun] /\ missed' = missed \cup (run.wanted \ run.taken)
    BY <1>2 DEF SetRun
  <2>2. run.wanted \subseteq run.taken
    BY <1>2 DEF Fit, RunSound, WorkSound
  <2> QED BY <1>1, <2>1, <2>2, FreeIsSound
<1>3. CASE run.phase # "completed"
  <2>1. runs' = [runs EXCEPT ![r] = run] /\ missed' = missed
    BY <1>3 DEF SetRun
  <2>2. RunSound(run, hold) /\ run \in Run
    BY <1>3 DEF Fit, RunSound, WorkSound
  <2> QED BY <1>1, <2>1, <2>2
<1> QED BY <1>2, <1>3

\* A run goes on to the next node with nothing left to try.
LEMMA AfterIsFit ==
  ASSUME NEW hold, NEW run, WorkSound(run, hold), NodeOf(run) \in {"target", "sync", "act"},
         run.wanted \subseteq run.taken
  PROVE  Fit(After(run), hold)
<1>1. run \in Run /\ run.step \in 1..Len(Nodes(run.ask)) /\ run.cand \subseteq hold /\ TargetsSound(run)
  BY DEF WorkSound
<1>2. CASE run.step = Len(Nodes(run.ask))
  BY <1>1, <1>2 DEF After, Fit, Run
<1>3. CASE run.step # Len(Nodes(run.ask))
  <2> DEFINE next == [run EXCEPT !.phase = "node", !.step = @ + 1, !.ill = {}]
             n == Len(Nodes(run.ask))
  <2>1. n \in 2..8 /\ run.step \in 1..8 /\ run.step < n
    BY <1>1, <1>3, NodeOrder, AskedRuns
  <2>2. run.step + 1 \in 1..n /\ run.step + 1 \in 1..8 /\ run.step + 1 # 1
    <3>1. \A m \in 2..8, i \in 1..8 : i < m => i + 1 \in 1..m /\ i + 1 \in 1..8 /\ i + 1 # 1
      OBVIOUS
    <3> HIDE DEF n
    <3> QED BY <2>1, <3>1
  <2>3. /\ next.phase = "node" /\ next.step = run.step + 1 /\ next.ask = run.ask
        /\ next.ids = run.ids /\ next.cand = run.cand
        /\ next.wanted = run.wanted /\ next.taken = run.taken
    BY <1>1 DEF Run
  <2>4. next \in Run
    BY <1>1, <2>2 DEF Run, RunPhases
  <2>5. NodeOf(next) \notin {"filter", "act", "target"}
    <3>1. /\ Nodes(run.ask)[run.step + 1] = "filter" <=> Nodes(run.ask)[run.step] \in {"collect", "recollect"}
          /\ Nodes(run.ask)[run.step + 1] = "act" <=> Nodes(run.ask)[run.step] = "filter"
      BY <1>1, <2>1, NodeOrder
    <3>2. Nodes(run.ask)[run.step + 1] # "target"
      BY <2>2, NodeOrder
    <3> QED BY <2>3, <3>1, <3>2 DEF NodeOf
  <2>6. TargetsSound(next)
    BY <1>1, <2>3 DEF TargetsSound
  <2> HIDE DEF next
  <2>7. SetSound(next)
    BY <2>3, <2>5 DEF SetSound
  <2>8. After(run) = next
    BY <1>3 DEF After, next
  <2>9. next.wanted \ next.taken = {} /\ next.step \in 1..Len(Nodes(next.ask)) /\ next.cand \subseteq hold
    BY <1>1, <2>2, <2>3
  <2> QED BY <2>3, <2>4, <2>5, <2>6, <2>7, <2>8, <2>9 DEF Fit, RunSound, WorkSound
<1> QED BY <1>2, <1>3

\* A node creates its jobs: disjoint, and one of them for each new work.
LEMMA JobsAreFit ==
  ASSUME NEW hold, NEW run, WorkSound(run, hold), run.phase = "node",
         NodeOf(run) \in {"target", "sync", "act"}, NEW jobs \in SUBSET SUBSET Owners,
         \A i, j \in jobs : i # j => i \cap j = {},
         \A w \in run.wanted \ run.taken : \E j \in jobs : OwnerOf[w] \in j
  PROVE  Fit(WithJobs(run, jobs), hold)
<1>1. CASE jobs = {}
  BY <1>1, AfterIsFit DEF WithJobs
<1>2. CASE jobs # {}
  <2> DEFINE next == [run EXCEPT !.phase = "jobs", !.open = jobs, !.begun = {}, !.left = {}]
  <2>1. /\ run \in Run /\ run.step \in 1..Len(Nodes(run.ask)) /\ run.cand \subseteq hold
        /\ TargetsSound(run) /\ SetSound(run)
        /\ \A w \in run.wanted \ run.taken : Pursued(run, w)
    BY DEF WorkSound
  <2>2. /\ next \in Run /\ next.phase = "jobs" /\ next.open = jobs /\ next.begun = {}
        /\ next.left = {} /\ next.ask = run.ask /\ next.step = run.step /\ next.ids = run.ids
        /\ next.cand = run.cand /\ next.wanted = run.wanted /\ next.taken = run.taken
        /\ next.source = run.source
    BY <2>1 DEF Run, RunPhases
  <2>3. WithJobs(run, jobs) = next
    BY <1>2 DEF WithJobs
  <2> HIDE DEF next
  <2>4. NodeOf(next) = NodeOf(run) /\ TargetsSound(next)
    BY <2>1, <2>2 DEF NodeOf, TargetsSound
  <2>5. SetSound(next)
    BY <2>1, <2>2, <2>4 DEF SetSound
  <2>6. \A w \in next.wanted \ next.taken : Pursued(next, w)
    BY <2>1, <2>2, <2>4 DEF Pursued
  <2> QED BY <2>1, <2>2, <2>3, <2>4, <2>5, <2>6 DEF Fit, RunSound, WorkSound
<1> QED BY <1>1, <1>2

\* A job ends: it ends ill, or no new work of its artists is left to it.
LEMMA EndedIsFit ==
  ASSUME NEW hold, NEW run, WorkSound(run, hold), run.phase \in {"jobs", "retry"}, NEW j \in run.open,
         run.phase = "jobs" => \A i, k \in run.open : i # k => i \cap k = {},
         NEW ill \in BOOLEAN,
         run.phase = "jobs" /\ ~ill /\ run.ill = {} =>
           \A w \in run.wanted \ run.taken : OwnerOf[w] \notin j
  PROVE  Fit(Ended(run, j, ill), hold)
<1> DEFINE rest == [run EXCEPT !.open = @ \ {j}, !.ill = IF ill THEN @ \cup {j} ELSE @,
                               !.left = {w \in @ : OwnerOf[w] \notin j}]
<1>1. /\ run \in Run /\ run.step \in 1..Len(Nodes(run.ask)) /\ run.cand \subseteq hold
      /\ TargetsSound(run) /\ SetSound(run)
      /\ run.phase = "jobs" => \A w \in run.wanted \ run.taken : Pursued(run, w)
  BY DEF WorkSound
<1>2. /\ rest \in Run /\ rest.phase = run.phase /\ rest.open = run.open \ {j} /\ rest.begun = run.begun
      /\ rest.left = {w \in run.left : OwnerOf[w] \notin j} /\ rest.ask = run.ask /\ rest.step = run.step
      /\ rest.ids = run.ids /\ rest.cand = run.cand /\ rest.wanted = run.wanted
      /\ rest.taken = run.taken /\ rest.source = run.source
      /\ rest.ill = IF ill THEN run.ill \cup {j} ELSE run.ill
  <2>1. /\ run.open \ {j} \in SUBSET SUBSET Owners /\ {w \in run.left : OwnerOf[w] \notin j} \in SUBSET Works
        /\ (IF ill THEN run.ill \cup {j} ELSE run.ill) \in SUBSET SUBSET Owners
    BY <1>1, AskedRuns
  <2> QED BY <1>1, <2>1 DEF Run
<1>3. Ended(run, j, ill) = IF rest.open # {} THEN rest
                           ELSE IF rest.ill # {} THEN [rest EXCEPT !.phase = "failed"]
                           ELSE IF run.phase = "retry" THEN FreeRun
                           ELSE After(rest)
  BY DEF Ended
<1> HIDE DEF rest
<1>4. NodeOf(rest) = NodeOf(run) /\ TargetsSound(rest)
  BY <1>1, <1>2 DEF NodeOf, TargetsSound
<1>5. SetSound(rest)
  BY <1>1, <1>2, <1>4 DEF SetSound
<1>6. ASSUME run.phase = "jobs", NEW w \in rest.wanted \ rest.taken PROVE Pursued(rest, w)
  <2>1. Pursued(run, w)
    BY <1>1, <1>2, <1>6
  <2>2. CASE rest.ill # {}
    BY <1>2, <1>4, <2>1, <2>2 DEF Pursued
  <2>3. CASE rest.ill = {}
    <3>1. run.ill = {} /\ ~ill /\ OwnerOf[w] \notin j
      BY <1>2, <1>6, <2>3
    <3>2. PICK i \in run.open : OwnerOf[w] \in i /\ (i \notin run.begun \/ w \in run.left)
      BY <1>6, <2>1, <3>1 DEF Pursued
    <3>3. i \in rest.open /\ (i \notin rest.begun \/ w \in rest.left)
      BY <1>2, <3>1, <3>2
    <3> QED BY <1>2, <1>4, <2>1, <3>2, <3>3 DEF Pursued
  <2> QED BY <2>2, <2>3
<1>7. WorkSound(rest, hold)
  BY <1>1, <1>2, <1>4, <1>5, <1>6 DEF WorkSound
<1>8. CASE rest.open # {}
  BY <1>2, <1>3, <1>7, <1>8 DEF Fit, RunSound
<1>9. CASE rest.open = {} /\ rest.ill # {}
  <2> DEFINE lost == [rest EXCEPT !.phase = "failed"]
  <2>1. /\ lost \in Run /\ lost.phase = "failed" /\ lost.ask = rest.ask /\ lost.step = rest.step
        /\ lost.ids = rest.ids /\ lost.cand = rest.cand /\ lost.source = rest.source
    BY <1>2 DEF Run, RunPhases
  <2>2. Ended(run, j, ill) = lost
    BY <1>3, <1>9
  <2> HIDE DEF lost
  <2>3. NodeOf(lost) = NodeOf(rest) /\ TargetsSound(lost)
    BY <1>4, <2>1 DEF NodeOf, TargetsSound
  <2>4. SetSound(lost)
    BY <1>5, <2>1, <2>3 DEF SetSound
  <2> QED BY <1>7, <2>1, <2>2, <2>3, <2>4 DEF Fit, RunSound, WorkSound
<1>10. CASE rest.open = {} /\ rest.ill = {} /\ run.phase = "retry"
  BY <1>3, <1>10, FreeIsSound DEF Fit
<1>11. CASE rest.open = {} /\ rest.ill = {} /\ run.phase = "jobs"
  <2>1. rest.wanted \subseteq rest.taken
    <3>1. ASSUME NEW w \in rest.wanted \ rest.taken PROVE FALSE
      BY <1>2, <1>6, <1>11, <3>1 DEF Pursued
    <3> QED BY <3>1
  <2>2. NodeOf(rest) \in {"target", "sync", "act"}
    BY <1>2, <1>5, <1>11 DEF SetSound
  <2> QED BY <1>3, <1>7, <1>11, <2>1, <2>2, AfterIsFit
<1> QED BY <1>8, <1>9, <1>10, <1>11

\* A step of one run that leaves the library alone.
LEMMA OneStep ==
  ASSUME CandInv, NEW r \in Runs, NEW run, SetRun(r, run), Fit(run, kept),
         UNCHANGED <<shelf, kept, ahead, refused>>,
         started' \in 0..MaxRuns, removals' \in 0..MaxRemovals, troubles' \in 0..MaxTroubles
  PROVE  CandInv'
<1>1. RunsInv' /\ missed' = {}
  BY OneRun DEF RunsInv
<1>2. LibraryTypes' /\ KeptInv'
  BY DEF CandInv, LibraryTypes, KeptInv, shelf
<1>3. HistoryTypes' /\ RanksInv'
  BY DEF CandInv, HistoryTypes, RanksInv, shelf
<1> QED BY <1>1, <1>2, <1>3 DEF CandInv

LEMMA Plain ==
  ASSUME CandInv, NEW r \in Runs, NEW run, SetRun(r, run), Fit(run, kept),
         UNCHANGED <<shelf, kept, ahead, refused, counts>>
  PROVE  CandInv'
  BY OneStep DEF CandInv, HistoryTypes, counts

LEMMA StartRunStep ==
  ASSUME CandInv, NEW r \in Runs, NEW ask \in Asks, StartRun(r, ask)
  PROVE  CandInv'
<1> DEFINE run == [FreeRun EXCEPT !.phase = "node", !.ask = ask]
<1>1. /\ run \in Run /\ run.phase = "node" /\ run.ask = ask /\ run.step = 1 /\ run.ids = {}
      /\ run.cand = {} /\ run.wanted = {} /\ run.left = {}
  BY FreeIsSound DEF FreeRun, Run, RunPhases
<1>2. SetRun(r, run) /\ started < MaxRuns /\ started' = started + 1
      /\ UNCHANGED <<shelf, kept, ahead, refused, removals, troubles>>
  BY DEF StartRun
<1> HIDE DEF run
<1>3. 1 \in 1..Len(Nodes(ask)) /\ NodeOf(run) = "target"
  <2>1. Len(Nodes(ask)) \in Nat
    BY DEF Nodes
  <2>2. 1 \in 1..Len(Nodes(ask))
    BY DEF Nodes
  <2> QED BY <1>1, <2>2, NodeOrder DEF NodeOf
<1>4. TargetsSound(run)
  <2>1. ask.max \in Nat
    BY WorkflowCandidatesAssumption DEF Ask
  <2> QED BY <1>1, <2>1, FS_EmptySet DEF TargetsSound
<1>5. SetSound(run)
  BY <1>1, <1>3 DEF SetSound
<1>6. Fit(run, kept)
  BY <1>1, <1>3, <1>4, <1>5 DEF Fit, RunSound, WorkSound
<1>7. /\ started' \in 0..MaxRuns /\ removals' \in 0..MaxRemovals /\ troubles' \in 0..MaxTroubles
  BY <1>2, WorkflowCandidatesAssumption DEF CandInv, HistoryTypes
<1> QED BY <1>2, <1>6, <1>7, OneStep

\* A limit of 0 is none.
LEMMA Cuts ==
  ASSUME NEW max \in Nat, NEW n \in Nat
  PROVE  CutAt(max, n) \in 0..n /\ (max > 0 => CutAt(max, n) <= max) /\ (max = 0 => CutAt(max, n) = n)
  BY DEF CutAt, Least

LEMMA OwnersAreFinite ==
  ASSUME NEW S \in SUBSET Owners
  PROVE  IsFiniteSet(S) /\ Cardinality(S) \in Nat
  BY WorkflowCandidatesAssumption, FS_Subset, FS_CardinalityType

LEMMA TargetStep ==
  ASSUME CandInv, NEW r \in Runs, NEW old \in 0..Cardinality(Owners), NEW S \in SUBSET Owners,
         Target(r, old, S)
  PROVE  CandInv'
<1> DEFINE run == [runs[r] EXCEPT !.ids = S]
           from == Candidates(runs[r].ask, old)
           jobs == IF S = {} /\ runs[r].ask.works = {} THEN {} ELSE {{}}
<1>1. /\ runs[r].phase = "node" /\ NodeOf(runs[r]) = "target" /\ SetRun(r, WithJobs(run, jobs))
      /\ Chosen(runs[r].ask, from, S) /\ UNCHANGED <<shelf, kept, ahead, refused, counts>>
  BY DEF Target, InNode, Node, NodeOf
<1>2. WorkSound(runs[r], kept) /\ runs[r] \in Run
  BY DEF CandInv, RunsInv, RunSound, WorkSound
<1>3. /\ run \in Run /\ run.phase = "node" /\ run.ids = S /\ run.ask = runs[r].ask
      /\ run.step = runs[r].step /\ run.cand = runs[r].cand /\ run.wanted = runs[r].wanted
      /\ run.taken = runs[r].taken /\ run.source = runs[r].source
  BY <1>1, <1>2 DEF Run
<1>4. jobs \in SUBSET SUBSET Owners /\ \A i, j \in jobs : i # j => i \cap j = {}
  OBVIOUS
<1> HIDE DEF run, jobs
<1>5. NodeOf(run) = "target"
  BY <1>1, <1>3 DEF NodeOf
<1>6. TargetsSound(run)
  <2>1. from \in SUBSET Owners /\ (run.ask.scope \notin Bulk /\ run.ask.works = {} => from \subseteq run.ask.artists)
    <3>1. /\ run.ask \in Ask /\ run.ask.artists \in SUBSET Owners /\ run.ask.scope \in Scopes
          /\ listed \in SUBSET Owners
      BY <1>2, <1>3, AskedRuns DEF Ask, CandInv, LibraryTypes
    <3>2. \A ask : from \subseteq listed \/ from \subseteq run.ask.artists
      BY <1>3 DEF Candidates
    <3>3. run.ask.scope \notin Bulk => from \subseteq run.ask.artists
      BY <1>3, <3>1 DEF Candidates, Bulk, ByWork, Scopes
    <3> QED BY <3>1, <3>2, <3>3
  <2>2. S \subseteq from /\ Cardinality(S) = CutAt(run.ask.max, Cardinality(from))
    BY <1>1, <1>3 DEF Chosen
  <2>3. run.ask.max \in Nat
    BY <1>3, AskedRuns DEF Ask
  <2>4. Cardinality(from) \in Nat
    BY <2>1, OwnersAreFinite
  <2> QED BY <1>3, <2>1, <2>2, <2>3, <2>4, Cuts DEF TargetsSound
<1>7. SetSound(run)
  BY <1>3, <1>5 DEF SetSound
<1>8. run.wanted \subseteq run.taken
  <2>1. ASSUME NEW w \in runs[r].wanted \ runs[r].taken PROVE FALSE
    BY <1>1, <1>2, <2>1 DEF WorkSound, Pursued
  <2> QED BY <1>3, <2>1
<1>9. WorkSound(run, kept)
  BY <1>2, <1>3, <1>6, <1>7, <1>8 DEF WorkSound
<1>10. Fit(WithJobs(run, jobs), kept)
  BY <1>3, <1>4, <1>5, <1>8, <1>9, JobsAreFit
<1> QED BY <1>1, <1>10, Plain

LEMMA ResolveStep ==
  ASSUME CandInv, NEW r \in Runs, NEW S \in SUBSET Owners, Resolve(r, S)
  PROVE  CandInv'
<1> DEFINE old == runs[r]
           run == [old EXCEPT !.ids = @ \cup S]
           found == OwnersOf(old.ask.works) \ old.ids
           room == CutAt(old.ask.max, Cardinality(old.ids) + Cardinality(found))
<1>1. /\ old.phase = "jobs" /\ NodeOf(old) = "target" /\ {} \in old.open /\ S \subseteq found
      /\ Cardinality(S) = room - Cardinality(old.ids)
      /\ SetRun(r, Ended(run, {}, FALSE)) /\ UNCHANGED <<shelf, kept, ahead, refused, counts>>
  BY DEF Resolve, Node, NodeOf
<1>2. RunSound(old, kept) /\ WorkSound(old, kept) /\ old \in Run /\ TargetsSound(old) /\ SetSound(old)
  BY DEF CandInv, RunsInv, RunSound, WorkSound
<1>3. /\ run \in Run /\ run.phase = "jobs" /\ run.ids = old.ids \cup S /\ run.ask = old.ask
      /\ run.step = old.step /\ run.cand = old.cand /\ run.wanted = old.wanted
      /\ run.taken = old.taken /\ run.source = old.source /\ run.open = old.open /\ run.left = old.left
  <2>1. old.ids \cup S \in SUBSET Owners
    BY <1>2, AskedRuns
  <2> QED BY <1>1, <1>2, <2>1 DEF Run
<1>4. old.ask \in Ask /\ old.ask.max \in Nat /\ old.ask.works \in SUBSET Works /\ old.ids \in SUBSET Owners
  BY <1>2, AskedRuns DEF Ask
<1>5. TargetsSound(run)
  <2>1. found \in SUBSET Owners
    BY <1>4, WorkflowCandidatesAssumption DEF OwnersOf
  <2>2. /\ IsFiniteSet(old.ids) /\ Cardinality(old.ids) \in Nat /\ IsFiniteSet(S)
        /\ Cardinality(S) \in Nat /\ Cardinality(found) \in Nat
    BY <1>4, <2>1, OwnersAreFinite
  <2>3. Cardinality(old.ids \cup S) = Cardinality(old.ids) + Cardinality(S)
    <3>1. old.ids \cap S = {} /\ Cardinality({}) = 0
      BY <1>1, FS_EmptySet
    <3>2. Cardinality(old.ids \cup S) =
            Cardinality(old.ids) + Cardinality(S) - Cardinality(old.ids \cap S)
      BY <2>2, FS_Union
    <3> HIDE DEF old
    <3> QED BY <2>2, <3>1, <3>2
  <2>4. old.ask.max > 0 => Cardinality(run.ids) <= old.ask.max
    <3> DEFINE total == Cardinality(old.ids) + Cardinality(found)
    <3>1. total \in Nat
      BY <2>2
    <3>2. room \in 0..total /\ (old.ask.max > 0 => room <= old.ask.max)
      BY <1>4, <3>1, Cuts
    <3>3. Cardinality(run.ids) = room
      <4> HIDE DEF room, total
      <4> QED BY <1>1, <1>3, <2>2, <2>3, <3>1, <3>2
    <3> QED BY <3>2, <3>3
  <2>5. old.ask.scope \notin Bulk /\ old.ask.works = {} => run.ids \subseteq old.ask.artists
    BY <1>1, <1>2, <1>3 DEF TargetsSound, OwnersOf
  <2> QED BY <1>3, <2>4, <2>5 DEF TargetsSound
<1>6. NodeOf(run) = "target"
  BY <1>1, <1>3 DEF NodeOf
<1>7. SetSound(run)
  BY <1>1, <1>2, <1>3, <1>6 DEF SetSound
<1>8. run.wanted \subseteq run.taken
  <2>1. ASSUME NEW w \in old.wanted \ old.taken PROVE FALSE
    BY <1>1, <1>2, <2>1 DEF WorkSound, Pursued
  <2> QED BY <1>3, <2>1
<1> HIDE DEF run
<1>9. WorkSound(run, kept)
  BY <1>2, <1>3, <1>5, <1>7, <1>8 DEF WorkSound
<1>10. Fit(Ended(run, {}, FALSE), kept)
  <2>1. \A i, k \in run.open : i # k => i \cap k = {}
    BY <1>1, <1>2, <1>3 DEF RunSound
  <2> QED BY <1>1, <1>3, <1>8, <1>9, <2>1, EndedIsFit
<1> QED BY <1>1, <1>10, Plain

LEMMA SyncNodeStep ==
  ASSUME CandInv, NEW r \in Runs, SyncNode(r)
  PROVE  CandInv'
<1> DEFINE jobs == {{a} : a \in runs[r].ids}
<1>1. /\ runs[r].phase = "node" /\ NodeOf(runs[r]) = "sync" /\ SetRun(r, WithJobs(runs[r], jobs))
      /\ UNCHANGED <<shelf, kept, ahead, refused, counts>>
  BY DEF SyncNode, InNode, Node, NodeOf
<1>2. WorkSound(runs[r], kept) /\ runs[r] \in Run
  BY DEF CandInv, RunsInv, RunSound, WorkSound
<1>3. jobs \in SUBSET SUBSET Owners /\ \A i, j \in jobs : i # j => i \cap j = {}
  <2>1. runs[r].ids \in SUBSET Owners
    BY <1>2, AskedRuns
  <2>2. \A j \in jobs : \E a \in Owners : j = {a}
    BY <2>1
  <2> HIDE DEF jobs
  <2>3. \A j \in jobs : j \subseteq Owners
    BY <2>2
  <2>4. \A i, j \in jobs : i # j => i \cap j = {}
    <3>1. TAKE i \in jobs, j \in jobs
    <3>2. PICK a \in Owners : i = {a}
      BY <2>2
    <3>3. PICK b \in Owners : j = {b}
      BY <2>2
    <3> QED BY <3>2, <3>3
  <2> QED BY <2>3, <2>4
<1>4. runs[r].wanted \subseteq runs[r].taken
  <2>1. ASSUME NEW w \in runs[r].wanted \ runs[r].taken PROVE FALSE
    BY <1>1, <1>2, <2>1 DEF WorkSound, Pursued
  <2> QED BY <2>1
<1>5. Fit(WithJobs(runs[r], jobs), kept)
  <2> HIDE DEF jobs
  <2> QED BY <1>1, <1>2, <1>3, <1>4, JobsAreFit
<1> QED BY <1>1, <1>5, Plain

LEMMA ActStep ==
  ASSUME CandInv, NEW r \in Runs, Act(r)
  PROVE  CandInv'
<1> DEFINE run == runs[r]
           jobs == JobsFor(run)
<1>1. /\ run.phase = "node" /\ NodeOf(run) = "act" /\ SetRun(r, WithJobs(run, jobs))
      /\ UNCHANGED <<shelf, kept, ahead, refused, counts>>
  BY DEF Act, InNode, Node, NodeOf
<1>2. WorkSound(run, kept) /\ run \in Run /\ SetSound(run)
  BY DEF CandInv, RunsInv, RunSound, WorkSound
<1>3. OwnersOf(run.cand) \in SUBSET Owners
  BY <1>2, AskedRuns, WorkflowCandidatesAssumption DEF OwnersOf
<1>4. jobs \in SUBSET SUBSET Owners /\ \A i, j \in jobs : i # j => i \cap j = {}
  BY <1>3 DEF JobsFor
<1>5. ASSUME NEW w \in run.wanted \ run.taken PROVE \E j \in jobs : OwnerOf[w] \in j
  <2>1. w \in run.cand /\ OwnerOf[w] \in run.ids
    BY <1>1, <1>2, <1>5 DEF WorkSound, Pursued, SetSound
  <2>2. OwnerOf[w] \in OwnersOf(run.cand)
    BY <2>1 DEF OwnersOf
  <2>3. {OwnerOf[w]} \in {{a} : a \in OwnersOf(run.cand)}
    BY <2>2
  <2> QED BY <2>1, <2>2, <2>3 DEF JobsFor
<1>6. Fit(WithJobs(run, jobs), kept)
  <2> HIDE DEF jobs
  <2> QED BY <1>1, <1>2, <1>4, <1>5, JobsAreFit
<1> QED BY <1>1, <1>6, Plain

-----------------------------------------------------------------------------
(* WorkflowCandidates: collecting and filtering *)

\* After a collection and after a filter the run has another node.
LEMMA NextNode ==
  ASSUME NEW run \in Run, run.step \in 1..Len(Nodes(run.ask)),
         NodeOf(run) \in {"collect", "recollect", "filter"}
  PROVE  LET next == After(run) IN
         /\ next \in Run /\ next.phase = "node" /\ next.step \in 1..Len(Nodes(next.ask))
         /\ next.ask = run.ask /\ next.ids = run.ids /\ next.cand = run.cand
         /\ next.source = run.source /\ next.wanted = run.wanted /\ next.taken = run.taken
         /\ NodeOf(next) = IF NodeOf(run) = "filter" THEN "act" ELSE "filter"
<1> DEFINE next == [run EXCEPT !.phase = "node", !.step = @ + 1, !.ill = {}]
           n == Len(Nodes(run.ask))
<1>1. n \in 2..8 /\ run.step \in 1..8 /\ run.step < n
  BY NodeOrder, AskedRuns DEF NodeOf
<1>2. run.step + 1 \in 1..n /\ run.step + 1 \in 1..8
  <2>1. \A m \in 2..8, i \in 1..8 : i < m => i + 1 \in 1..m /\ i + 1 \in 1..8
    OBVIOUS
  <2> HIDE DEF n
  <2> QED BY <1>1, <2>1
<1>3. /\ next \in Run /\ next.phase = "node" /\ next.step = run.step + 1 /\ next.ask = run.ask
      /\ next.ids = run.ids /\ next.cand = run.cand /\ next.source = run.source
      /\ next.wanted = run.wanted /\ next.taken = run.taken
  BY <1>2 DEF Run, RunPhases
<1>4. After(run) = next
  BY <1>1 DEF After
<1> HIDE DEF next
<1>5. /\ Nodes(run.ask)[run.step + 1] = "filter" <=> Nodes(run.ask)[run.step] \in {"collect", "recollect"}
      /\ Nodes(run.ask)[run.step + 1] = "act" <=> Nodes(run.ask)[run.step] = "filter"
  BY <1>1, NodeOrder
<1>6. NodeOf(next) = IF NodeOf(run) = "filter" THEN "act" ELSE "filter"
  BY <1>3, <1>5 DEF NodeOf
<1> QED BY <1>2, <1>3, <1>4, <1>6

\* Without a limit a collection takes all it may, so the new works are in it.
LEMMA NewWorksCollected ==
  ASSUME CandInv, NEW r \in Runs, NEW S \in SUBSET Works, S \subseteq Eligible(r),
         Cardinality(S) = CutAt(runs[r].ask.limit, Cardinality(Eligible(r))),
         NEW w \in NewWorks(r)
  PROVE  /\ w \in S /\ Source(r) = "new_since_last_download" /\ runs[r].ask.stop = 0
         /\ runs[r].ask.blocks => w \notin Tagged
<1> DEFINE ask == runs[r].ask
           E == Eligible(r)
<1>1. ask \in Ask /\ ask.limit \in Nat /\ ask.stop \in Nat
  BY AskedRuns DEF CandInv, RunsInv, Ask
<1>2. /\ Source(r) = "new_since_last_download" /\ ask.limit = 0 /\ ask.stop = 0
      /\ w \in Works /\ OwnerOf[w] \in runs[r].ids \cap listed /\ (ask.scope \in ByWork => w \in ask.works)
      /\ w \in ask.range /\ (ask.blocks => w \notin Tagged) /\ w > cursor[OwnerOf[w]]
      /\ status[w] \in {"remote_only", "pending", "failed"}
  BY <1>1 DEF NewWorks
<1>3. E \in SUBSET Works /\ IsFiniteSet(E) /\ Cardinality(E) \in Nat
  <2>1. IsFiniteSet(Works)
    BY WorkflowCandidatesAssumption, FS_Interval DEF Works
  <2>2. E \in SUBSET Works
    BY DEF Eligible
  <2> QED BY <2>1, <2>2, FS_Subset, FS_CardinalityType
<1>4. Cardinality(S) = Cardinality(E)
  <2>1. CutAt(ask.limit, Cardinality(E)) = Cardinality(E)
    BY <1>1, <1>2, <1>3, Cuts
  <2> QED BY <2>1
<1>5. S = E
  BY <1>3, <1>4, FS_Subset
<1>6. w \in E
  BY <1>2 DEF Eligible, Restricted, Collects, Complete
<1> QED BY <1>2, <1>5, <1>6

LEMMA CollectStep ==
  ASSUME CandInv, NEW r \in Runs, NEW S \in SUBSET Works, Collect(r, S)
  PROVE  CandInv'
<1> DEFINE old == runs[r]
           run == [After(old) EXCEPT !.cand = S, !.source = Source(r), !.wanted = @ \cup NewWorks(r)]
<1>1. /\ old.phase = "node" /\ NodeOf(old) \in {"collect", "recollect"} /\ S \subseteq Eligible(r)
      /\ Cardinality(S) = CutAt(runs[r].ask.limit, Cardinality(Eligible(r)))
      /\ kept' = kept \cup S /\ SetRun(r, run) /\ UNCHANGED <<shelf, ahead, refused, counts>>
  BY DEF Collect, InNode, Node, NodeOf
<1>2. /\ WorkSound(old, kept) /\ old \in Run /\ TargetsSound(old)
      /\ old.step \in 1..Len(Nodes(old.ask))
  BY DEF CandInv, RunsInv, RunSound, WorkSound
<1>3. Source(r) \in {old.ask.mode, "failed_files"} /\ Source(r) \in Sources
  <2>1. old.ask.mode \in Sources
    BY <1>2, AskedRuns DEF Ask
  <2> QED BY <2>1 DEF Source, Sources
<1>4. /\ run \in Run /\ run.phase = "node" /\ run.step \in 1..Len(Nodes(run.ask))
      /\ run.ask = old.ask /\ run.ids = old.ids /\ run.cand = S /\ run.source = Source(r)
      /\ run.wanted = old.wanted \cup NewWorks(r) /\ run.taken = old.taken /\ NodeOf(run) = "filter"
  <2>1. LET next == After(old) IN
         /\ next \in Run /\ next.phase = "node" /\ next.step \in 1..Len(Nodes(next.ask))
         /\ next.ask = old.ask /\ next.ids = old.ids /\ next.cand = old.cand
         /\ next.source = old.source /\ next.wanted = old.wanted /\ next.taken = old.taken
         /\ NodeOf(next) = "filter"
    BY <1>1, <1>2, NextNode
  <2> DEFINE next == After(old)
  <2>2. /\ next \in Run /\ next.phase = "node" /\ next.step \in 1..Len(Nodes(next.ask))
        /\ next.ask = old.ask /\ next.ids = old.ids /\ next.cand = old.cand
        /\ next.source = old.source /\ next.wanted = old.wanted /\ next.taken = old.taken
        /\ NodeOf(next) = "filter"
    BY <2>1
  <2>3. NewWorks(r) \in SUBSET Works
    BY DEF NewWorks
  <2>4. old.wanted \cup NewWorks(r) \in SUBSET Works
    BY <1>2, <2>3, AskedRuns
  <2> HIDE DEF next
  <2>5. run = [next EXCEPT !.cand = S, !.source = Source(r), !.wanted = next.wanted \cup NewWorks(r)]
    BY DEF next
  <2>6. /\ run \in Run /\ run.phase = "node" /\ run.step = next.step /\ run.ask = old.ask
        /\ run.ids = old.ids /\ run.cand = S /\ run.source = Source(r)
        /\ run.wanted = old.wanted \cup NewWorks(r) /\ run.taken = old.taken
    BY <1>3, <2>2, <2>4, <2>5 DEF Run
  <2> HIDE DEF run
  <2> QED BY <2>2, <2>6 DEF NodeOf
<1> HIDE DEF run
<1>5. \A w \in S : /\ OwnerOf[w] \in listed /\ status[w] # "absent" /\ OwnerOf[w] \in run.ids
                    /\ w \in run.ask.range /\ (run.ask.scope \in ByWork => w \in run.ask.works)
  BY <1>1, <1>4 DEF Eligible, Restricted
<1>6. TargetsSound(run)
  BY <1>2, <1>4 DEF TargetsSound
<1>7. SetSound(run)
  BY <1>3, <1>4, <1>5 DEF SetSound
<1>8. \A w \in run.wanted \ run.taken : Pursued(run, w)
  <2>1. TAKE w \in run.wanted \ run.taken
  <2>2. w \in NewWorks(r)
    BY <1>1, <1>2, <1>4 DEF WorkSound, Pursued
  <2>3. /\ w \in S /\ Source(r) = "new_since_last_download" /\ old.ask.stop = 0
        /\ old.ask.blocks => w \notin Tagged
    BY <1>1, <2>2, NewWorksCollected
  <2> QED BY <1>4, <2>3 DEF Pursued
<1>9. Fit(run, kept')
  BY <1>1, <1>4, <1>6, <1>7, <1>8 DEF Fit, RunSound, WorkSound
<1>10. RunsInv' /\ missed' = {}
  BY <1>1, <1>9, OneRun DEF RunsInv
<1>11. LibraryTypes' /\ HistoryTypes' /\ RanksInv'
  BY <1>1 DEF CandInv, LibraryTypes, HistoryTypes, RanksInv, shelf, counts
<1>12. KeptInv'
  BY <1>1, <1>5 DEF CandInv, KeptInv, shelf
<1> QED BY <1>10, <1>11, <1>12 DEF CandInv

LEMMA FilterStep ==
  ASSUME CandInv, NEW r \in Runs, Filter(r)
  PROVE  CandInv'
<1> DEFINE old == runs[r]
           run == [After(old) EXCEPT !.cand = Filtered(old)]
<1>1. /\ old.phase = "node" /\ NodeOf(old) = "filter" /\ SetRun(r, run)
      /\ UNCHANGED <<shelf, kept, ahead, refused, counts>>
  BY DEF Filter, InNode, Node, NodeOf
<1>2. /\ WorkSound(old, kept) /\ old \in Run /\ TargetsSound(old) /\ SetSound(old)
      /\ old.step \in 1..Len(Nodes(old.ask)) /\ old.cand \subseteq kept /\ old.cand \in SUBSET Works
  BY AskedRuns DEF CandInv, RunsInv, RunSound, WorkSound
<1>3. /\ Filtered(old) \subseteq old.cand /\ (old.ask.blocks => Filtered(old) \cap Tagged = {})
      /\ \A w \in old.cand : old.ask.stop = 0 /\ (old.ask.blocks => w \notin Tagged) => w \in Filtered(old)
  BY DEF Filtered
<1>4. /\ run \in Run /\ run.phase = "node" /\ run.step \in 1..Len(Nodes(run.ask))
      /\ run.ask = old.ask /\ run.ids = old.ids /\ run.cand = Filtered(old) /\ run.source = old.source
      /\ run.wanted = old.wanted /\ run.taken = old.taken /\ NodeOf(run) = "act"
  <2> DEFINE next == After(old)
  <2>1. LET nx == After(old) IN
         /\ nx \in Run /\ nx.phase = "node" /\ nx.step \in 1..Len(Nodes(nx.ask))
         /\ nx.ask = old.ask /\ nx.ids = old.ids /\ nx.cand = old.cand
         /\ nx.source = old.source /\ nx.wanted = old.wanted /\ nx.taken = old.taken
         /\ NodeOf(nx) = "act"
    BY <1>1, <1>2, NextNode
  <2>2. /\ next \in Run /\ next.phase = "node" /\ next.step \in 1..Len(Nodes(next.ask))
        /\ next.ask = old.ask /\ next.ids = old.ids /\ next.cand = old.cand
        /\ next.source = old.source /\ next.wanted = old.wanted /\ next.taken = old.taken
        /\ NodeOf(next) = "act"
    BY <2>1
  <2>3. Filtered(old) \in SUBSET Works
    BY <1>2, <1>3
  <2> HIDE DEF next
  <2>4. run = [next EXCEPT !.cand = Filtered(old)]
    BY DEF next
  <2>5. /\ run \in Run /\ run.phase = "node" /\ run.step = next.step /\ run.ask = old.ask
        /\ run.ids = old.ids /\ run.cand = Filtered(old) /\ run.source = old.source
        /\ run.wanted = old.wanted /\ run.taken = old.taken
    BY <2>2, <2>3, <2>4 DEF Run
  <2> HIDE DEF run
  <2> QED BY <2>2, <2>5 DEF NodeOf
<1> HIDE DEF run
<1>5. TargetsSound(run)
  BY <1>2, <1>4 DEF TargetsSound
<1>6. SetSound(run)
  BY <1>1, <1>2, <1>3, <1>4 DEF SetSound
<1>7. \A w \in run.wanted \ run.taken : Pursued(run, w)
  BY <1>1, <1>2, <1>3, <1>4 DEF Pursued, WorkSound
<1>8. Fit(run, kept)
  BY <1>2, <1>3, <1>4, <1>5, <1>6, <1>7 DEF Fit, RunSound, WorkSound
<1> QED BY <1>1, <1>8, Plain

-----------------------------------------------------------------------------
(* WorkflowCandidates: the jobs that download *)

\* What a run has when its jobs download.
LEMMA Acting ==
  ASSUME CandInv, NEW r \in Runs, Downloading(r)
  PROVE  LET run == runs[r] IN
         /\ run \in Run /\ RunSound(run, kept) /\ WorkSound(run, kept) /\ TargetsSound(run) /\ SetSound(run)
         /\ run.phase \in {"jobs", "retry"} /\ NodeOf(run) = "act" /\ run.step \in 1..Len(Nodes(run.ask))
         /\ run.left \subseteq run.cand /\ run.cand \subseteq kept /\ run.cand \in SUBSET Works
         /\ \A w \in run.cand : OwnerOf[w] \in listed /\ status[w] # "absent"
         /\ run.phase = "jobs" => \A w \in run.wanted \ run.taken : Pursued(run, w)
         /\ run.phase = "jobs" => \A i, j \in run.open : i # j => i \cap j = {}
<1>1. RunSound(runs[r], kept) /\ WorkSound(runs[r], kept) /\ runs[r] \in Run
  BY DEF CandInv, RunsInv, RunSound, WorkSound
<1>2. runs[r].phase \in {"jobs", "retry"} /\ NodeOf(runs[r]) = "act" /\ SetSound(runs[r])
  BY <1>1 DEF Downloading, Node, NodeOf, WorkSound, SetSound
<1>3. \A w \in kept : OwnerOf[w] \in listed /\ status[w] # "absent"
  BY DEF CandInv, KeptInv
<1> QED BY <1>1, <1>2, <1>3, AskedRuns DEF WorkSound, RunSound, SetSound

\* A new work a job finds is one it lists, or complete.
LEMMA SelectStep ==
  ASSUME CandInv, NEW r \in Runs, NEW j \in runs[r].open, Select(r, j)
  PROVE  CandInv'
<1> DEFINE old == runs[r]
           chosen == {w \in WorksOf(r, j) : status[w] \in Lists(old.source)}
           found == {w \in WorksOf(r, j) : status[w] \in Complete}
           run == [old EXCEPT !.begun = @ \cup {j}, !.left = @ \cup chosen, !.taken = @ \cup found]
<1>1. /\ Downloading(r) /\ j \in old.open \ old.begun /\ SetRun(r, run)
      /\ UNCHANGED <<shelf, kept, ahead, refused, counts>>
  BY DEF Select
<1>2. /\ old \in Run /\ WorkSound(old, kept) /\ TargetsSound(old) /\ SetSound(old)
      /\ old.phase \in {"jobs", "retry"} /\ NodeOf(old) = "act" /\ old.step \in 1..Len(Nodes(old.ask))
      /\ old.left \subseteq old.cand /\ old.cand \subseteq kept /\ old.cand \in SUBSET Works
      /\ \A w \in old.cand : OwnerOf[w] \in listed /\ status[w] # "absent"
      /\ old.phase = "jobs" => \A w \in old.wanted \ old.taken : Pursued(old, w)
      /\ old.phase = "jobs" => \A i, k \in old.open : i # k => i \cap k = {}
  BY <1>1, Acting
<1>3. WorksOf(r, j) = {w \in old.cand : OwnerOf[w] \in j /\ OwnerOf[w] \in listed /\ status[w] # "absent"}
  BY DEF WorksOf
<1>4. /\ run \in Run /\ run.phase = old.phase /\ run.ask = old.ask /\ run.step = old.step
      /\ run.ids = old.ids /\ run.cand = old.cand /\ run.source = old.source /\ run.open = old.open
      /\ run.wanted = old.wanted /\ run.ill = old.ill /\ run.begun = old.begun \cup {j}
      /\ run.left = old.left \cup chosen /\ run.taken = old.taken \cup found
  <2>1. /\ old.begun \cup {j} \in SUBSET SUBSET Owners /\ old.left \cup chosen \in SUBSET Works
        /\ old.taken \cup found \in SUBSET Works
    BY <1>1, <1>2, <1>3, AskedRuns
  <2> HIDE DEF chosen, found
  <2> QED BY <1>2, <2>1 DEF Run
<1> HIDE DEF run
<1>5. NodeOf(run) = "act" /\ TargetsSound(run)
  BY <1>2, <1>4 DEF NodeOf, TargetsSound
<1>6. SetSound(run)
  BY <1>2, <1>3, <1>4, <1>5 DEF SetSound
<1>7. ASSUME run.phase = "jobs", NEW w \in run.wanted \ run.taken PROVE Pursued(run, w)
  <2>1. Pursued(old, w) /\ w \in old.cand /\ old.source = "new_since_last_download"
    BY <1>2, <1>4, <1>7 DEF Pursued
  <2>2. CASE old.ill # {}
    BY <1>2, <1>4, <1>5, <2>1, <2>2 DEF Pursued
  <2>3. ASSUME NEW i \in old.open, OwnerOf[w] \in i, i \notin old.begun \/ w \in old.left
        PROVE  i \notin run.begun \/ w \in run.left
    <3>1. CASE i # j
      BY <1>4, <2>3, <3>1
    <3>2. CASE i = j
      <4>1. w \in WorksOf(r, j) /\ status[w] \in PageStatuses
        <5>1. status[w] \in PageStatuses
          BY <1>2, <2>1 DEF CandInv, LibraryTypes
        <5> QED BY <1>2, <1>3, <2>1, <2>3, <3>2, <5>1
      <4>2. status[w] \in Complete \/ status[w] \in Lists(old.source)
        BY <1>2, <2>1, <4>1 DEF Lists, Complete, PageStatuses
      <4>3. w \notin found
        BY <1>4, <1>7
      <4> QED BY <1>4, <4>1, <4>2, <4>3
    <3> QED BY <3>1, <3>2
  <2> QED BY <1>2, <1>4, <1>5, <1>7, <2>1, <2>2, <2>3 DEF Pursued
<1>8. Fit(run, kept)
  BY <1>2, <1>4, <1>5, <1>6, <1>7 DEF Fit, RunSound, WorkSound
<1> QED BY <1>1, <1>8, Plain

\* The cursor stays at an artwork.
LEMMA CursorIsAWork ==
  ASSUME LibraryTypes, NEW a \in Owners, NEW pages
  PROVE  CursorAfter(a, pages) \in 0..MaxWorks
<1> DEFINE above == {w \in Works : OwnerOf[w] = a /\ w > cursor[a] /\ pages[w] # "absent"}
           done == {w \in above : \A v \in above : v <= w => pages[v] \in Complete}
<1>1. CASE done = {}
  BY <1>1 DEF CursorAfter, LibraryTypes
<1>2. CASE done # {}
  <2>1. MaxWorks \in Nat /\ done \in SUBSET (0..MaxWorks)
    <3>1. MaxWorks \in Nat
      BY WorkflowCandidatesAssumption
    <3>2. Works \subseteq 0..MaxWorks
      BY <3>1 DEF Works
    <3> QED BY <3>1, <3>2
  <2>2. \E w \in done : \A v \in done : v <= w
    <3> HIDE DEF done
    <3> QED BY <1>2, <2>1, HasLatest
  <2>3. CursorAfter(a, pages) = CHOOSE w \in done : \A v \in done : v <= w
    BY <1>2 DEF CursorAfter
  <2> HIDE DEF done
  <2> QED BY <2>1, <2>2, <2>3
<1> QED BY <1>1, <1>2

LEMMA FetchStep ==
  ASSUME CandInv, NEW r \in Runs, NEW j \in runs[r].open, NEW w \in runs[r].left,
         NEW result \in {"downloaded", "skipped", "failed"}, Fetch(r, j, w, result)
  PROVE  CandInv'
<1> DEFINE old == runs[r]
           wants == StillWanted(old.source, status[w])
           kind == IF ~wants THEN status[w] ELSE IF status[w] = "downloaded" THEN "downloaded" ELSE result
           pages == [status EXCEPT ![w] = kind]
           fails == wants /\ result = "failed"
           ill == IF fails THEN old.ill \cup {j} ELSE old.ill
           taken == IF pages[w] \in Complete THEN old.taken \cup {w} ELSE old.taken
           run == [old EXCEPT !.left = @ \ {w}, !.ill = ill, !.taken = taken]
<1>1. /\ Downloading(r) /\ SetRun(r, run) /\ status' = pages
      /\ UNCHANGED <<listed, gone, checked, kept, ahead, refused, started, removals>>
      /\ troubles' = troubles + (IF fails THEN 1 ELSE 0) /\ (fails => troubles < MaxTroubles)
  BY DEF Fetch
<1>2. /\ old \in Run /\ WorkSound(old, kept) /\ TargetsSound(old) /\ SetSound(old)
      /\ old.phase \in {"jobs", "retry"} /\ NodeOf(old) = "act" /\ old.step \in 1..Len(Nodes(old.ask))
      /\ old.left \subseteq old.cand /\ old.cand \subseteq kept /\ old.cand \in SUBSET Works
      /\ \A v \in old.cand : OwnerOf[v] \in listed /\ status[v] # "absent"
      /\ old.phase = "jobs" => \A v \in old.wanted \ old.taken : Pursued(old, v)
      /\ old.phase = "jobs" => \A i, k \in old.open : i # k => i \cap k = {}
  BY <1>1, Acting
<1>3. w \in Works /\ status[w] \in PageStatuses \ {"absent"} /\ pages[w] = kind
      /\ kind \in PageStatuses \ {"absent"} /\ OwnerOf[w] \in Owners
  <2>1. w \in Works /\ w \in old.cand /\ status \in [Works -> PageStatuses]
    BY <1>2 DEF CandInv, LibraryTypes
  <2>2. OwnerOf[w] \in Owners
    BY <2>1, WorkflowCandidatesAssumption
  <2> QED BY <1>2, <2>1, <2>2 DEF PageStatuses
<1>4. /\ run \in Run /\ run.phase = old.phase /\ run.ask = old.ask /\ run.step = old.step
      /\ run.ids = old.ids /\ run.cand = old.cand /\ run.source = old.source /\ run.open = old.open
      /\ run.wanted = old.wanted /\ run.ill = ill /\ run.begun = old.begun
      /\ run.left = old.left \ {w} /\ run.taken = taken
  <2>1. ill \in SUBSET SUBSET Owners /\ old.left \ {w} \in SUBSET Works /\ taken \in SUBSET Works
    <3>1. /\ old.ill \in SUBSET SUBSET Owners /\ j \in SUBSET Owners /\ old.taken \in SUBSET Works
          /\ old.left \in SUBSET Works
      BY <1>2, AskedRuns
    <3> HIDE DEF fails, pages
    <3> QED BY <1>3, <3>1
  <2> HIDE DEF ill, taken
  <2> QED BY <1>2, <2>1 DEF Run
<1> HIDE DEF run
<1>5. NodeOf(run) = "act" /\ TargetsSound(run)
  BY <1>2, <1>4 DEF NodeOf, TargetsSound
<1>6. SetSound(run)
  BY <1>2, <1>4, <1>5 DEF SetSound
<1>7. ASSUME run.phase = "jobs", NEW v \in run.wanted \ run.taken PROVE Pursued(run, v)
  <2>1. Pursued(old, v) /\ v \in old.cand /\ old.source = "new_since_last_download"
    BY <1>2, <1>4, <1>7 DEF Pursued
  <2>2. old.ill \subseteq run.ill
    BY <1>4
  <2>3. CASE run.ill # {}
    BY <1>2, <1>4, <1>5, <2>1, <2>3 DEF Pursued
  <2>4. CASE run.ill = {}
    <3>1. ~fails /\ old.ill = {}
      BY <1>4, <2>4
    <3>2. v # w
      <4>1. ASSUME v = w PROVE FALSE
        <5>1. kind \notin Complete
          BY <1>3, <1>4, <1>7, <4>1
        <5>2. wants <=> status[w] \notin Complete
          BY <2>1 DEF StillWanted
        <5>3. wants /\ result # "failed"
          BY <3>1, <5>1, <5>2
        <5> QED BY <5>1, <5>3 DEF Complete
      <4> QED BY <4>1
    <3>3. PICK i \in old.open : OwnerOf[v] \in i /\ (i \notin old.begun \/ v \in old.left)
      BY <1>4, <1>7, <2>1, <3>1 DEF Pursued
    <3>4. i \in run.open /\ (i \notin run.begun \/ v \in run.left)
      BY <1>4, <3>2, <3>3
    <3> QED BY <1>2, <1>4, <1>5, <2>1, <3>3, <3>4 DEF Pursued
  <2> QED BY <2>3, <2>4
<1>8. Fit(run, kept)
  BY <1>2, <1>4, <1>5, <1>6, <1>7 DEF Fit, RunSound, WorkSound
<1>9. RunsInv' /\ missed' = {}
  BY <1>1, <1>8, OneRun DEF RunsInv
<1>10. cursor' \in [Owners -> 0..MaxWorks]
  <2>1. cursor \in [Owners -> 0..MaxWorks] /\ CursorAfter(OwnerOf[w], pages) \in 0..MaxWorks
    BY <1>3, CursorIsAWork DEF CandInv, LibraryTypes
  <2>2. cursor' \in {cursor, [cursor EXCEPT ![OwnerOf[w]] = CursorAfter(OwnerOf[w], pages)]}
    BY DEF Fetch
  <2> HIDE DEF pages
  <2> QED BY <2>1, <2>2
<1>11. LibraryTypes' /\ KeptInv'
  <2>1. status' \in [Works -> PageStatuses] /\ (\A v \in Works : status[v] # "absent" => status'[v] # "absent")
    BY <1>1, <1>3 DEF CandInv, LibraryTypes
  <2> QED BY <1>1, <1>10, <2>1 DEF CandInv, LibraryTypes, KeptInv
<1>12. HistoryTypes'
  <2>1. troubles' \in 0..MaxTroubles
    <3>1. troubles \in 0..MaxTroubles /\ MaxTroubles \in Nat
      BY WorkflowCandidatesAssumption DEF CandInv, HistoryTypes
    <3> HIDE DEF fails
    <3> QED BY <1>1, <3>1
  <2> QED BY <1>1, <2>1 DEF CandInv, HistoryTypes
<1>13. RanksInv'
  BY <1>1 DEF CandInv, RanksInv
<1> QED BY <1>9, <1>11, <1>12, <1>13 DEF CandInv

\* A job that has been through its pages has tried every new work it had.
LEMMA CloseJobStep ==
  ASSUME CandInv, NEW r \in Runs, NEW j \in runs[r].open, CloseJob(r, j)
  PROVE  CandInv'
<1> DEFINE run == runs[r]
<1>1. /\ Downloading(r) /\ j \in run.begun \cap run.open /\ SetRun(r, Ended(run, j, FALSE))
      /\ {w \in run.left : OwnerOf[w] \in j} = {}
      /\ UNCHANGED <<listed, gone, checked, status, kept, ahead, refused, counts>>
  BY DEF CloseJob
<1>2. /\ run \in Run /\ WorkSound(run, kept) /\ run.phase \in {"jobs", "retry"}
      /\ run.phase = "jobs" => \A w \in run.wanted \ run.taken : Pursued(run, w)
      /\ run.phase = "jobs" => \A i, k \in run.open : i # k => i \cap k = {}
  BY <1>1, Acting
<1>3. ASSUME run.phase = "jobs", run.ill = {}, NEW w \in run.wanted \ run.taken, OwnerOf[w] \in j
      PROVE  FALSE
  <2>1. PICK i \in run.open : OwnerOf[w] \in i /\ (i \notin run.begun \/ w \in run.left)
    BY <1>2, <1>3 DEF Pursued
  <2>2. i = j
    BY <1>1, <1>2, <1>3, <2>1
  <2> QED BY <1>1, <1>3, <2>1, <2>2
<1>4. Fit(Ended(run, j, FALSE), kept)
  BY <1>2, <1>3, EndedIsFit
<1>5. RunsInv' /\ missed' = {}
  BY <1>1, <1>4, OneRun DEF RunsInv
<1>6. cursor' \in [Owners -> 0..MaxWorks]
  <2>1. \A a \in Owners : CursorAfter(a, status) \in 0..MaxWorks /\ cursor[a] \in 0..MaxWorks
    BY CursorIsAWork DEF CandInv, LibraryTypes
  <2>2. cursor' = [a \in Owners |-> IF a \in OwnersOf(WorksOf(r, j)) THEN CursorAfter(a, status)
                                   ELSE cursor[a]]
    BY DEF CloseJob
  <2> QED BY <2>1, <2>2
<1>7. LibraryTypes' /\ KeptInv' /\ HistoryTypes' /\ RanksInv'
  BY <1>1, <1>6 DEF CandInv, LibraryTypes, KeptInv, HistoryTypes, RanksInv, counts
<1> QED BY <1>5, <1>7 DEF CandInv

LEMMA JobEndsIllStep ==
  ASSUME CandInv, NEW r \in Runs, NEW j \in runs[r].open, JobEndsIll(r, j)
  PROVE  CandInv'
<1>1. /\ runs[r].phase \in {"jobs", "retry"} /\ SetRun(r, Ended(runs[r], j, TRUE))
      /\ troubles < MaxTroubles /\ troubles' = troubles + 1
      /\ UNCHANGED <<shelf, kept, ahead, refused, started, removals>>
  BY DEF JobEndsIll
<1>2. WorkSound(runs[r], kept)
      /\ (runs[r].phase = "jobs" => \A i, k \in runs[r].open : i # k => i \cap k = {})
  BY DEF CandInv, RunsInv, RunSound
<1>3. Fit(Ended(runs[r], j, TRUE), kept)
  BY <1>1, <1>2, EndedIsFit
<1>4. started' \in 0..MaxRuns /\ removals' \in 0..MaxRemovals /\ troubles' \in 0..MaxTroubles
  BY <1>1, WorkflowCandidatesAssumption DEF CandInv, HistoryTypes
<1> QED BY <1>1, <1>3, <1>4, OneStep

\* Nothing is asked of a run that has failed but its targets and its set.
LEMMA Resting ==
  ASSUME NEW hold, NEW run, WorkSound(run, hold), NEW next, next \in Run,
         next.phase = "failed" \/ (next.phase = "retry" /\ NodeOf(run) = "act"
                                    /\ next.source = "failed_files" /\ next.left = {}),
         next.ask = run.ask, next.step = run.step, next.ids = run.ids, next.cand = run.cand,
         next.source \in {run.source, "failed_files"}
  PROVE  Fit(next, hold)
<1>1. NodeOf(next) = NodeOf(run) /\ TargetsSound(next)
  BY DEF WorkSound, NodeOf, TargetsSound
<1>2. SetSound(next)
  BY <1>1 DEF WorkSound, SetSound
<1> QED BY <1>1, <1>2 DEF Fit, RunSound, WorkSound

LEMMA NodeRaisesStep ==
  ASSUME CandInv, NEW r \in Runs, NodeRaises(r)
  PROVE  CandInv'
<1> DEFINE run == [runs[r] EXCEPT !.phase = "failed"]
<1>1. /\ SetRun(r, run) /\ troubles < MaxTroubles /\ troubles' = troubles + 1
      /\ UNCHANGED <<shelf, kept, ahead, refused, started, removals>>
  BY DEF NodeRaises
<1>2. WorkSound(runs[r], kept) /\ runs[r] \in Run
  BY DEF CandInv, RunsInv, RunSound, WorkSound
<1>3. /\ run \in Run /\ run.phase = "failed" /\ run.ask = runs[r].ask /\ run.step = runs[r].step
      /\ run.ids = runs[r].ids /\ run.cand = runs[r].cand /\ run.source = runs[r].source
  BY <1>2 DEF Run, RunPhases
<1>4. Fit(run, kept)
  <2> HIDE DEF run
  <2> QED BY <1>2, <1>3, Resting
<1>5. started' \in 0..MaxRuns /\ removals' \in 0..MaxRemovals /\ troubles' \in 0..MaxTroubles
  BY <1>1, WorkflowCandidatesAssumption DEF CandInv, HistoryTypes
<1> QED BY <1>1, <1>4, <1>5, OneStep

LEMMA RetryJobStep ==
  ASSUME CandInv, NEW r \in Runs, NEW j \in runs[r].ill, RetryJob(r, j)
  PROVE  CandInv'
<1> DEFINE run == [runs[r] EXCEPT !.phase = "retry", !.source = "failed_files", !.open = {j},
                                  !.begun = {}, !.left = {}, !.ill = @ \ {j}]
<1>1. /\ NodeOf(runs[r]) = "act" /\ SetRun(r, run) /\ UNCHANGED <<shelf, kept, ahead, refused, counts>>
  BY DEF RetryJob, Node, NodeOf
<1>2. WorkSound(runs[r], kept) /\ runs[r] \in Run
  BY DEF CandInv, RunsInv, RunSound, WorkSound
<1>3. /\ run \in Run /\ run.phase = "retry" /\ run.ask = runs[r].ask /\ run.step = runs[r].step
      /\ run.ids = runs[r].ids /\ run.cand = runs[r].cand /\ run.source = "failed_files" /\ run.left = {}
  <2>1. {j} \in SUBSET SUBSET Owners /\ runs[r].ill \ {j} \in SUBSET SUBSET Owners
    BY <1>2, AskedRuns
  <2> QED BY <1>2, <2>1 DEF Run, RunPhases, Sources
<1>4. Fit(run, kept)
  <2> HIDE DEF run
  <2> QED BY <1>1, <1>2, <1>3, Resting
<1> QED BY <1>1, <1>4, Plain

-----------------------------------------------------------------------------
(* WorkflowCandidates: the library *)

\* The artist who is checked moves to the top, and those after him move down.
LEMMA RankedIsSound ==
  ASSUME RanksInv, NEW a \in Owners,
         NEW later, later = [b \in Owners |-> IF b = a THEN {} ELSE ahead[b] \cup {a}],
         ahead \in [Owners -> SUBSET Owners]
  PROVE  RanksSound(Ranked(a), later)
<1> DEFINE n == Cardinality(Owners)
           k == checked[a]
           c == Ranked(a)
           m == Cardinality(Never(checked))
<1>1. /\ n \in Nat /\ \A b \in Owners : checked[b] \in 0..n
      /\ Never(checked) \in SUBSET Owners /\ Never(c) \in SUBSET Owners /\ m \in Nat /\ Cardinality(Never(c)) \in Nat
      /\ IsFiniteSet(Never(checked))
  <2>1. Never(checked) \in SUBSET Owners /\ Never(c) \in SUBSET Owners
    BY DEF Never
  <2> QED BY <2>1, OwnersAreFinite DEF RanksInv, RanksSound
<1>2. /\ \A b, d \in Owners : b # d /\ checked[b] = checked[d] => checked[b] = 0
      /\ \A b \in Owners : checked[b] # 0 => checked[b] > m
      /\ \A b \in Owners : \A d \in ahead[b] : checked[d] > checked[b]
  BY DEF RanksInv, RanksSound
<1>3. /\ c = [b \in Owners |-> IF b = a THEN n ELSE IF checked[b] > k THEN checked[b] - 1 ELSE checked[b]]
      /\ c[a] = n
  BY DEF Ranked
<1>4. Never(checked) # {} => m > 0
  BY <1>1, FS_EmptySet
<1>5. n > 0
  BY <1>1, OwnersAreFinite, FS_EmptySet
<1> HIDE DEF n, k, c, m
<1>6. k \in 0..n
  BY <1>1 DEF k
\* a rank above that of the artist is not the lowest
<1>7. \A b \in Owners : checked[b] > k => checked[b] - 1 \in 1..n /\ checked[b] - 1 >= k
  <2>1. TAKE b \in Owners
  <2>2. HAVE checked[b] > k
  <2>3. checked[b] >= 2
    <3>1. CASE k = 0
      <4>1. a \in Never(checked) /\ checked[b] > m /\ m > 0
        BY <1>2, <1>4, <1>6, <2>2, <3>1 DEF Never, k
      <4> QED BY <1>1, <4>1
    <3>2. CASE k # 0
      BY <1>1, <1>6, <2>2, <3>2
    <3> QED BY <3>1, <3>2
  <2> QED BY <1>1, <1>6, <2>2, <2>3
<1>8. \A b \in Owners \ {a} : c[b] \in 0..(n - 1) /\ (c[b] = 0 <=> checked[b] = 0)
  <2>1. TAKE b \in Owners \ {a}
  <2>2. CASE checked[b] > k
    <3>1. c[b] = checked[b] - 1
      BY <1>3, <2>2
    <3> QED BY <1>1, <1>5, <1>7, <2>2, <3>1
  <2>3. CASE ~(checked[b] > k)
    <3>1. c[b] = checked[b]
      BY <1>3, <2>3
    <3>2. checked[b] # n
      <4>1. checked[b] = n => k = n
        BY <1>1, <1>6, <2>3
      <4> QED BY <1>2, <1>5, <4>1 DEF k
    <3> QED BY <1>1, <1>5, <3>1, <3>2
  <2> QED BY <2>2, <2>3
<1>9. \A b, d \in Owners \ {a} : checked[b] < checked[d] => c[b] < c[d]
  <2>1. TAKE b \in Owners \ {a}, d \in Owners \ {a}
  <2>2. HAVE checked[b] < checked[d]
  <2>3. checked[b] \in 0..n /\ checked[d] \in 0..n
    BY <1>1
  <2>4. CASE checked[b] > k
    BY <1>3, <1>6, <2>2, <2>3, <2>4
  <2>5. CASE checked[b] < k
    <3>1. c[b] = checked[b]
      BY <1>3, <1>6, <2>3, <2>5
    <3>2. c[d] = checked[d] \/ (checked[d] > k /\ c[d] = checked[d] - 1)
      BY <1>3
    <3> QED BY <1>6, <2>2, <2>3, <2>5, <3>1, <3>2
  <2>6. CASE checked[b] = k
    <3>1. checked[b] = 0 /\ k = 0
      BY <1>2, <2>6 DEF k
    <3>2. checked[d] > k
      BY <2>2, <2>6
    <3>3. c[b] = 0 /\ c[d] \in 0..(n - 1) /\ c[d] # 0
      BY <1>8, <2>2, <2>3, <3>1
    <3> QED BY <1>1, <3>3
  <2> QED BY <1>6, <2>3, <2>4, <2>5, <2>6
<1>10. c \in [Owners -> 0..n]
  <2>1. \A b \in Owners : c[b] \in 0..n
    BY <1>1, <1>3, <1>5, <1>8
  <2> QED BY <1>3, <2>1
<1>11. \A b, d \in Owners : b # d /\ c[b] = c[d] => c[b] = 0
  <2>1. TAKE b \in Owners, d \in Owners
  <2>2. HAVE b # d /\ c[b] = c[d]
  <2>3. b # a /\ d # a
    BY <1>1, <1>3, <1>8, <2>2
  <2>4. ~(checked[b] < checked[d]) /\ ~(checked[d] < checked[b])
    <3>1. c[b] \in 0..(n - 1) /\ c[d] \in 0..(n - 1)
      BY <1>8, <2>3
    <3>2. ~(c[b] < c[d]) /\ ~(c[d] < c[b])
      BY <1>1, <2>2, <3>1
    <3> QED BY <1>9, <2>3, <3>2
  <2>5. checked[b] = checked[d]
    BY <1>1, <2>4
  <2> QED BY <1>2, <1>8, <2>2, <2>3, <2>5
<1>12. Never(c) = Never(checked) \ {a}
  BY <1>1, <1>3, <1>5, <1>8 DEF Never
<1>13. \A b \in Owners : c[b] # 0 => c[b] > Cardinality(Never(c))
  <2>1. TAKE b \in Owners
  <2>2. HAVE c[b] # 0
  <2>3. CASE k = 0
    <3>1. a \in Never(checked)
      BY <2>3 DEF Never, k
    <3>2. Cardinality(Never(c)) = m - 1
      BY <1>1, <1>12, <3>1, FS_RemoveElement DEF m
    <3>3. CASE b = a
      <4>1. m <= n
        <5>1. IsFiniteSet(Owners)
          BY OwnersAreFinite
        <5> QED BY <1>1, <5>1, FS_Subset DEF m, n
      <4> QED BY <1>1, <1>3, <3>2, <3>3, <4>1
    <3>4. CASE b # a
      <4>1. checked[b] # 0 /\ checked[b] > m
        BY <1>2, <1>8, <2>2, <3>4
      <4>2. checked[b] > k
        BY <1>1, <2>3, <4>1
      <4>3. c[b] = checked[b] - 1
        BY <1>3, <3>4, <4>2
      <4> QED BY <1>1, <3>2, <4>1, <4>3
    <3> QED BY <3>3, <3>4
  <2>4. CASE k # 0
    <3>1. Never(c) = Never(checked)
      BY <1>12, <2>4 DEF Never, k
    <3>2. k > m /\ Cardinality(Never(c)) = m
      BY <1>2, <2>4, <3>1 DEF k, m
    <3>3. CASE b = a
      BY <1>1, <1>3, <1>6, <3>2, <3>3
    <3>4. CASE b # a /\ checked[b] > k
      <4>1. c[b] = checked[b] - 1
        BY <1>3, <3>4
      <4> QED BY <1>1, <1>6, <3>2, <3>4, <4>1
    <3>5. CASE b # a /\ ~(checked[b] > k)
      <4>1. c[b] = checked[b]
        BY <1>3, <3>5
      <4> QED BY <1>2, <2>2, <3>2, <4>1
    <3> QED BY <3>3, <3>4, <3>5
  <2> QED BY <2>3, <2>4
<1>14. \A b \in Owners : \A d \in later[b] : c[d] > c[b]
  <2>1. TAKE b \in Owners
  <2>2. TAKE d \in later[b]
  <2>3. b # a /\ (d = a \/ (d \in ahead[b] /\ d \in Owners))
    BY <2>2
  <2>4. CASE d = a
    BY <1>1, <1>3, <1>8, <2>3, <2>4
  <2>5. CASE d # a
    <3>1. checked[b] < checked[d]
      BY <1>1, <1>2, <2>3, <2>5
    <3>2. c[b] < c[d]
      BY <1>9, <2>3, <2>5, <3>1
    <3> QED BY <1>10, <2>3, <2>5, <3>2
  <2> QED BY <2>4, <2>5
<1> QED BY <1>10, <1>11, <1>13, <1>14 DEF RanksSound, c, n

\* The artist who goes leaves the ranks, and those before him move up.
LEMMA UnrankedIsSound ==
  ASSUME RanksInv, NEW a \in Owners,
         NEW later, later = [b \in Owners |-> IF b = a THEN {} ELSE ahead[b] \ {a}],
         ahead \in [Owners -> SUBSET Owners]
  PROVE  RanksSound(Unranked(a), later)
<1> DEFINE n == Cardinality(Owners)
           k == checked[a]
           c == Unranked(a)
           m == Cardinality(Never(checked))
<1>1. /\ n \in Nat /\ \A b \in Owners : checked[b] \in 0..n
      /\ Never(checked) \in SUBSET Owners /\ Never(c) \in SUBSET Owners /\ m \in Nat /\ Cardinality(Never(c)) \in Nat
      /\ IsFiniteSet(Never(checked))
  <2>1. Never(checked) \in SUBSET Owners /\ Never(c) \in SUBSET Owners
    BY DEF Never
  <2> QED BY <2>1, OwnersAreFinite DEF RanksInv, RanksSound
<1>2. /\ \A b, d \in Owners : b # d /\ checked[b] = checked[d] => checked[b] = 0
      /\ \A b \in Owners : checked[b] # 0 => checked[b] > m
      /\ \A b \in Owners : \A d \in ahead[b] : checked[d] > checked[b]
  BY DEF RanksInv, RanksSound
<1>3. /\ c = [b \in Owners |-> IF b = a THEN 0 ELSE IF checked[b] \in 1..k THEN checked[b] + 1 ELSE checked[b]]
      /\ c[a] = 0
  BY DEF Unranked
<1> HIDE DEF n, k, c, m
<1>4. k \in 0..n
  BY <1>1 DEF k
<1>5. \A b \in Owners \ {a} : checked[b] \in 1..k => checked[b] < k /\ k # 0
  <2>1. TAKE b \in Owners \ {a}
  <2>2. HAVE checked[b] \in 1..k
  <2>3. checked[b] # k
    <3>1. checked[b] # 0
      BY <2>2
    <3> QED BY <1>2, <3>1 DEF k
  <2> QED BY <1>1, <1>4, <2>2, <2>3
<1>6. \A b \in Owners \ {a} : c[b] \in 0..n /\ (c[b] = 0 <=> checked[b] = 0)
  <2>1. TAKE b \in Owners \ {a}
  <2>2. CASE checked[b] \in 1..k
    <3>1. c[b] = checked[b] + 1 /\ checked[b] < k
      BY <1>3, <1>5, <2>2
    <3> QED BY <1>1, <1>4, <2>2, <3>1
  <2>3. CASE checked[b] \notin 1..k
    BY <1>1, <1>3, <2>3
  <2> QED BY <2>2, <2>3
<1>7. \A b, d \in Owners \ {a} : checked[b] < checked[d] => c[b] < c[d]
  <2>1. TAKE b \in Owners \ {a}, d \in Owners \ {a}
  <2>2. HAVE checked[b] < checked[d]
  <2>3. checked[b] \in 0..n /\ checked[d] \in 0..n
    BY <1>1
  <2>4. CASE checked[d] \in 1..k
    <3>1. c[d] = checked[d] + 1
      BY <1>3, <2>4
    <3>2. c[b] = checked[b] \/ c[b] = checked[b] + 1
      BY <1>3
    <3> QED BY <2>2, <2>3, <3>1, <3>2
  <2>5. CASE checked[d] \notin 1..k
    <3>1. c[d] = checked[d] /\ checked[d] > k
      BY <1>3, <1>4, <2>2, <2>3, <2>5
    <3>2. CASE checked[b] \in 1..k
      <4>1. c[b] = checked[b] + 1 /\ checked[b] < k
        BY <1>3, <1>5, <3>2
      <4> QED BY <1>4, <2>3, <3>1, <4>1
    <3>3. CASE checked[b] \notin 1..k
      BY <1>3, <2>2, <3>1, <3>3
    <3> QED BY <3>2, <3>3
  <2> QED BY <2>4, <2>5
<1>8. c \in [Owners -> 0..n]
  <2>1. \A b \in Owners : c[b] \in 0..n
    BY <1>1, <1>3, <1>6
  <2> QED BY <1>3, <2>1
<1>9. \A b, d \in Owners : b # d /\ c[b] = c[d] => c[b] = 0
  <2>1. TAKE b \in Owners, d \in Owners
  <2>2. HAVE b # d /\ c[b] = c[d]
  <2>3. CASE b = a \/ d = a
    BY <1>3, <2>2, <2>3
  <2>4. CASE b # a /\ d # a
    <3>1. ~(checked[b] < checked[d]) /\ ~(checked[d] < checked[b])
      <4>1. c[b] \in 0..n /\ c[d] \in 0..n
        BY <1>6, <2>4
      <4>2. ~(c[b] < c[d]) /\ ~(c[d] < c[b])
        BY <1>1, <2>2, <4>1
      <4> QED BY <1>7, <2>4, <4>2
    <3>2. checked[b] = checked[d]
      BY <1>1, <3>1
    <3> QED BY <1>2, <1>6, <2>2, <2>4, <3>2
  <2> QED BY <2>3, <2>4
<1>10. Never(c) = Never(checked) \cup {a}
  BY <1>1, <1>3, <1>6 DEF Never
<1>11. \A b \in Owners : c[b] # 0 => c[b] > Cardinality(Never(c))
  <2>1. TAKE b \in Owners
  <2>2. HAVE c[b] # 0
  <2>3. b # a /\ checked[b] # 0 /\ checked[b] > m
    BY <1>2, <1>3, <1>6, <2>2
  <2>4. CASE k = 0
    <3>1. Never(c) = Never(checked)
      BY <1>10, <2>4 DEF Never, k
    <3>2. c[b] = checked[b]
      BY <1>3, <1>5, <2>3, <2>4
    <3> QED BY <2>3, <3>1, <3>2 DEF m
  <2>5. CASE k # 0
    <3>1. a \notin Never(checked) /\ k > m
      BY <1>2, <2>5 DEF Never, k
    <3>2. Cardinality(Never(c)) = m + 1
      BY <1>1, <1>10, <3>1, FS_AddElement DEF m
    <3>3. CASE checked[b] \in 1..k
      <4>1. c[b] = checked[b] + 1
        BY <1>3, <2>3, <3>3
      <4> QED BY <1>1, <2>3, <3>2, <4>1
    <3>4. CASE checked[b] \notin 1..k
      <4>1. c[b] = checked[b] /\ checked[b] > k
        BY <1>1, <1>3, <1>4, <2>3, <3>4
      <4> QED BY <1>1, <1>4, <3>1, <3>2, <4>1
    <3> QED BY <3>3, <3>4
  <2> QED BY <2>4, <2>5
<1>12. \A b \in Owners : \A d \in later[b] : c[d] > c[b]
  <2>1. TAKE b \in Owners
  <2>2. TAKE d \in later[b]
  <2>3. b # a /\ d # a /\ d \in ahead[b] /\ d \in Owners
    BY <2>2
  <2>4. checked[b] < checked[d]
    BY <1>1, <1>2, <2>3
  <2>5. c[b] < c[d]
    BY <1>7, <2>3, <2>4
  <2> QED BY <1>8, <2>3, <2>5
<1> QED BY <1>8, <1>9, <1>11, <1>12 DEF RanksSound, c, n

LEMMA SyncArtistStep ==
  ASSUME CandInv, NEW r \in Runs, NEW a \in Owners, NEW available \in BOOLEAN, NEW upTo,
         SyncArtist(r, a, available, upTo)
  PROVE  CandInv'
<1> DEFINE run == runs[r]
<1>1. /\ run.phase = "jobs" /\ NodeOf(run) = "sync" /\ {a} \in run.open /\ SetRun(r, Ended(run, {a}, FALSE))
      /\ listed' = listed \cup {a} /\ gone' = (IF available THEN gone \ {a} ELSE gone \cup {a})
      /\ checked' = Ranked(a)
      /\ ahead' = [b \in Owners |-> IF b = a THEN {} ELSE ahead[b] \cup {a}]
      /\ status' = [w \in Works |->
           IF available /\ OwnerOf[w] = a /\ w <= upTo /\ status[w] = "absent"
           THEN "remote_only" ELSE status[w]]
      /\ UNCHANGED <<cursor, kept, refused, counts>>
  BY DEF SyncArtist, Node, NodeOf
<1>2. WorkSound(run, kept) /\ (\A i, k \in run.open : i # k => i \cap k = {})
  BY <1>1 DEF CandInv, RunsInv, RunSound
<1>3. run.wanted \ run.taken = {}
  <2>1. ASSUME NEW w \in run.wanted \ run.taken PROVE FALSE
    BY <1>1, <1>2, <2>1 DEF WorkSound, Pursued
  <2> QED BY <2>1
<1>4. Fit(Ended(run, {a}, FALSE), kept)
  BY <1>1, <1>2, <1>3, EndedIsFit
<1>5. RunsInv' /\ missed' = {}
  BY <1>1, <1>4, OneRun DEF RunsInv
<1>6. RanksInv'
  BY <1>1, RankedIsSound DEF CandInv, RanksInv, HistoryTypes
<1>7. status' \in [Works -> PageStatuses] /\ \A w \in Works : status[w] # "absent" => status'[w] # "absent"
  BY <1>1 DEF CandInv, LibraryTypes, PageStatuses
<1>8. LibraryTypes'
  BY <1>1, <1>6, <1>7 DEF CandInv, LibraryTypes, RanksInv, RanksSound
<1>9. KeptInv'
  BY <1>1, <1>7 DEF CandInv, KeptInv
<1>10. HistoryTypes'
  BY <1>1 DEF CandInv, HistoryTypes, counts
<1> QED BY <1>5, <1>6, <1>8, <1>9, <1>10 DEF CandInv

\* What a candidate set holds keeps the artist in the library.
LEMMA RemoveArtistStep ==
  ASSUME CandInv, NEW a \in Owners, RemoveArtist(a)
  PROVE  CandInv'
<1> DEFINE own == {w \in Works : OwnerOf[w] = a}
<1>1. /\ removals < MaxRemovals /\ removals' = removals + 1
      /\ UNCHANGED <<kept, runs, missed, started, troubles>>
  BY DEF RemoveArtist
<1>2. RunsInv' /\ missed' = {} /\ removals' \in 0..MaxRemovals
  BY <1>1, WorkflowCandidatesAssumption DEF CandInv, RunsInv, HistoryTypes
<1>3. CASE own \cap kept # {}
  <2>1. refused' = refused \cup {a} /\ UNCHANGED <<shelf, ahead>>
    BY <1>3 DEF RemoveArtist
  <2> QED BY <1>1, <1>2, <2>1 DEF CandInv, LibraryTypes, HistoryTypes, KeptInv, RanksInv, shelf
<1>4. CASE own \cap kept = {}
  <2>1. /\ listed' = listed \ {a} /\ gone' = gone \ {a} /\ checked' = Unranked(a)
        /\ cursor' = [cursor EXCEPT ![a] = 0]
        /\ status' = [w \in Works |-> IF w \in own THEN "absent" ELSE status[w]]
        /\ ahead' = [b \in Owners |-> IF b = a THEN {} ELSE ahead[b] \ {a}] /\ UNCHANGED refused
    BY <1>4 DEF RemoveArtist
  <2>2. RanksInv'
    BY <2>1, UnrankedIsSound DEF CandInv, RanksInv, HistoryTypes
  <2>3. cursor' \in [Owners -> 0..MaxWorks]
    <3>1. 0 \in 0..MaxWorks
      BY WorkflowCandidatesAssumption
    <3> QED BY <2>1, <3>1 DEF CandInv, LibraryTypes
  <2>4. LibraryTypes'
    BY <2>1, <2>2, <2>3 DEF CandInv, LibraryTypes, RanksInv, RanksSound, PageStatuses
  <2>5. KeptInv'
    <3>1. \A w \in kept : w \in Works /\ w \notin own /\ OwnerOf[w] # a
      BY <1>4 DEF CandInv, KeptInv
    <3> QED BY <1>1, <2>1, <3>1 DEF CandInv, KeptInv
  <2>6. HistoryTypes'
    BY <1>1, <1>2, <2>1 DEF CandInv, HistoryTypes
  <2> QED BY <1>2, <2>2, <2>4, <2>5, <2>6 DEF CandInv
<1> QED BY <1>3, <1>4

LEMMA CandInitially == CandInit => CandInv
<1> SUFFICES ASSUME CandInit PROVE CandInv
  OBVIOUS
<1>2. Cardinality(Owners) \in Nat
  BY OwnersAreFinite
<1>3. /\ status \in [Works -> PageStatuses] /\ listed \in SUBSET Owners /\ gone = {}
      /\ checked = [a \in Owners |-> 0] /\ cursor = [a \in Owners |-> 0]
      /\ kept = {} /\ runs = [r \in Runs |-> FreeRun] /\ ahead = [a \in Owners |-> {}]
      /\ missed = {} /\ refused = {} /\ started = 0 /\ removals = 0 /\ troubles = 0
  BY WorkflowCandidatesAssumption DEF CandInit
<1>4. LibraryTypes
  BY <1>2, <1>3, WorkflowCandidatesAssumption DEF LibraryTypes
<1>5. HistoryTypes /\ KeptInv
  BY <1>3, WorkflowCandidatesAssumption DEF HistoryTypes, KeptInv
<1>6. RunsInv
  BY <1>3, FreeIsSound DEF RunsInv
<1>7. RanksInv
  BY <1>2, <1>3 DEF RanksInv, RanksSound
<1> QED BY <1>3, <1>4, <1>5, <1>6, <1>7 DEF CandInv

LEMMA CandSteps == CandInv /\ [CandNext]_candVars => CandInv'
<1> SUFFICES ASSUME CandInv, [CandNext]_candVars PROVE CandInv'
  OBVIOUS
<1>1. CASE UNCHANGED candVars
  BY <1>1 DEF CandInv, LibraryTypes, HistoryTypes, KeptInv, RunsInv, RanksInv, candVars
<1>2. ASSUME NEW a \in Owners, RemoveArtist(a) PROVE CandInv'
  BY <1>2, RemoveArtistStep
<1>3. ASSUME NEW r \in Runs, RunNext(r) PROVE CandInv'
  <2>1. CASE \E ask \in Asks : StartRun(r, ask)
    BY <2>1, StartRunStep
  <2>2. CASE \E old \in 0..Cardinality(Owners), S \in SUBSET Owners : Target(r, old, S)
    BY <2>2, TargetStep
  <2>3. CASE \E S \in SUBSET Owners : Resolve(r, S)
    BY <2>3, ResolveStep
  <2>4. CASE SyncNode(r)
    BY <2>4, SyncNodeStep
  <2>5. CASE \E a \in Owners, upTo \in Uploads : SyncArtist(r, a, TRUE, upTo)
    BY <2>5, SyncArtistStep
  <2>6. CASE \E a \in Owners : SyncArtist(r, a, FALSE, 0)
    BY <2>6, SyncArtistStep
  <2>7. CASE \E S \in SUBSET Works : Collect(r, S)
    BY <2>7, CollectStep
  <2>8. CASE Filter(r)
    BY <2>8, FilterStep
  <2>9. CASE Act(r)
    BY <2>9, ActStep
  <2>10. ASSUME NEW j \in runs[r].open, Select(r, j) \/ CloseJob(r, j) \/ JobEndsIll(r, j) PROVE CandInv'
    BY <2>10, SelectStep, CloseJobStep, JobEndsIllStep
  <2>11. ASSUME NEW j \in runs[r].open, NEW w \in runs[r].left,
                NEW result \in {"downloaded", "skipped", "failed"}, Fetch(r, j, w, result)
         PROVE  CandInv'
    BY <2>11, FetchStep
  <2>12. CASE \E j \in runs[r].ill : RetryJob(r, j)
    BY <2>12, RetryJobStep
  <2>13. CASE NodeRaises(r)
    BY <2>13, NodeRaisesStep
  <2> QED BY <1>3, <2>1, <2>2, <2>3, <2>4, <2>5, <2>6, <2>7, <2>8, <2>9, <2>10, <2>11, <2>12, <2>13
          DEF RunNext
<1> QED BY <1>1, <1>2, <1>3 DEF CandNext

LEMMA CandInvariance == CandSpec => []CandInv
  BY CandInitially, CandSteps, PTL DEF CandSpec

-----------------------------------------------------------------------------
(* WorkflowCandidates: theorems *)

\* Artists, artworks, candidate sets and runs keep their types: a time of check
\* stays a place in the order of the artists, whoever is removed.
THEOREM CandTypes == CandSpec => []CandTypeOK
<1>1. CandInv => CandTypeOK
  BY DEF CandInv, LibraryTypes, HistoryTypes, KeptInv, RunsInv, CandTypeOK
<1> QED BY <1>1, CandInvariance, PTL

\* A completed run for new artworks has tried every new artwork of its artists.
THEOREM RunsDeliver == CandSpec => []RunDelivers
<1>1. CandInv => RunDelivers
  BY DEF CandInv, RunDelivers
<1> QED BY <1>1, CandInvariance, PTL

Served(w) == \E r \in Runs : w \in runs[r].left \ runs'[r].left /\ AskedFor(r, w)
Touched(w) == status[w] # "absent" /\ status'[w] \notin {"absent", status[w]}

\* A job that changes a page was asked for it.
LEMMA FetchIsAsked ==
  ASSUME CandInv, NEW r \in Runs, NEW j \in runs[r].open, NEW w \in runs[r].left,
         NEW result \in {"downloaded", "skipped", "failed"}, Fetch(r, j, w, result),
         NEW v \in Works, Touched(v)
  PROVE  Served(v)
<1> DEFINE old == runs[r]
           wants == StillWanted(old.source, status[w])
           kind == IF ~wants THEN status[w] ELSE IF status[w] = "downloaded" THEN "downloaded" ELSE result
           pages == [status EXCEPT ![w] = kind]
           fails == wants /\ result = "failed"
           run == [old EXCEPT !.left = @ \ {w}, !.ill = IF fails THEN @ \cup {j} ELSE @,
                              !.taken = IF pages[w] \in Complete THEN @ \cup {w} ELSE @]
<1>1. Downloading(r) /\ SetRun(r, run) /\ status' = pages
  BY DEF Fetch
<1>2. /\ old \in Run /\ TargetsSound(old) /\ SetSound(old) /\ NodeOf(old) = "act"
      /\ old.phase \in {"jobs", "retry"} /\ w \in old.cand
  BY <1>1, Acting
<1>3. v = w /\ wants
  <2>1. status \in [Works -> PageStatuses]
    BY DEF CandInv, LibraryTypes
  <2> QED BY <1>1, <2>1 DEF Touched
<1>4. w \in old.left \ runs'[r].left
  <2>1. run.phase = old.phase /\ run.left = old.left \ {w}
    BY <1>2 DEF Run
  <2> HIDE DEF run
  <2>2. runs' = [runs EXCEPT ![r] = run]
    BY <1>1, <1>2, <2>1 DEF SetRun
  <2>3. runs'[r] = run
    BY <2>2 DEF CandInv, RunsInv
  <2> QED BY <2>1, <2>3
<1>5. AskedFor(r, w)
  <2>1. /\ OwnerOf[w] \in old.ids /\ w \in old.ask.range
        /\ old.ask.scope \in ByWork => w \in old.ask.works
        /\ old.source \in {old.ask.mode, "failed_files"} /\ (old.ask.blocks => w \notin Tagged)
        /\ old.phase = "retry" => old.source = "failed_files"
    BY <1>2 DEF SetSound
  <2>2. /\ old.ask.max > 0 => Cardinality(old.ids) <= old.ask.max
        /\ old.ask.scope \notin Bulk /\ old.ask.works = {} => OwnerOf[w] \in old.ask.artists
    BY <1>2, <2>1 DEF TargetsSound
  <2>3. old.ask.mode \in Sources
    BY <1>2, AskedRuns DEF Ask
  <2>4. old.source = "failed_files" => status[w] = "failed"
    BY <1>3 DEF StillWanted
  <2>5. old.ask.mode # "all_synced" => status[w] \notin Complete
    BY <1>3, <2>1, <2>3, <2>4 DEF StillWanted, Sources, Complete
  <2> QED BY <2>1, <2>2, <2>4, <2>5 DEF AskedFor
<1> QED BY <1>3, <1>4, <1>5 DEF Served

\* Other steps change no page that is in the library.
LEMMA StepsAreAsked ==
  ASSUME CandInv, [CandNext]_candVars, NEW v \in Works, Touched(v)
  PROVE  Served(v)
<1>1. status[v] # "absent" /\ status'[v] \notin {"absent", status[v]} /\ status' # status
  BY DEF Touched
<1>2. ASSUME NEW a \in Owners, RemoveArtist(a) PROVE FALSE
  BY <1>1, <1>2 DEF RemoveArtist, shelf
<1>3. ASSUME NEW r \in Runs, NEW a \in Owners, NEW available, NEW upTo, SyncArtist(r, a, available, upTo)
      PROVE  FALSE
  BY <1>1, <1>3 DEF SyncArtist
<1>4. PICK r \in Runs : RunNext(r)
  BY <1>1, <1>2 DEF CandNext, candVars
<1>5. \E j \in runs[r].open, w \in runs[r].left, result \in {"downloaded", "skipped", "failed"} :
         Fetch(r, j, w, result)
  BY <1>1, <1>3, <1>4
     DEF RunNext, StartRun, Target, Resolve, SyncNode, Collect, Filter, Act, Select, CloseJob, JobEndsIll,
         RetryJob, NodeRaises, shelf
<1> QED BY <1>5, FetchIsAsked

\* A page changes only by a job of a run that asks for it.
THEOREM PagesAreAskedFor == CandSpec => OnlyWhatIsAsked
<1>1. CandInv /\ [CandNext]_candVars =>
        [\A w \in Works : status[w] # "absent" /\ status'[w] \notin {"absent", status[w]} =>
           \E r \in Runs : w \in runs[r].left \ runs'[r].left /\ AskedFor(r, w)]_candVars
  BY StepsAreAsked DEF Touched, Served
<1> QED BY <1>1, CandInvariance, PTL DEF CandSpec, OnlyWhatIsAsked

Laps(r) ==
  /\ InNode(r, "target") /\ runs[r].ask.scope = "all_artists"
  /\ runs[r].ask.pick = "oldest" /\ runs'[r] # runs[r]

\* A target takes nobody who was checked after one it passes over.
LEMMA TargetLapsNobody ==
  ASSUME CandInv, NEW r \in Runs, NEW old \in 0..Cardinality(Owners), NEW S \in SUBSET Owners,
         Target(r, old, S), Laps(r), NEW a \in listed \ (gone \cup runs'[r].ids)
  PROVE  ahead[a] \cap runs'[r].ids = {}
<1> DEFINE run == [runs[r] EXCEPT !.ids = S]
           jobs == IF S = {} /\ runs[r].ask.works = {} THEN {} ELSE {{}}
           next == WithJobs(run, jobs)
           from == Candidates(runs[r].ask, old)
<1>1. /\ runs[r] \in Run /\ NodeOf(runs[r]) = "target" /\ runs[r].phase = "node" /\ SetRun(r, next)
      /\ S \subseteq from /\ (\A c \in S, b \in from \ S : Before(runs[r].ask, c, b))
      /\ runs[r].step \in 1..Len(Nodes(runs[r].ask))
      /\ runs[r].ask.scope = "all_artists" /\ runs[r].ask.pick = "oldest"
  BY DEF Target, InNode, Node, NodeOf, Chosen, CandInv, RunsInv, RunSound, WorkSound, Laps
<1>2. /\ run.ids = S /\ run.ask = runs[r].ask /\ run.step = runs[r].step /\ run \in Run
  BY <1>1 DEF Run
<1>3. next.ids = S /\ next.phase # "completed"
  <2>1. run.step # Len(Nodes(run.ask))
    BY <1>1, <1>2, NodeOrder DEF NodeOf
  <2> HIDE DEF run, jobs
  <2> QED BY <1>2, <2>1 DEF WithJobs, After, Run
<1>4. runs'[r].ids = S
  <2> HIDE DEF next
  <2>1. runs' = [runs EXCEPT ![r] = next]
    BY <1>1, <1>3 DEF SetRun
  <2> QED BY <1>3, <2>1 DEF CandInv, RunsInv
<1>5. ASSUME NEW b \in ahead[a] \cap S PROVE FALSE
  <2>1. a \in Owners /\ b \in Owners /\ checked[b] > checked[a]
        /\ checked[a] \in Nat /\ checked[b] \in Nat /\ old \in Nat
    BY OwnersAreFinite DEF CandInv, RanksInv, RanksSound, LibraryTypes
  <2>2. b \in from
    BY <1>1, <1>5
  <2>3. a \in from
    BY <1>1, <1>4, <2>1, <2>2 DEF Candidates
  <2>4. Before(runs[r].ask, b, a)
    BY <1>1, <1>4, <1>5, <2>3
  <2> QED BY <1>1, <2>1, <2>4 DEF Before
<1> QED BY <1>4, <1>5

\* Other steps take no artists from a run that is to choose them.
LEMMA StepsLapNobody ==
  ASSUME CandInv, [CandNext]_candVars, NEW r \in Runs, Laps(r), NEW a \in listed \ (gone \cup runs'[r].ids)
  PROVE  ahead[a] \cap runs'[r].ids = {}
<1>1. /\ runs[r].phase = "node" /\ NodeOf(runs[r]) = "target" /\ runs[r].ids = {} /\ runs'[r] # runs[r]
      /\ runs \in [Runs -> Run]
  BY DEF Laps, InNode, Node, NodeOf, CandInv, RunsInv, RunSound
<1>2. ASSUME NEW q \in Runs, NEW run, SetRun(q, run) PROVE q = r
  BY <1>1, <1>2 DEF SetRun
<1>3. PICK q \in Runs : RunNext(q)
  BY <1>1 DEF CandNext, candVars, RemoveArtist
<1>4. q = r
  <2>1. CASE \E j \in runs[q].open : \/ Select(q, j) \/ CloseJob(q, j) \/ JobEndsIll(q, j)
                                     \/ \E w \in runs[q].left, result \in {"downloaded", "skipped", "failed"} :
                                          Fetch(q, j, w, result)
    <3>1. PICK j \in runs[q].open : \/ Select(q, j) \/ CloseJob(q, j) \/ JobEndsIll(q, j)
                                    \/ \E w \in runs[q].left, result \in {"downloaded", "skipped", "failed"} :
                                         Fetch(q, j, w, result)
      BY <2>1
    <3>2. ASSUME Select(q, j) PROVE q = r
      BY <1>2, <3>2 DEF Select
    <3>3. ASSUME CloseJob(q, j) \/ JobEndsIll(q, j) PROVE q = r
      BY <1>2, <3>3 DEF CloseJob, JobEndsIll
    <3>4. ASSUME NEW w, NEW result, Fetch(q, j, w, result) PROVE q = r
      BY <1>2, <3>4 DEF Fetch
    <3> QED BY <3>1, <3>2, <3>3, <3>4
  <2>2. CASE \/ \E ask \in Asks : StartRun(q, ask)
             \/ \E old \in 0..Cardinality(Owners), S \in SUBSET Owners : Target(q, old, S)
             \/ \E S \in SUBSET Owners : Resolve(q, S)
             \/ SyncNode(q) \/ Filter(q) \/ Act(q) \/ NodeRaises(q)
             \/ \E j \in runs[q].ill : RetryJob(q, j)
    <3>1. ASSUME NEW ask, StartRun(q, ask) PROVE q = r
      BY <1>2, <3>1 DEF StartRun
    <3>2. ASSUME NEW old, NEW S, Target(q, old, S) PROVE q = r
      BY <1>2, <3>2 DEF Target
    <3>3. ASSUME NEW S, Resolve(q, S) PROVE q = r
      BY <1>2, <3>3 DEF Resolve
    <3>4. ASSUME SyncNode(q) \/ Filter(q) \/ Act(q) \/ NodeRaises(q) PROVE q = r
      BY <1>2, <3>4 DEF SyncNode, Filter, Act, NodeRaises
    <3>5. ASSUME NEW j, RetryJob(q, j) PROVE q = r
      BY <1>2, <3>5 DEF RetryJob
    <3> QED BY <2>2, <3>1, <3>2, <3>3, <3>4, <3>5
  <2>3. ASSUME NEW b, NEW available, NEW upTo, SyncArtist(q, b, available, upTo) PROVE q = r
    BY <1>2, <2>3 DEF SyncArtist
  <2>4. ASSUME NEW S, Collect(q, S) PROVE q = r
    BY <1>2, <2>4 DEF Collect
  <2> QED BY <1>3, <2>1, <2>2, <2>3, <2>4 DEF RunNext
<1>5. CASE NodeRaises(r)
  <2>1. runs' = [runs EXCEPT ![r] = [runs[r] EXCEPT !.phase = "failed"]]
    BY <1>1, <1>5 DEF NodeRaises, SetRun, Run
  <2> QED BY <1>1, <2>1 DEF Run
<1>6. CASE \E old \in 0..Cardinality(Owners), S \in SUBSET Owners : Target(r, old, S)
  BY <1>6, TargetLapsNobody
<1>7. NodeRaises(r) \/ \E old \in 0..Cardinality(Owners), S \in SUBSET Owners : Target(r, old, S)
  BY <1>1, <1>3, <1>4
     DEF RunNext, StartRun, Resolve, SyncNode, SyncArtist, Collect, Filter, Act, Select, Fetch, Downloading,
         CloseJob, JobEndsIll, RetryJob, InNode, Node, NodeOf
<1> QED BY <1>5, <1>6, <1>7

\* A limited target that takes the artists checked longest ago laps nobody.
THEOREM TargetsLapNobody == CandSpec => NobodyIsLapped
<1>1. CandInv /\ [CandNext]_candVars =>
        [\A r \in Runs :
           /\ InNode(r, "target") /\ runs[r].ask.scope = "all_artists"
           /\ runs[r].ask.pick = "oldest" /\ runs'[r] # runs[r]
           => \A a \in listed \ (gone \cup runs'[r].ids) : ahead[a] \cap runs'[r].ids = {}]_candVars
  BY StepsLapNobody DEF Laps
<1> QED BY <1>1, CandInvariance, PTL DEF CandSpec, NobodyIsLapped
=============================================================================
