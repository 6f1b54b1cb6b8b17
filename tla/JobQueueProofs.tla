--------------------------- MODULE JobQueueProofs ---------------------------
(* Theorems about JobQueue, for every value of its constants. *)
EXTENDS JobQueue, FiniteSetTheorems, TLAPS

Statuses == {"absent"} \cup ActiveStatuses \cup TerminalStatuses

-----------------------------------------------------------------------------
(* What the statements on a row return. *)

\* Every statement of the repository turns rows into rows.
LEMMA RowOperators ==
  ASSUME NEW row \in Row, NEW copy \in Row
  PROVE  /\ Update(row, copy) \in Row
         /\ RequestCancel(row) \in Row
         /\ Requeue(row) \in Row
         /\ RequeueUnfinished(row) \in Row
         /\ Cancelled(row) \in Row
         /\ Failed(row) \in Row
<1> USE DEF Row, ActiveStatuses, WaitingStatuses, TerminalStatuses
<1>1. Update(row, copy) \in Row
  BY DEF Update
<1>2. RequestCancel(row) \in Row
  BY DEF RequestCancel
<1>3. Requeue(row) \in Row
  <2>1. 0 \in 0..MaxFiles
    BY JobRowsAssumption
  <2> QED BY <2>1 DEF Requeue
<1>4. RequeueUnfinished(row) \in Row
  BY DEF RequeueUnfinished
<1>5. Cancelled(row) \in Row
  BY DEF Cancelled
<1>6. Failed(row) \in Row
  BY DEF Failed
<1> QED BY <1>1, <1>2, <1>3, <1>4, <1>5, <1>6

\* The empty row is a row.
LEMMA NoRowIsRow == NoRow \in Row
  BY JobRowsAssumption DEF NoRow, Row

-----------------------------------------------------------------------------
(* Type correctness. *)

\* TypeOK is inductive once the loop is known to hold a job when it claims one.
CandidateChosen == loop = "take" => candidate \in Jobs

TypeInv == TypeOK /\ CandidateChosen

LEMMA TypeInit == Init => TypeInv
<1> SUFFICES ASSUME Init PROVE TypeInv
  OBVIOUS
<1>1. 0 \in 0..MaxFaults /\ 0 \in 0..MaxDowntimes
  BY JobQueueAssumption
<1>2. requests \in [Clients -> {NoRequest}]
  BY DEF Init, Idle
<1>3. /\ jobs \in [Jobs -> Row] /\ snap \in [Jobs -> Row]
      /\ thread \in [Jobs -> ThreadStates]
  BY NoRowIsRow DEF Init, Idle, ThreadStates
<1> QED
  BY <1>1, <1>2, <1>3 DEF Init, Idle, TypeInv, TypeOK, CandidateChosen, LoopStates

LEMMA TypeNext == TypeInv /\ [Next]_vars => TypeInv'
<1> SUFFICES ASSUME TypeInv, [Next]_vars PROVE TypeInv'
  BY DEF TypeInv
<1> USE DEF TypeInv, TypeOK, CandidateChosen, queueVars, threadVars
<1>1. ASSUME NEW j \in Jobs, Create(j) PROVE TypeInv'
  <2>1. [jobs[j] EXCEPT !.status = CreationStatus(jobs)] \in Row
    BY DEF Row, CreationStatus, ActiveStatuses, WaitingStatuses
  <2> QED BY <1>1, <2>1 DEF Create
<1>2. ASSUME NEW c \in Clients, NEW j \in Jobs, CancelRead(c, j) PROVE TypeInv'
  BY <1>2 DEF CancelRead
<1>3. ASSUME NEW c \in Clients, CancelWrite(c) PROVE TypeInv'
  <2>1. /\ requests[c].job \in Jobs
        /\ requests[c].row \in Row
    BY <1>3 DEF CancelWrite
  <2>2. /\ Update(jobs[requests[c].job], Cancelled(requests[c].row)) \in Row
        /\ RequestCancel(jobs[requests[c].job]) \in Row
    BY <2>1, RowOperators
  <2> QED BY <1>3, <2>1, <2>2 DEF CancelWrite
<1>4. CASE Pause \/ Resume
  BY <1>4 DEF Pause, Resume
<1>5. CASE Reap
  <2>1. ASSUME NEW j \in Jobs PROVE RequeueUnfinished(jobs[j]) \in Row
    <3>1. jobs[j] \in Row
      OBVIOUS
    <3> QED BY <3>1, RowOperators
  <2> QED BY <1>5, <2>1 DEF Reap, LoopStates, ThreadStates
<1>6. CASE Activate
  <2>1. ASSUME NEW promoted \in SUBSET Jobs
        PROVE  Activated(jobs, promoted) \in [Jobs -> Row]
    BY DEF Activated, Row, ActiveStatuses, WaitingStatuses
  <2> QED BY <1>6, <2>1 DEF Activate, Goto, LoopStates
<1>7. CASE Select
  BY <1>7 DEF Select, Goto, LoopStates
<1>8. CASE Take
  <2>1. \A j \in Jobs : [jobs[j] EXCEPT !.status = "running"] \in Row
    BY DEF Row, ActiveStatuses
  <2>2. CASE Claimable(candidate)
    BY <1>8, <2>1, <2>2 DEF Take, LoopStates, ThreadStates
  <2>3. CASE ~Claimable(candidate)
    BY <1>8, <2>3 DEF Take, LoopStates
  <2> QED BY <2>2, <2>3
<1>9. CASE LoopFault \/ WakeUp
  BY <1>9, JobQueueAssumption DEF LoopFault, WakeUp, Goto, LoopStates
<1>10. ASSUME NEW j \in Jobs, Work(j) PROVE TypeInv'
  <2>0. jobs[j] \in Row /\ snap[j] \in Row
    OBVIOUS
  <2>1. /\ Cancelled(jobs[j]) \in Row
        /\ Failed(jobs[j]) \in Row
        /\ Update(jobs[j], snap[j]) \in Row
    BY <2>0, RowOperators
  <2>2. ASSUME ReadJob(j) PROVE TypeInv'
    <3>1. [jobs[j] EXCEPT !.status = "running"] \in Row
      BY DEF Row, ActiveStatuses
    <3> QED BY <2>1, <2>2, <3>1 DEF ReadJob, Prepare, ThreadStates
  <2>3. ASSUME NEW place \in ThreadStates, NEW files \in 0..MaxFiles,
               Store(j, place, files)
        PROVE  TypeInv'
    <3>1. [NoRow EXCEPT !.done = files] \in Row
      BY DEF NoRow, Row
    <3> QED BY <2>1, <2>3, <3>1 DEF Store
  <2>4. jobs[j] \in Row /\ snap[j].done \in 0..MaxFiles /\ 0 \in 0..MaxFiles
    BY JobRowsAssumption DEF Row
  <2>5. ASSUME Start(j) \/ RecordProgress(j) \/ StoreOutcome(j) PROVE TypeInv'
    BY <2>3, <2>4, <2>5 DEF Start, RecordProgress, StoreOutcome, ThreadStates
  <2>6. ASSUME ReadProgress(j) PROVE TypeInv'
    <3>1. [jobs[j] EXCEPT !.done = snap[j].done + 1] \in Row
      BY <2>6, JobRowsAssumption DEF ReadProgress, MoreFiles, Row
    <3> QED BY <2>6, <3>1 DEF ReadProgress, Prepare, ThreadStates
  <2>7. ASSUME ReadOutcome(j) PROVE TypeInv'
    <3>1. PICK status \in {"completed", "failed"} :
            Prepare(j, [jobs[j] EXCEPT !.status = status, !.done = snap[j].done],
                    "finishing")
      BY <2>7 DEF ReadOutcome
    <3>2. [jobs[j] EXCEPT !.status = status, !.done = snap[j].done] \in Row
      BY <2>4 DEF Row, TerminalStatuses
    <3> QED BY <3>1, <3>2 DEF Prepare, ThreadStates
  <2>8. ASSUME ReadFailure(j) \/ ObserveCancel(j) PROVE TypeInv'
    BY <2>1, <2>8 DEF ReadFailure, ObserveCancel, Prepare, ThreadStates
  <2>9. ASSUME Continue(j) PROVE TypeInv'
    BY <2>9 DEF Continue, ThreadStates
  <2> QED BY <1>10, <2>2, <2>5, <2>6, <2>7, <2>8, <2>9 DEF Work
<1>11. ASSUME NEW j \in Jobs, ThreadFault(j) PROVE TypeInv'
  <2>1. jobs[j] \in Row
    OBVIOUS
  <2>2. Failed(jobs[j]) \in Row
    BY <2>1, RowOperators
  <2> QED BY <1>11, <2>2, NoRowIsRow, JobQueueAssumption DEF ThreadFault, ThreadStates
<1>12. ASSUME LoseMemory, downtimes' \in 0..MaxDowntimes PROVE TypeInv'
  BY <1>12, NoRowIsRow DEF LoseMemory, LoopStates, ThreadStates
<1>13. CASE Exit \/ Crash
  BY <1>12, <1>13, JobQueueAssumption DEF Exit, Crash
<1>14. CASE Stop
  BY <1>14, JobQueueAssumption DEF Stop
<1>15. CASE Boot
  <2>1. \A j \in Jobs : Requeue(jobs[j]) \in Row
    BY RowOperators
  <2> QED BY <1>15, <2>1 DEF Boot, LoopStates
<1>16. CASE UNCHANGED vars
  BY <1>16 DEF vars
<1> QED
  BY <1>1, <1>2, <1>3, <1>4, <1>5, <1>6, <1>7, <1>8, <1>9, <1>10, <1>11,
     <1>13, <1>14, <1>15, <1>16 DEF Next, Loop

\* Every reachable state of the job executor is well typed: no interleaving of
\* requests, loop, threads and restarts stores a row outside its domain.
THEOREM TypeCorrect == Spec => []TypeOK
  BY TypeInit, TypeNext, PTL DEF Spec, TypeInv

-----------------------------------------------------------------------------
(* The inductive invariant. *)

\* What a thread's place in run_job says of the row, of the copy it is about
\* to store and of _active.
ThreadOK(j) ==
  /\ thread[j] # "none" => j \in active
  /\ Executing(j) => jobs[j].status \in {"running", "cancelled"}
  /\ thread[j] \in {"starting", "recording"} =>
       snap[j].status \in {"running", "cancelled"}
  /\ thread[j] \in {"finishing", "handling"} => snap[j].status \in TerminalStatuses
  /\ thread[j] \in {"continuing", "done"} => jobs[j].status \in TerminalStatuses

\* A cancelled row, and a copy of one, carries the request.
CancelledIsRequested(j) ==
  /\ jobs[j].status = "cancelled" => jobs[j].cancel
  /\ snap[j].status = "cancelled" => snap[j].cancel

\* While the process is down nothing is in memory.
DownIsIdle == ~Up => active = {} /\ \A c \in Clients : requests[c] = NoRequest

\* A request refers to a job that exists.
RequestsOK ==
  \A c \in Clients : requests[c] # NoRequest => jobs[requests[c].job].status # "absent"

Inv == /\ TypeInv
       /\ \A j \in Jobs : ThreadOK(j) /\ CancelledIsRequested(j)
       /\ DownIsIdle
       /\ RequestsOK
       /\ NoLostClaim

LEMMA InvInit == Init => Inv
<1> SUFFICES ASSUME Init PROVE Inv
  OBVIOUS
<1>1. TypeInv
  BY TypeInit
<1>2. \A j \in Jobs : ThreadOK(j) /\ CancelledIsRequested(j)
  BY DEF Init, Idle, ThreadOK, Executing, CancelledIsRequested, NoRow
<1>3. DownIsIdle /\ RequestsOK /\ NoLostClaim
  BY DEF Init, Idle, DownIsIdle, RequestsOK, NoLostClaim, Up
<1> QED BY <1>1, <1>2, <1>3 DEF Inv

\* What Update leaves of the two rows it merges.
LEMMA UpdateMerges ==
  ASSUME NEW row \in Row, NEW copy \in Row
  PROVE  /\ Update(row, copy).status \in {copy.status, "cancelled"}
         /\ Update(row, copy).status # copy.status => copy.status = "completed"
         /\ row.cancel => Update(row, copy).status # "completed"
         /\ Update(row, copy).cancel = (row.cancel \/ copy.cancel)
         /\ (copy.status = "cancelled" => copy.cancel)
              => (Update(row, copy).status = "cancelled" => Update(row, copy).cancel)
  BY DEF Update, Row

\* The proof of one step is the same for all the steps that change at most the
\* row, the copy and the place of one job: they preserve Inv when they preserve
\* its parts for that job.
LEMMA OneJob ==
  ASSUME Inv, TypeInv', NEW j \in Jobs,
         loop' # "down", loop # "down",
         \A k \in Jobs \ {j} :
           /\ jobs'[k] = jobs[k]
           /\ snap'[k] = snap[k]
           /\ thread'[k] = thread[k]
           /\ (k \in active') = (k \in active),
         \A c \in Clients : requests'[c] \in {requests[c], NoRequest},
         jobs'[j].status = "absent" => jobs[j].status = "absent",
         ThreadOK(j)', CancelledIsRequested(j)',
         jobs'[j].status = "running" =>
           j \in active' /\ (Executing(j)' \/ thread'[j] = "raised")
  PROVE  Inv'
<1>1. ASSUME NEW k \in Jobs PROVE ThreadOK(k)' /\ CancelledIsRequested(k)'
  <2>1. CASE k = j
    BY <2>1
  <2>2. CASE k # j
    <3>1. /\ jobs'[k] = jobs[k] /\ snap'[k] = snap[k] /\ thread'[k] = thread[k]
          /\ (k \in active') = (k \in active)
      BY <2>2
    <3>2. ThreadOK(k) /\ CancelledIsRequested(k)
      BY DEF Inv
    <3> QED BY <3>1, <3>2 DEF ThreadOK, CancelledIsRequested, Executing
  <2> QED BY <2>1, <2>2
<1>2. DownIsIdle'
  BY DEF DownIsIdle, Up
<1>3. RequestsOK'
  <2> SUFFICES ASSUME NEW c \in Clients, requests'[c] # NoRequest
               PROVE  jobs'[requests[c].job].status # "absent" /\ requests'[c] = requests[c]
    BY DEF RequestsOK
  <2>1. requests'[c] = requests[c]
    OBVIOUS
  <2>2. requests[c].job \in Jobs /\ jobs[requests[c].job].status # "absent"
    BY <2>1 DEF Inv, RequestsOK, TypeInv, TypeOK
  <2>3. jobs'[requests[c].job].status # "absent"
    <3>1. CASE requests[c].job = j
      BY <2>2, <3>1
    <3>2. CASE requests[c].job # j
      BY <2>2, <3>2
    <3> QED BY <3>1, <3>2
  <2> QED BY <2>1, <2>3
<1>4. NoLostClaim'
  <2> SUFFICES ASSUME NEW k \in Jobs, jobs'[k].status = "running"
               PROVE  (k \in active /\ (Executing(k) \/ thread[k] = "raised"))'
    BY DEF NoLostClaim
  <2>1. CASE k = j
    BY <2>1
  <2>2. CASE k # j
    <3>1. /\ jobs'[k] = jobs[k] /\ thread'[k] = thread[k]
          /\ (k \in active') = (k \in active)
      BY <2>2
    <3> QED BY <3>1 DEF Inv, NoLostClaim, Up, Executing
  <2> QED BY <2>1, <2>2
<1> QED BY <1>1, <1>2, <1>3, <1>4 DEF Inv
\* The steps of a thread.
LEMMA WorkKeepsInv ==
  ASSUME Inv, TypeInv', NEW j \in Jobs, Work(j) \/ ThreadFault(j)
  PROVE  Inv'
<1> DEFINE Kept ==
       /\ \A k \in Jobs \ {j} :
            jobs'[k] = jobs[k] /\ snap'[k] = snap[k] /\ thread'[k] = thread[k]
       /\ active' = active /\ loop' = loop /\ requests' = requests
<1>1. /\ jobs[j] \in Row /\ snap[j] \in Row /\ thread[j] # "none"
      /\ DOMAIN jobs = Jobs /\ DOMAIN snap = Jobs /\ DOMAIN thread = Jobs
  BY DEF Inv, TypeInv, TypeOK, Work, ThreadFault, ReadJob, Start, ReadProgress,
         RecordProgress, ReadOutcome, ReadFailure, ObserveCancel, StoreOutcome, Continue
<1>2. /\ ThreadOK(j) /\ CancelledIsRequested(j) /\ j \in active
      /\ loop # "down"
  BY <1>1 DEF Inv, ThreadOK, DownIsIdle, Up
<1>3. ASSUME Kept, jobs'[j].status = "absent" => jobs[j].status = "absent",
             ThreadOK(j)', CancelledIsRequested(j)',
             jobs'[j].status = "running" => Executing(j)' \/ thread'[j] = "raised"
      PROVE  Inv'
  <2>1. \A c \in Clients : requests'[c] \in {requests[c], NoRequest}
    BY <1>3
  <2> HIDE DEF Inv
  <2> QED BY <1>2, <1>3, <2>1, OneJob
\* Most steps only prepare a copy.
<1>4. ASSUME NEW copy, NEW place, Prepare(j, copy, place), Executing(j),
             place \in {"starting", "recording"} => copy.status \in {"running", "cancelled"},
             place \in {"finishing", "handling"} => copy.status \in TerminalStatuses,
             place \in {"starting", "recording", "finishing", "handling"},
             copy.status = "cancelled" => copy.cancel
      PROVE  Inv'
  <2>1. /\ jobs' = jobs /\ active' = active /\ loop' = loop /\ requests' = requests
        /\ snap'[j] = copy /\ thread'[j] = place
        /\ Kept
    BY <1>1, <1>4 DEF Prepare, queueVars
  <2>2. ThreadOK(j)' /\ CancelledIsRequested(j)' /\ Executing(j)'
    BY <1>2, <1>4, <2>1 DEF ThreadOK, CancelledIsRequested, Executing
  <2> QED BY <1>3, <2>1, <2>2
<1>5. CASE ReadJob(j)
  <2>1. CASE jobs[j].cancel \/ jobs[j].status = "cancelled"
    <3> DEFINE copy == Cancelled(jobs[j])
    <3>1. copy.status = "cancelled" /\ copy.cancel
      BY <1>1 DEF Cancelled, Row
    <3>2. Prepare(j, copy, "finishing") /\ Executing(j)
      BY <1>5, <2>1 DEF ReadJob, Executing
    <3> HIDE DEF copy
    <3> QED BY <1>4, <3>1, <3>2 DEF TerminalStatuses
  <2>2. CASE ~(jobs[j].cancel \/ jobs[j].status = "cancelled")
    <3> DEFINE copy == [jobs[j] EXCEPT !.status = "running"]
    <3>1. copy.status = "running"
      BY <1>1 DEF Row
    <3>2. Prepare(j, copy, "starting") /\ Executing(j)
      BY <1>5, <2>2 DEF ReadJob, Executing
    <3> HIDE DEF copy
    <3> QED BY <1>4, <3>1, <3>2
  <2> QED BY <2>1, <2>2
<1>6. CASE ReadProgress(j)
  <2> DEFINE copy == [jobs[j] EXCEPT !.done = snap[j].done + 1]
  <2>1. copy.status = jobs[j].status /\ copy.cancel = jobs[j].cancel
    BY <1>1 DEF Row
  <2>2. Prepare(j, copy, "recording") /\ Executing(j)
    BY <1>6 DEF ReadProgress, Executing
  <2> HIDE DEF copy
  <2>3. copy.status \in {"running", "cancelled"} /\ (copy.status = "cancelled" => copy.cancel)
    BY <1>2, <2>1, <2>2 DEF ThreadOK, CancelledIsRequested
  <2> QED BY <1>4, <2>2, <2>3
<1>7. CASE ReadOutcome(j)
  <2>1. PICK status \in {"completed", "failed"} :
          Prepare(j, [jobs[j] EXCEPT !.status = status, !.done = snap[j].done],
                  "finishing")
    BY <1>7 DEF ReadOutcome
  <2> DEFINE copy == [jobs[j] EXCEPT !.status = status, !.done = snap[j].done]
  <2>2. copy.status = status
    BY <1>1 DEF Row
  <2>3. Prepare(j, copy, "finishing") /\ Executing(j)
    BY <1>7, <2>1 DEF ReadOutcome, Executing
  <2> HIDE DEF copy
  <2> QED BY <1>4, <2>2, <2>3 DEF TerminalStatuses
<1>8. CASE ReadFailure(j) \/ ObserveCancel(j)
  <2>1. PICK copy \in {Failed(jobs[j]), Cancelled(jobs[j])} :
          Prepare(j, copy, "handling") /\ Executing(j)
    BY <1>8 DEF ReadFailure, ObserveCancel, Executing
  <2>2. copy.status \in {"failed", "cancelled"} /\ (copy.status = "cancelled" => copy.cancel)
    BY <1>1, <2>1 DEF Failed, Cancelled, Row
  <2> QED BY <1>4, <2>1, <2>2 DEF TerminalStatuses
\* The others store one.
<1>9. ASSUME NEW place \in ThreadStates, NEW files, Store(j, place, files)
      PROVE  /\ Kept
             /\ jobs'[j] = Update(jobs[j], snap[j])
             /\ thread'[j] = place
             /\ snap'[j].status = "absent"
  BY <1>1, <1>9 DEF Store, queueVars, NoRow
<1>10. CASE Start(j) \/ RecordProgress(j)
  <2>1. PICK files : Store(j, "working", files)
    BY <1>10 DEF Start, RecordProgress
  <2>2. snap[j].status \in {"running", "cancelled"}
    BY <1>2, <1>10 DEF Start, RecordProgress, ThreadOK
  <2>3. /\ Kept /\ jobs'[j] = Update(jobs[j], snap[j])
        /\ thread'[j] = "working" /\ snap'[j].status = "absent"
    BY <1>9, <2>1 DEF ThreadStates
  <2>4. /\ jobs'[j].status \in {"running", "cancelled"}
        /\ jobs'[j].status = "cancelled" => jobs'[j].cancel
    BY <1>1, <1>2, <2>2, <2>3, UpdateMerges DEF CancelledIsRequested
  <2>5. ThreadOK(j)' /\ CancelledIsRequested(j)' /\ Executing(j)'
    BY <1>2, <2>3, <2>4 DEF ThreadOK, CancelledIsRequested, Executing
  <2> QED BY <1>3, <2>3, <2>4, <2>5
<1>11. CASE StoreOutcome(j)
  <2>1. snap[j].status \in TerminalStatuses
    BY <1>2, <1>11 DEF StoreOutcome, ThreadOK
  <2>2. /\ Kept /\ jobs'[j] = Update(jobs[j], snap[j])
        /\ thread'[j] = "continuing" /\ snap'[j].status = "absent"
    BY <1>9, <1>11 DEF StoreOutcome, ThreadStates
  <2>3. /\ jobs'[j].status \in TerminalStatuses
        /\ jobs'[j].status = "cancelled" => jobs'[j].cancel
    BY <1>1, <1>2, <2>1, <2>2, UpdateMerges DEF CancelledIsRequested, TerminalStatuses
  <2>4. ThreadOK(j)' /\ CancelledIsRequested(j)'
    BY <1>2, <2>2, <2>3 DEF ThreadOK, CancelledIsRequested, Executing
  <2> QED BY <1>3, <2>2, <2>3, <2>4 DEF TerminalStatuses
<1>12. CASE Continue(j)
  <2>1. Kept /\ jobs' = jobs /\ snap' = snap /\ thread'[j] = "done"
    BY <1>1, <1>12 DEF Continue, queueVars
  <2>2. jobs[j].status \in TerminalStatuses
    BY <1>2, <1>12 DEF Continue, ThreadOK
  <2>3. ThreadOK(j)' /\ CancelledIsRequested(j)'
    BY <1>2, <2>1, <2>2 DEF ThreadOK, CancelledIsRequested, Executing
  <2> QED BY <1>3, <2>1, <2>2, <2>3 DEF TerminalStatuses
<1>13. CASE ThreadFault(j)
  <2>1. Kept /\ jobs' = jobs
    BY <1>1, <1>13 DEF ThreadFault, queueVars
  <2>2. CASE thread'[j] = "handling"
    <3>1. snap'[j] = Failed(jobs[j]) /\ Executing(j)
      BY <1>1, <1>13, <2>2 DEF ThreadFault, Executing
    <3>2. snap'[j].status = "failed"
      BY <1>1, <3>1 DEF Failed, Row
    <3>3. ThreadOK(j)' /\ CancelledIsRequested(j)' /\ Executing(j)'
      BY <1>2, <2>1, <2>2, <3>1, <3>2
      DEF ThreadOK, CancelledIsRequested, Executing, TerminalStatuses
    <3> QED BY <1>3, <2>1, <3>3
  <2>3. CASE thread'[j] # "handling"
    <3>1. thread'[j] = "raised" /\ snap'[j].status = "absent"
      BY <1>1, <1>13, <2>3 DEF ThreadFault, NoRow
    <3>2. ThreadOK(j)' /\ CancelledIsRequested(j)'
      BY <1>2, <2>1, <3>1 DEF ThreadOK, CancelledIsRequested, Executing
    <3> QED BY <1>3, <2>1, <3>1, <3>2
  <2> QED BY <2>2, <2>3
<1> QED BY <1>5, <1>6, <1>7, <1>8, <1>10, <1>11, <1>12, <1>13 DEF Work
LEMMA InvNext == Inv /\ [Next]_vars => Inv'
<1> SUFFICES ASSUME Inv, [Next]_vars PROVE Inv'
  OBVIOUS
<1>1. /\ TypeInv /\ TypeInv'
      /\ \A j \in Jobs : ThreadOK(j) /\ CancelledIsRequested(j)
      /\ DownIsIdle /\ RequestsOK /\ NoLostClaim
  BY TypeNext DEF Inv
<1>2. /\ jobs \in [Jobs -> Row] /\ snap \in [Jobs -> Row]
      /\ thread \in [Jobs -> ThreadStates]
      /\ candidate \in Jobs \cup {0}
      /\ \A c \in Clients : requests[c] # NoRequest =>
           /\ requests[c].job \in Jobs
           /\ requests[c].row \in Row
           /\ requests[c].row.status \in ActiveStatuses
  BY <1>1 DEF TypeInv, TypeOK
<1>3. ASSUME NEW j \in Jobs, Create(j) PROVE Inv'
  <2>1. /\ jobs[j].status = "absent" /\ loop # "down"
        /\ jobs' = [jobs EXCEPT ![j].status = CreationStatus(jobs)]
        /\ UNCHANGED <<loop, active, thread, snap, requests>>
    BY <1>3 DEF Create, IsNextNew, WithStatus, Up, queueVars, threadVars
  <2>2. /\ jobs'[j].status \in WaitingStatuses
        /\ \A k \in Jobs \ {j} : jobs'[k] = jobs[k]
    BY <1>2, <2>1 DEF CreationStatus, WaitingStatuses, Row
  <2>3. ~Executing(j) /\ thread[j] \notin {"continuing", "done"}
    BY <1>1, <2>1 DEF ThreadOK, TerminalStatuses
  <2>4. ThreadOK(j)' /\ CancelledIsRequested(j)'
    BY <1>1, <2>1, <2>2, <2>3
    DEF ThreadOK, CancelledIsRequested, Executing, WaitingStatuses
  <2> QED BY <1>1, <2>1, <2>2, <2>4, OneJob DEF WaitingStatuses
<1>4. ASSUME NEW c \in Clients, NEW j \in Jobs, CancelRead(c, j) PROVE Inv'
  <2>1. /\ UNCHANGED <<jobs, loop, active, thread, snap>>
        /\ requests' = [requests EXCEPT ![c] = [job |-> j, row |-> jobs[j]]]
        /\ jobs[j].status # "absent" /\ loop # "down"
    BY <1>4 DEF CancelRead, Up, queueVars, threadVars, ActiveStatuses, WaitingStatuses
  <2>2. RequestsOK'
    BY <1>1, <2>1 DEF RequestsOK, TypeInv, TypeOK
  <2> QED
    BY <1>1, <2>1, <2>2
    DEF Inv, ThreadOK, CancelledIsRequested, Executing, DownIsIdle, Up, NoLostClaim
<1>5. ASSUME NEW c \in Clients, CancelWrite(c) PROVE Inv'
  <2>0. requests[c] # NoRequest
    BY <1>5 DEF CancelWrite
  <2>a. PICK j \in Jobs, seen \in Row : requests[c].job = j /\ requests[c].row = seen
    BY <1>2, <2>0
  <2>1. /\ Cancelled(seen) \in Row
        /\ jobs[j] \in Row /\ jobs[j].status # "absent"
        /\ Cancelled(seen).status = "cancelled" /\ Cancelled(seen).cancel
    <3>1. jobs[j] \in Row /\ jobs[j].status # "absent"
      BY <1>1, <1>2, <2>0, <2>a DEF RequestsOK
    <3>2. Cancelled(seen) \in Row
      BY <3>1, RowOperators
    <3> QED BY <3>1, <3>2 DEF Cancelled, Row
  <2>2. /\ UNCHANGED <<loop, active, thread, snap>>
        /\ \A d \in Clients : requests'[d] \in {requests[d], NoRequest}
        /\ \/ jobs' = [jobs EXCEPT ![j] = Update(jobs[j], Cancelled(seen))]
           \/ jobs' = [jobs EXCEPT ![j] = RequestCancel(jobs[j])]
    BY <1>1, <1>5, <2>a DEF CancelWrite, queueVars, threadVars, TypeInv, TypeOK
  <2>3. jobs[j].status = "cancelled" => jobs[j].cancel
    BY <1>1, <2>1 DEF CancelledIsRequested
  <2>4. /\ jobs'[j].status \in {jobs[j].status, "cancelled"}
        /\ jobs'[j].cancel
        /\ \A k \in Jobs \ {j} : jobs'[k] = jobs[k]
    <3>1. /\ Update(jobs[j], Cancelled(seen)).status = "cancelled"
          /\ Update(jobs[j], Cancelled(seen)).cancel
      BY <2>1, UpdateMerges
    <3>2. /\ RequestCancel(jobs[j]).status = jobs[j].status
          /\ RequestCancel(jobs[j]).cancel
      BY <2>1 DEF RequestCancel, Row
    <3> QED BY <1>2, <2>1, <2>2, <3>1, <3>2
  <2>5. ThreadOK(j)' /\ CancelledIsRequested(j)'
    BY <1>1, <2>1, <2>2, <2>4
    DEF ThreadOK, CancelledIsRequested, Executing, TerminalStatuses
  <2>6. loop # "down"
    BY <1>1, <2>0 DEF DownIsIdle, Up
  <2>7. jobs'[j].status = "running" =>
          j \in active' /\ (Executing(j)' \/ thread'[j] = "raised")
    BY <1>1, <2>2, <2>4, <2>6 DEF NoLostClaim, Up, Executing
  <2> QED BY <1>1, <2>1, <2>2, <2>4, <2>5, <2>6, <2>7, OneJob
\* Several actions leave alone everything Inv is about.
<1>6. CASE UNCHANGED <<jobs, active, thread, snap, requests>> /\ (Up' = Up)
  BY <1>1, <1>6
  DEF Inv, ThreadOK, CancelledIsRequested, Executing, DownIsIdle, RequestsOK, NoLostClaim
<1>7. CASE Pause \/ Resume \/ Select \/ LoopFault \/ WakeUp \/ Stop \/ UNCHANGED vars
  BY <1>6, <1>7
  DEF Pause, Resume, Select, LoopFault, WakeUp, Stop, Goto, vars, queueVars,
      threadVars, Up
<1>8. CASE Reap
  <2>1. PICK gone \in SUBSET active :
          /\ \A j \in gone : thread[j] \in {"done", "raised"}
          /\ active' = active \ gone
          /\ thread' = [j \in Jobs |-> IF j \in gone THEN "none" ELSE thread[j]]
          /\ \A j \in Jobs :
               \/ jobs'[j] = jobs[j] /\ (j \in gone => thread[j] = "done")
               \/ jobs'[j] = RequeueUnfinished(jobs[j]) /\ j \in gone
    <3> DEFINE ended == {j \in active : thread[j] = "done"}
    <3>1. CASE /\ active' = active \ ended /\ UNCHANGED jobs
               /\ thread' = [j \in Jobs |-> IF j \in ended THEN "none" ELSE thread[j]]
      <4> WITNESS ended \in SUBSET active
      <4> QED BY <3>1
    <3>2. ASSUME NEW b \in active, NEW some \in SUBSET ended, thread[b] = "raised",
                 active' = active \ (some \cup {b}),
                 thread' = [j \in Jobs |-> IF j \in some \cup {b}
                                           THEN "none" ELSE thread[j]],
                 jobs' = [jobs EXCEPT ![b] = RequeueUnfinished(jobs[b])]
          PROVE  \E gone \in SUBSET active :
                   /\ \A j \in gone : thread[j] \in {"done", "raised"}
                   /\ active' = active \ gone
                   /\ thread' = [j \in Jobs |-> IF j \in gone THEN "none" ELSE thread[j]]
                   /\ \A j \in Jobs :
                        \/ jobs'[j] = jobs[j] /\ (j \in gone => thread[j] = "done")
                        \/ jobs'[j] = RequeueUnfinished(jobs[j]) /\ j \in gone
      <4> WITNESS some \cup {b} \in SUBSET active
      <4> QED BY <1>2, <3>2
    <3> QED BY <1>8, <3>1, <3>2 DEF Reap
  <2>2. UNCHANGED <<snap, requests>> /\ loop # "down" /\ loop' # "down"
    BY <1>8 DEF Reap
  <2>3. ASSUME NEW j \in Jobs
        PROVE  /\ ThreadOK(j)' /\ CancelledIsRequested(j)'
               /\ jobs'[j].status = "absent" => jobs[j].status = "absent"
               /\ jobs'[j].status = "running" =>
                    j \in active' /\ (Executing(j)' \/ thread'[j] = "raised")
    <3>1. CASE j \notin gone
      BY <1>1, <2>1, <2>2, <3>1
      DEF ThreadOK, CancelledIsRequested, Executing, NoLostClaim, Up
    <3>2. CASE j \in gone
      <4>1. thread'[j] = "none" /\ jobs[j] \in Row /\ thread[j] \in {"done", "raised"}
        BY <1>2, <2>1, <3>2
      <4>2. CASE jobs'[j] = jobs[j] /\ thread[j] = "done"
        BY <1>1, <2>2, <4>1, <4>2
        DEF ThreadOK, CancelledIsRequested, Executing, TerminalStatuses
      <4>3. CASE jobs'[j] = RequeueUnfinished(jobs[j])
        <5>1. /\ jobs'[j].status # "running"
              /\ jobs'[j].status = "absent" => jobs[j].status = "absent"
              /\ jobs'[j].status = "cancelled" => jobs[j].status = "cancelled"
              /\ jobs'[j].cancel = jobs[j].cancel
          BY <4>1, <4>3 DEF RequeueUnfinished, Row
        <5> QED BY <1>1, <2>2, <4>1, <5>1 DEF ThreadOK, CancelledIsRequested, Executing
      <4> QED BY <2>1, <3>2, <4>2, <4>3
    <3> QED BY <3>1, <3>2
  <2>4. RequestsOK'
    BY <1>1, <1>2, <2>2, <2>3 DEF RequestsOK
  <2> QED BY <1>1, <2>2, <2>3, <2>4 DEF Inv, DownIsIdle, NoLostClaim, Up
<1>9. CASE Activate
  <2>1. UNCHANGED <<active, thread, snap, requests>> /\ loop # "down" /\ loop' # "down"
    BY <1>9 DEF Activate, Goto, threadVars
  <2>2. CASE UNCHANGED jobs
    BY <1>6, <2>1, <2>2 DEF Up
  <2>3. CASE \E promoted \in SUBSET Jobs :
               OldestInactive(jobs, promoted) /\ jobs' = Activated(jobs, promoted)
    <3>1. ASSUME NEW j \in Jobs
          PROVE  \/ jobs'[j] = jobs[j]
                 \/ /\ jobs[j].status = "inactive" /\ jobs'[j].status = "queued"
                    /\ jobs'[j].cancel = jobs[j].cancel
      BY <1>2, <2>3 DEF OldestInactive, Activated, WithStatus, Row
    <3>2. ASSUME NEW j \in Jobs PROVE ThreadOK(j)' /\ CancelledIsRequested(j)'
      BY <1>1, <2>1, <3>1
      DEF ThreadOK, CancelledIsRequested, Executing, TerminalStatuses
    <3>3. RequestsOK'
      BY <1>1, <1>2, <2>1, <3>1 DEF RequestsOK
    <3>4. NoLostClaim'
      BY <1>1, <2>1, <3>1 DEF NoLostClaim, Up, Executing
    <3> QED BY <1>1, <2>1, <3>2, <3>3, <3>4 DEF Inv, DownIsIdle, Up
  <2> QED BY <1>9, <2>2, <2>3 DEF Activate
<1>10. CASE Take
  <2>1. UNCHANGED <<snap, requests>> /\ loop # "down" /\ loop' # "down" /\ candidate \in Jobs
    BY <1>1, <1>10 DEF Take, TypeInv, CandidateChosen
  <2>2. CASE ~Claimable(candidate)
    BY <1>6, <1>10, <2>1, <2>2 DEF Take, Up
  <2>3. CASE Claimable(candidate)
    <3>a. PICK j \in Jobs : j = candidate
      BY <2>1
    <3>1. /\ jobs[j].status = "queued" /\ jobs'[j].status = "running"
          /\ jobs'[j].cancel = jobs[j].cancel
          /\ thread'[j] = "reading" /\ j \in active'
          /\ \A k \in Jobs \ {j} : /\ jobs'[k] = jobs[k] /\ thread'[k] = thread[k]
                                /\ (k \in active') = (k \in active)
      BY <1>2, <1>10, <2>1, <2>3, <3>a DEF Take, Claimable, Row
    <3>2. ThreadOK(j)' /\ CancelledIsRequested(j)' /\ Executing(j)'
      BY <1>1, <2>1, <3>1 DEF ThreadOK, CancelledIsRequested, Executing
    <3>3. \A c \in Clients : requests'[c] \in {requests[c], NoRequest}
      BY <2>1
    <3> QED BY <1>1, <2>1, <3>1, <3>2, <3>3, OneJob
  <2> QED BY <2>2, <2>3
<1>11. ASSUME NEW j \in Jobs, Work(j) \/ ThreadFault(j) PROVE Inv'
  BY <1>1, <1>11, WorkKeepsInv
<1>12. CASE LoseMemory
  BY <1>1, <1>12
  DEF Inv, LoseMemory, ThreadOK, CancelledIsRequested, Executing, DownIsIdle, Up,
      RequestsOK, NoLostClaim, NoRow
<1>13. CASE Exit \/ Crash
  BY <1>12, <1>13 DEF Exit, Crash
<1>14. CASE Boot
  <2>1. UNCHANGED <<active, thread, snap, requests>> /\ active = {}
    BY <1>1, <1>14 DEF Boot, threadVars, DownIsIdle, Up
  <2>2. ASSUME NEW j \in Jobs
        PROVE  /\ jobs'[j].status # "running"
               /\ jobs'[j].status = "absent" => jobs[j].status = "absent"
               /\ jobs'[j].status = "cancelled" => jobs[j].status = "cancelled"
               /\ jobs'[j].cancel = jobs[j].cancel
    BY <1>2, <1>14 DEF Boot, Requeue, Row
  <2>3. ASSUME NEW j \in Jobs PROVE ThreadOK(j)' /\ CancelledIsRequested(j)'
    BY <1>1, <2>1, <2>2 DEF ThreadOK, CancelledIsRequested, Executing
  <2>4. RequestsOK'
    BY <1>1, <1>2, <2>1, <2>2 DEF RequestsOK
  <2> QED BY <1>1, <1>14, <2>1, <2>2, <2>3, <2>4 DEF Inv, Boot, DownIsIdle, NoLostClaim, Up
<1> QED
  BY <1>3, <1>4, <1>5, <1>7, <1>8, <1>9, <1>10, <1>11, <1>13, <1>14 DEF Next, Loop

LEMMA Invariance == Spec => []Inv
  BY InvInit, InvNext, PTL DEF Spec

\* No claim is lost: whatever stale copies overwrite a row, a job marked running
\* is one whose thread will store its outcome or is about to be reaped.
THEOREM ClaimsAreKept == Spec => []NoLostClaim
<1>1. Inv => NoLostClaim
  BY DEF Inv
<1> QED BY <1>1, Invariance, PTL

-----------------------------------------------------------------------------
(* JobQueue implements JobLifecycle. *)

Phase == [j \in Jobs |-> PhaseOf(j)]

\* The phases a job may go through in one step of the abstract specification.
Moves == {<<"none", "waiting">>, <<"waiting", "working">>, <<"working", "over">>,
          <<"working", "waiting">>, <<"waiting", "over">>}

\* A step that leaves the place and the status of every job stutters.
LEMMA Stutter ==
  ASSUME \A j \in Jobs : PhaseOf(j)' = PhaseOf(j)
  PROVE  Phase' = Phase
  BY DEF Phase

\* A step that moves one job is a step of the life cycle.
LEMMA OneMove ==
  ASSUME NEW j \in Jobs,
         PhaseOf(j)' = PhaseOf(j) \/ <<PhaseOf(j), PhaseOf(j)'>> \in Moves,
         \A k \in Jobs \ {j} : PhaseOf(k)' = PhaseOf(k)
  PROVE  Phase' = Phase \/ Lifecycle!Next
<1>1. CASE PhaseOf(j)' = PhaseOf(j)
  BY <1>1, Stutter
<1>2. CASE <<PhaseOf(j), PhaseOf(j)'>> \in Moves
  <2>1. Phase' = [Phase EXCEPT ![j] = PhaseOf(j)'] /\ Phase[j] = PhaseOf(j)
    BY DEF Phase
  <2>2. \E from, to : Lifecycle!Move(j, from, to) /\ <<from, to>> \in Moves
    <3> WITNESS PhaseOf(j), PhaseOf(j)'
    <3> QED BY <1>2, <2>1 DEF Lifecycle!Move, Phase
  <2> QED
    BY <2>2 DEF Moves, Lifecycle!Next, Lifecycle!Submit, Lifecycle!Begin,
                Lifecycle!Finish, Lifecycle!Abandon, Lifecycle!CancelWaiting
<1> QED BY <1>1, <1>2
\* What one step of a thread does to the phase of its job.
LEMMA WorkMoves ==
  ASSUME Inv, Inv', NEW j \in Jobs, Work(j) \/ ThreadFault(j)
  PROVE  /\ PhaseOf(j)' = PhaseOf(j) \/ <<PhaseOf(j), PhaseOf(j)'>> \in Moves
         /\ \A k \in Jobs \ {j} : PhaseOf(k)' = PhaseOf(k)
<1>1. /\ DOMAIN jobs = Jobs /\ DOMAIN snap = Jobs /\ DOMAIN thread = Jobs
      /\ ThreadOK(j) /\ ThreadOK(j)'
  BY DEF Inv, TypeInv, TypeOK
<1>2. \A k \in Jobs \ {j} : jobs'[k] = jobs[k] /\ thread'[k] = thread[k]
  BY <1>1 DEF Work, ThreadFault, ReadJob, Start, ReadProgress, RecordProgress,
             ReadOutcome, ReadFailure, ObserveCancel, StoreOutcome, Continue,
             Prepare, Store
<1>3. \A k \in Jobs \ {j} : PhaseOf(k)' = PhaseOf(k)
  BY <1>2 DEF PhaseOf, Executing
<1>4. CASE Executing(j) /\ Executing(j)'
  BY <1>3, <1>4 DEF PhaseOf
<1>5. CASE Executing(j) /\ ~Executing(j)'
  <2>1. jobs'[j].status \in {"running"} \cup TerminalStatuses
    <3>1. CASE thread'[j] = "raised"
      <4>1. jobs' = jobs
        BY <1>1, <1>5, <3>1
        DEF Work, ThreadFault, ReadJob, Start, ReadProgress, RecordProgress, ReadOutcome,
            ReadFailure, ObserveCancel, StoreOutcome, Continue, Prepare, Store
      <4> QED BY <1>1, <1>5, <4>1 DEF ThreadOK, TerminalStatuses
    <3>2. CASE thread'[j] = "continuing"
      BY <1>1, <3>2 DEF ThreadOK
    <3>3. thread'[j] \in {"raised", "continuing"}
      BY <1>1, <1>5
      DEF Work, ThreadFault, Executing, ReadJob, Start, ReadProgress, RecordProgress,
          ReadOutcome, ReadFailure, ObserveCancel, StoreOutcome, Continue, Prepare, Store
    <3> QED BY <3>1, <3>2, <3>3
  <2>2. PhaseOf(j) = "working" /\ PhaseOf(j)' \in {"waiting", "over"}
    BY <1>5, <2>1 DEF PhaseOf, TerminalStatuses
  <2> QED BY <1>3, <2>2 DEF Moves
<1>6. CASE ~Executing(j)
  <2>1. /\ jobs' = jobs /\ ~Executing(j)'
    BY <1>1, <1>6
    DEF Work, ThreadFault, Executing, ReadJob, Start, ReadProgress, RecordProgress,
        ReadOutcome, ReadFailure, ObserveCancel, StoreOutcome, Continue, Prepare
  <2> QED BY <1>3, <1>6, <2>1 DEF PhaseOf
<1> QED BY <1>4, <1>5, <1>6

\* Every step of the executor is a step of the life cycle or a stutter.
LEMMA StepRefines == Inv /\ Inv' /\ [Next]_vars => Phase' = Phase \/ Lifecycle!Next
<1> SUFFICES ASSUME Inv, Inv', [Next]_vars PROVE Phase' = Phase \/ Lifecycle!Next
  OBVIOUS
<1>1. /\ jobs \in [Jobs -> Row] /\ thread \in [Jobs -> ThreadStates]
      /\ \A j \in Jobs : ThreadOK(j) /\ ThreadOK(j)'
      /\ TypeInv
  BY DEF Inv, TypeInv, TypeOK
<1>2. ASSUME NEW j \in Jobs, UNCHANGED thread,
             \/ jobs'[j].status = jobs[j].status
             \/ /\ jobs[j].status \in {"inactive", "queued", "running"}
                /\ jobs'[j].status \in {"inactive", "queued", "running"}
      PROVE  PhaseOf(j)' = PhaseOf(j)
  BY <1>2 DEF PhaseOf, Executing, TerminalStatuses
<1>3. ASSUME NEW j \in Jobs, Create(j) PROVE Phase' = Phase \/ Lifecycle!Next
  <2>1. /\ jobs[j].status = "absent" /\ UNCHANGED thread
        /\ jobs'[j].status \in WaitingStatuses
        /\ \A k \in Jobs \ {j} : jobs'[k] = jobs[k]
    BY <1>1, <1>3
    DEF Create, IsNextNew, WithStatus, CreationStatus, threadVars, WaitingStatuses, Row
  <2>2. PhaseOf(j) = "none" /\ PhaseOf(j)' = "waiting"
    BY <1>1, <2>1
    DEF PhaseOf, ThreadOK, Executing, WaitingStatuses, TerminalStatuses
  <2> QED BY <1>2, <2>1, <2>2, OneMove DEF Moves
<1>4. ASSUME NEW c \in Clients, CancelWrite(c) PROVE Phase' = Phase \/ Lifecycle!Next
  <2>1. requests[c] # NoRequest /\ UNCHANGED thread
    BY <1>4 DEF CancelWrite, threadVars
  <2>2. PICK j \in Jobs, seen \in Row : requests[c].job = j /\ requests[c].row = seen
    BY <2>1 DEF Inv, TypeInv, TypeOK
  <2>3. jobs[j].status # "absent" /\ jobs[j] \in Row
    BY <1>1, <2>1, <2>2 DEF Inv, RequestsOK
  <2>4. Cancelled(seen) \in Row /\ Cancelled(seen).status = "cancelled"
    BY <2>2, <2>3, RowOperators DEF Cancelled, Row
  <2>5. /\ RequestCancel(jobs[j]).status = jobs[j].status
        /\ Update(jobs[j], Cancelled(seen)).status = "cancelled"
    BY <2>3, <2>4, UpdateMerges DEF RequestCancel, Row
  <2>6. /\ \A k \in Jobs \ {j} : jobs'[k] = jobs[k]
        /\ jobs'[j].status \in {jobs[j].status, "cancelled"}
    BY <1>1, <1>4, <2>2, <2>5 DEF CancelWrite
  <2>7. CASE jobs'[j].status = jobs[j].status
    BY <1>2, <2>1, <2>6, <2>7, Stutter
  <2>8. CASE jobs'[j].status = "cancelled"
    <3>1. Executing(j) => PhaseOf(j)' = PhaseOf(j)
      BY <2>1 DEF PhaseOf, Executing
    <3>2. ~Executing(j) => /\ PhaseOf(j) \in {"waiting", "over"}
                           /\ PhaseOf(j)' = "over"
      BY <2>1, <2>3, <2>8 DEF PhaseOf, Executing, TerminalStatuses
    <3>3. PhaseOf(j)' = PhaseOf(j) \/ <<PhaseOf(j), PhaseOf(j)'>> \in Moves
      BY <3>1, <3>2 DEF Moves
    <3> QED BY <1>2, <2>1, <2>6, <3>3, OneMove
  <2> QED BY <2>6, <2>7, <2>8
<1>5. CASE UNCHANGED <<jobs, thread>>
  BY <1>2, <1>5, Stutter
<1>6. CASE Reap
  <2>1. ASSUME NEW j \in Jobs PROVE PhaseOf(j)' = PhaseOf(j)
    <3>1. /\ \/ thread'[j] = thread[j]
             \/ thread'[j] = "none" /\ thread[j] \in {"done", "raised"}
          /\ \/ jobs'[j] = jobs[j]
             \/ jobs'[j] = RequeueUnfinished(jobs[j])
      BY <1>1, <1>6 DEF Reap
    <3>2. Executing(j)' = Executing(j)
      BY <3>1 DEF Executing
    <3>3. \/ jobs'[j].status = jobs[j].status
          \/ jobs[j].status = "running" /\ jobs'[j].status = "queued"
      BY <1>1, <3>1 DEF RequeueUnfinished, Row
    <3> QED BY <3>2, <3>3 DEF PhaseOf, TerminalStatuses
  <2> QED BY <2>1, Stutter
<1>7. CASE Activate
  <2>1. UNCHANGED thread
    BY <1>7 DEF Activate, threadVars
  <2>2. ASSUME NEW j \in Jobs
        PROVE  \/ jobs'[j].status = jobs[j].status
               \/ jobs[j].status = "inactive" /\ jobs'[j].status = "queued"
    BY <1>1, <1>7 DEF Activate, OldestInactive, Activated, WithStatus, Row
  <2> QED BY <1>2, <2>1, <2>2, Stutter
<1>8. CASE Take
  <2>1. PICK j \in Jobs : j = candidate
    BY <1>1, <1>8 DEF Take, TypeInv, CandidateChosen
  <2>2. CASE ~Claimable(candidate)
    BY <1>5, <1>8, <2>2 DEF Take
  <2>3. CASE Claimable(candidate)
    <3>1. /\ jobs[j].status = "queued" /\ thread'[j] = "reading"
          /\ \A k \in Jobs \ {j} : jobs'[k] = jobs[k] /\ thread'[k] = thread[k]
      BY <1>1, <1>8, <2>1, <2>3 DEF Take, Claimable
    <3>2. PhaseOf(j) = "waiting" /\ PhaseOf(j)' = "working"
      BY <1>1, <3>1 DEF PhaseOf, ThreadOK, Executing, TerminalStatuses
    <3>3. \A k \in Jobs \ {j} : PhaseOf(k)' = PhaseOf(k)
      BY <3>1 DEF PhaseOf, Executing
    <3> QED BY <3>2, <3>3, OneMove DEF Moves
  <2> QED BY <2>2, <2>3
<1>9. ASSUME NEW j \in Jobs, Work(j) \/ ThreadFault(j)
      PROVE  Phase' = Phase \/ Lifecycle!Next
  BY <1>9, WorkMoves, OneMove
<1>10. CASE Exit \/ Crash
  <2>1. jobs' = jobs /\ \A j \in Jobs : ~Executing(j)'
    BY <1>10 DEF Exit, Crash, LoseMemory, Executing
  <2>2. Phase' \in [Jobs -> Lifecycle!Phases]
    BY DEF Phase, Lifecycle!Phases, PhaseOf
  <2>3. ASSUME NEW j \in Jobs
        PROVE  \/ Phase[j] = "working" /\ Phase'[j] \in {"waiting", "over"}
               \/ Phase[j] # "working" /\ Phase'[j] = Phase[j]
    <3>1. CASE Executing(j)
      <4>1. jobs[j].status \in {"running", "cancelled"}
        BY <1>1, <3>1 DEF ThreadOK
      <4> QED BY <2>1, <3>1, <4>1 DEF Phase, PhaseOf, TerminalStatuses
    <3>2. CASE ~Executing(j)
      BY <2>1, <3>2 DEF Phase, PhaseOf
    <3> QED BY <3>1, <3>2
  <2>4. Lifecycle!Die
    BY <2>2, <2>3 DEF Lifecycle!Die, Phase
  <2> QED BY <2>4 DEF Lifecycle!Next
<1>11. CASE Boot
  <2>1. ASSUME NEW j \in Jobs
        PROVE  \/ jobs'[j].status = jobs[j].status
               \/ jobs[j].status = "running" /\ jobs'[j].status = "queued"
    BY <1>1, <1>11 DEF Boot, Requeue, Row
  <2> QED BY <1>2, <1>11, <2>1, Stutter DEF Boot, threadVars
<1>12. CASE (\E c \in Clients, j \in Jobs : CancelRead(c, j)) \/ Pause \/ Resume
            \/ Select \/ WakeUp \/ LoopFault \/ Stop \/ UNCHANGED vars
  BY <1>5, <1>12
  DEF CancelRead, Pause, Resume, Select, WakeUp, LoopFault, Stop, vars, threadVars
<1> QED
  BY <1>3, <1>4, <1>6, <1>7, <1>8, <1>9, <1>10, <1>11, <1>12 DEF Next, Loop

\* The executor implements the life cycle: a job is executed by one thread at a
\* time and a job that is over is never queued or executed again, although the
\* cancelling requests overwrite its row with copies that are out of date.
THEOREM Refinement == Spec => ImplementsLifecycle
<1>1. Init => Lifecycle!Init
  BY DEF Init, Idle, Lifecycle!Init, PhaseOf, Executing, NoRow
<1>2. Inv /\ Inv' /\ [Next]_vars => [Lifecycle!Next]_Phase
  BY StepRefines
<1> QED
  BY <1>1, <1>2, Invariance, PTL DEF Spec, ImplementsLifecycle, Lifecycle!Spec, Phase

-----------------------------------------------------------------------------
(* The bounds JobQueue keeps, and the priority of cancellation. *)

\* The jobs are finitely many, and so is every set of them.
LEMMA FiniteJobs ==
  ASSUME NEW S \in SUBSET Jobs
  PROVE  IsFiniteSet(S) /\ Cardinality(S) \in Nat
<1>1. IsFiniteSet(Jobs)
  BY JobRowsAssumption, FS_Interval DEF Jobs
<1> QED BY <1>1, FS_Subset, FS_CardinalityType

\* A smaller set has fewer elements.
LEMMA Fewer ==
  ASSUME NEW S \in SUBSET Jobs, NEW T \in SUBSET S
  PROVE  Cardinality(T) <= Cardinality(S)
  BY FiniteJobs, FS_Subset

-----------------------------------------------------------------------------
(* max_concurrent_downloads *)

\* _active is within the limit, and below it between the check and the claim.
Slots == /\ Cardinality(active) <= MaxConcurrent
         /\ loop \in {"select", "take"} => Cardinality(active) < MaxConcurrent

LEMMA SlotsInit == Init => Slots
  BY FS_EmptySet, JobQueueAssumption DEF Init, Idle, Slots

LEMMA SlotsNext == Inv /\ Slots /\ [Next]_vars => Slots'
<1> SUFFICES ASSUME Inv, Slots, [Next]_vars PROVE Slots'
  OBVIOUS
<1>1. /\ active \in SUBSET Jobs /\ active' \in SUBSET Jobs
      /\ candidate \in Jobs \cup {0} /\ MaxConcurrent \in Nat
  BY TypeNext, JobQueueAssumption DEF Inv, TypeInv, TypeOK
<1>2. Cardinality(active) \in Nat /\ Cardinality(active') \in Nat
  BY <1>1, FiniteJobs
<1>3. CASE UNCHANGED active /\ (loop' \in {"select", "take"} =>
                                  loop \in {"select", "take"} \/ HasSlot)
  BY <1>2, <1>3 DEF Slots, HasSlot
<1>4. CASE active' \in SUBSET active /\ loop' \notin {"select", "take"}
  BY <1>1, <1>2, <1>4, Fewer DEF Slots
<1>5. CASE Take
  <2>1. CASE Claimable(candidate)
    <3>1. active' = active \cup {candidate} /\ loop' = "activate" /\ loop = "take"
      BY <1>5, <2>1 DEF Take
    <3>2. Cardinality(active') <= Cardinality(active) + 1
      BY <1>1, <1>2, <3>1, FiniteJobs, FS_AddElement
    <3> QED BY <1>1, <1>2, <3>1, <3>2 DEF Slots
  <2>2. CASE ~Claimable(candidate)
    BY <1>4, <1>5, <2>2 DEF Take
  <2> QED BY <2>1, <2>2
<1>6. CASE Reap \/ Exit \/ Crash
  BY <1>4, <1>6 DEF Reap, Exit, Crash, LoseMemory
<1> QED
  BY <1>3, <1>5, <1>6
  DEF Next, Loop, Work, Create, CancelRead, CancelWrite, Pause, Resume, Activate,
      Select, WakeUp, LoopFault, ReadJob, Start, ReadProgress, RecordProgress,
      ReadOutcome, ReadFailure, ObserveCancel, StoreOutcome, Continue, ThreadFault,
      Stop, Boot, Prepare, Store, Goto, queueVars, vars

\* At most max_concurrent_downloads jobs are executed at any time, counting the
\* ones a racing cancellation has already marked cancelled.
THEOREM ExecutionIsBounded == Spec => []ExecutionBounded
<1>1. Inv /\ Slots => ExecutionBounded
  <2> SUFFICES ASSUME Inv, Slots PROVE ExecutionBounded
    OBVIOUS
  <2>1. active \in SUBSET Jobs /\ {j \in Jobs : Executing(j)} \in SUBSET active
    BY DEF Inv, TypeInv, TypeOK, ThreadOK, Executing
  <2>2. /\ Cardinality({j \in Jobs : Executing(j)}) <= Cardinality(active)
        /\ Cardinality({j \in Jobs : Executing(j)}) \in Nat
        /\ Cardinality(active) \in Nat
    BY <2>1, Fewer, FiniteJobs
  <2> QED BY <2>2, JobQueueAssumption DEF Slots, ExecutionBounded
<1> QED BY <1>1, SlotsInit, SlotsNext, Invariance, PTL DEF Spec
-----------------------------------------------------------------------------
(* Cancellation and max_active_run_jobs. *)

Uncancelled == {j \in WithStatus(jobs, {"queued", "running"}) : ~jobs[j].cancel}

\* What a step may do to one row: a row is uncancelled-active after a step only
\* if it was before, or if it is created or activated within the capacity; and a
\* row whose cancellation was requested does not become completed.
Kept(j) ==
  /\ jobs[j].cancel => jobs'[j].cancel
  /\ jobs[j].cancel /\ jobs'[j].status = "completed" => jobs[j].status = "completed"

RowStep(j) == /\ Kept(j)
              /\ j \in Uncancelled' => j \in Uncancelled

\* Creation and activation are the only steps that add an active job.
LEMMA RowSteps ==
  ASSUME Inv, Inv', [Next]_vars, ~Activate, \A j \in Jobs : ~Create(j)
  PROVE  \A j \in Jobs : RowStep(j)
<1> USE DEF RowStep, Kept, Uncancelled, WithStatus
<1>1. /\ jobs \in [Jobs -> Row] /\ snap \in [Jobs -> Row]
      /\ \A j \in Jobs : ThreadOK(j) /\ CancelledIsRequested(j)
      /\ TypeInv
  BY DEF Inv, TypeInv, TypeOK
<1>2. CASE UNCHANGED jobs
  BY <1>2
<1>3. ASSUME NEW c \in Clients, CancelWrite(c) PROVE \A j \in Jobs : RowStep(j)
  <2>1. requests[c] # NoRequest
    BY <1>3 DEF CancelWrite
  <2>2. PICK i \in Jobs, seen \in Row : requests[c].job = i /\ requests[c].row = seen
    BY <2>1 DEF Inv, TypeInv, TypeOK
  <2>3. jobs[i] \in Row /\ Cancelled(seen) \in Row
    BY <1>1, <2>2, RowOperators
  <2>4. Cancelled(seen).status = "cancelled" /\ Cancelled(seen).cancel
    BY <2>2 DEF Cancelled, Row
  <2>5. /\ Update(jobs[i], Cancelled(seen)).status = "cancelled"
        /\ Update(jobs[i], Cancelled(seen)).cancel
        /\ RequestCancel(jobs[i]).cancel
        /\ RequestCancel(jobs[i]).status = jobs[i].status
    BY <2>3, <2>4, UpdateMerges DEF RequestCancel, Row
  <2>6. /\ \A j \in Jobs \ {i} : jobs'[j] = jobs[j]
        /\ jobs'[i].cancel /\ jobs'[i].status \in {jobs[i].status, "cancelled"}
    BY <1>1, <1>3, <2>2, <2>5 DEF CancelWrite
  <2> QED BY <2>6
<1>4. CASE Reap \/ Boot
  <2>1. ASSUME NEW j \in Jobs PROVE RowStep(j)
    <3>1. jobs'[j] \in {jobs[j], RequeueUnfinished(jobs[j]), Requeue(jobs[j])}
      BY <1>1, <1>4 DEF Reap, Boot
    <3>2. /\ jobs'[j].cancel = jobs[j].cancel
          /\ \/ jobs'[j].status = jobs[j].status
             \/ jobs[j].status = "running" /\ jobs'[j].status = "queued"
      BY <1>1, <3>1 DEF RequeueUnfinished, Requeue, Row
    <3> QED BY <3>2
  <2> QED BY <2>1
<1>5. CASE Take
  <2>1. CASE Claimable(candidate)
    BY <1>1, <1>5, <2>1 DEF Take, Claimable, Row
  <2>2. CASE ~Claimable(candidate)
    BY <1>2, <1>5, <2>2 DEF Take
  <2> QED BY <2>1, <2>2
<1>6. ASSUME NEW i \in Jobs, Work(i) \/ ThreadFault(i)
      PROVE  \A j \in Jobs : RowStep(j)
  <2>1. CASE UNCHANGED jobs
    BY <1>2, <2>1
  <2>2. CASE Executing(i) /\ jobs' = [jobs EXCEPT ![i] = Update(jobs[i], snap[i])]
    <3>1. /\ jobs[i] \in Row /\ snap[i] \in Row
          /\ jobs[i].status \in {"running", "cancelled"}
          /\ jobs[i].status = "cancelled" => jobs[i].cancel
      BY <1>1, <2>2 DEF ThreadOK, CancelledIsRequested
    <3>2. /\ jobs[i].cancel => Update(jobs[i], snap[i]).status # "completed"
          /\ Update(jobs[i], snap[i]).cancel = (jobs[i].cancel \/ snap[i].cancel)
      BY <3>1, UpdateMerges
    <3> QED BY <1>1, <2>2, <3>1, <3>2
  <2> QED
    BY <1>6, <2>1, <2>2
    DEF Work, ThreadFault, Executing, ReadJob, Start, ReadProgress, RecordProgress,
        ReadOutcome, ReadFailure, ObserveCancel, StoreOutcome, Continue, Prepare, Store
<1> QED
  BY <1>2, <1>3, <1>4, <1>5, <1>6
  DEF Next, Loop, CancelRead, Pause, Resume, Select, WakeUp, LoopFault, Exit, Crash,
      LoseMemory, Stop, vars

\* The steps that add an active job stay within the capacity they read.
LEMMA WithinLimitInit == Init => UncancelledWithinLimit
<1> SUFFICES ASSUME Init PROVE UncancelledWithinLimit
  OBVIOUS
<1>1. Uncancelled = {}
  BY DEF Init, Uncancelled, WithStatus, NoRow
<1> QED BY <1>1, FS_EmptySet, JobRowsAssumption DEF UncancelledWithinLimit, Uncancelled

LEMMA WithinLimitNext ==
  Inv /\ Inv' /\ UncancelledWithinLimit /\ [Next]_vars => UncancelledWithinLimit'
<1> SUFFICES ASSUME Inv, Inv', UncancelledWithinLimit, [Next]_vars
             PROVE  UncancelledWithinLimit'
  OBVIOUS
<1> DEFINE Held == WithStatus(jobs, {"queued", "running"})
<1>1. /\ jobs \in [Jobs -> Row] /\ MaxActiveJobs \in Nat \ {0}
      /\ Uncancelled \in SUBSET Held /\ Held \in SUBSET Jobs
      /\ Uncancelled \in SUBSET Jobs /\ Uncancelled' \in SUBSET Jobs
  BY JobRowsAssumption DEF Inv, TypeInv, TypeOK, Uncancelled, WithStatus
<1>2. /\ IsFiniteSet(Uncancelled) /\ Cardinality(Uncancelled) \in Nat
      /\ IsFiniteSet(Uncancelled') /\ Cardinality(Uncancelled') \in Nat
      /\ Cardinality(Held) \in Nat /\ Cardinality(Uncancelled) <= Cardinality(Held)
      /\ Cardinality(Uncancelled) <= MaxActiveJobs
  BY <1>1, FiniteJobs, Fewer DEF UncancelledWithinLimit, Uncancelled
<1> HIDE DEF Held
<1>3. SUFFICES Cardinality(Uncancelled') <= MaxActiveJobs
  BY DEF UncancelledWithinLimit, Uncancelled
<1>4. CASE ~Activate /\ \A j \in Jobs : ~Create(j)
  <2>1. Uncancelled' \in SUBSET Uncancelled
    BY <1>1, <1>4, RowSteps DEF RowStep
  <2> QED BY <1>1, <1>2, <2>1, Fewer
<1>5. ASSUME NEW j \in Jobs, Create(j) PROVE Cardinality(Uncancelled') <= MaxActiveJobs
  <2>1. jobs' = [jobs EXCEPT ![j].status = CreationStatus(jobs)]
    BY <1>5 DEF Create
  <2>2. CASE Cardinality(Held) < MaxActiveJobs
    <3>1. Uncancelled' \in SUBSET (Uncancelled \cup {j})
      BY <1>1, <2>1 DEF Uncancelled, WithStatus
    <3>2. /\ IsFiniteSet(Uncancelled \cup {j})
          /\ Cardinality(Uncancelled \cup {j}) <= Cardinality(Uncancelled) + 1
          /\ Cardinality(Uncancelled \cup {j}) \in Nat
      <4>1. Uncancelled \cup {j} \in SUBSET Jobs
        BY <1>1
      <4>2. Cardinality(Uncancelled \cup {j})
              = IF j \in Uncancelled THEN Cardinality(Uncancelled)
                                     ELSE Cardinality(Uncancelled) + 1
        BY <1>2, FS_AddElement
      <4>3. IsFiniteSet(Uncancelled \cup {j}) /\ Cardinality(Uncancelled \cup {j}) \in Nat
        BY <4>1, FiniteJobs
      <4> QED BY <1>2, <4>2, <4>3
    <3>3. Cardinality(Uncancelled') <= Cardinality(Uncancelled \cup {j})
      BY <3>1, <3>2, FS_Subset
    <3> QED BY <1>1, <1>2, <2>2, <3>2, <3>3
  <2>3. CASE ~(Cardinality(Held) < MaxActiveJobs)
    <3>1. jobs' = [jobs EXCEPT ![j].status = "inactive"]
      BY <2>1, <2>3 DEF CreationStatus, CountActiveOneTime, Held
    <3>2. Uncancelled' \in SUBSET Uncancelled
      BY <1>1, <3>1 DEF Uncancelled, WithStatus, Row
    <3> QED BY <1>1, <1>2, <3>2, Fewer
  <2> QED BY <2>2, <2>3
<1>6. CASE Activate
  <2>1. CASE UNCHANGED jobs
    BY <1>2, <2>1 DEF Uncancelled
  <2>2. CASE \E promoted \in SUBSET Jobs :
               OldestInactive(jobs, promoted) /\ jobs' = Activated(jobs, promoted)
    <3>1. PICK promoted \in SUBSET Jobs :
               OldestInactive(jobs, promoted) /\ jobs' = Activated(jobs, promoted)
      BY <2>2
    <3>2. Uncancelled' \in SUBSET (Uncancelled \cup promoted)
      BY <1>1, <3>1 DEF Uncancelled, WithStatus, Activated
    <3>3. CASE promoted = {}
      BY <1>1, <1>2, <3>2, <3>3, Fewer
    <3>4. CASE Cardinality(promoted) <= MaxActiveJobs - Cardinality(Held)
      <4>1. IsFiniteSet(promoted) /\ Cardinality(promoted) \in Nat
        BY FiniteJobs
      <4>2. /\ IsFiniteSet(Uncancelled \cup promoted)
            /\ Cardinality(Uncancelled \cup promoted)
                 <= Cardinality(Uncancelled) + Cardinality(promoted)
            /\ Cardinality(Uncancelled \cup promoted) \in Nat
        <5>1. Uncancelled \cap promoted \in SUBSET Jobs
          BY <1>1
        <5>2. Cardinality(Uncancelled \cap promoted) \in Nat
          BY <5>1, FiniteJobs
        <5>3. Cardinality(Uncancelled \cup promoted)
                = Cardinality(Uncancelled) + Cardinality(promoted)
                  - Cardinality(Uncancelled \cap promoted)
          BY <1>2, <4>1, FS_Union
        <5>4. Uncancelled \cup promoted \in SUBSET Jobs
          BY <1>1
        <5>5. /\ IsFiniteSet(Uncancelled \cup promoted)
              /\ Cardinality(Uncancelled \cup promoted) \in Nat
          BY <5>4, FiniteJobs
        <5> QED BY <1>2, <4>1, <5>2, <5>3, <5>5
      <4>3. Cardinality(Uncancelled') <= Cardinality(Uncancelled \cup promoted)
        BY <3>2, <4>2, FS_Subset
      <4> QED BY <1>1, <1>2, <3>4, <4>1, <4>2, <4>3
    <3> QED BY <3>1, <3>3, <3>4 DEF OldestInactive, CountActiveOneTime, Held
  <2> QED BY <1>6, <2>1, <2>2 DEF Activate
<1> QED BY <1>4, <1>5, <1>6

\* max_active_run_jobs bounds the queued and running jobs nobody asked to cancel.
THEOREM LimitHolds == Spec => []UncancelledWithinLimit
  BY WithinLimitInit, WithinLimitNext, Invariance, PTL DEF Spec

\* A job whose cancellation was requested does not become completed, however old
\* the copy is that the worker stores.
THEOREM CancellationWins == Spec => CancelBeatsCompletion
<1>1. Inv /\ Inv' /\ [Next]_vars =>
        [\A j \in Jobs : jobs[j].cancel /\ jobs'[j].status = "completed"
                            => jobs[j].status = "completed"]_vars
  <2> SUFFICES ASSUME Inv, Inv', [Next]_vars, NEW j \in Jobs
               PROVE  jobs[j].cancel /\ jobs'[j].status = "completed"
                        => jobs[j].status = "completed"
    OBVIOUS
  <2>1. CASE ~Activate /\ \A i \in Jobs : ~Create(i)
    BY <2>1, RowSteps DEF RowStep, Kept
  <2>2. CASE Activate \/ \E i \in Jobs : Create(i)
    <3>1. jobs \in [Jobs -> Row]
      BY DEF Inv, TypeInv, TypeOK
    <3> QED BY <2>2, <3>1 DEF Activate, Activated, Create, CreationStatus, Row
  <2> QED BY <2>1, <2>2
<1> QED BY <1>1, Invariance, PTL DEF Spec, CancelBeatsCompletion
=============================================================================
