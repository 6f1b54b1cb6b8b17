------------------------------ MODULE JobQueue ------------------------------
(***************************************************************************)
(* The job executor: HTTP requests that create and cancel jobs             *)
(* (JobService), the polling loop that claims them (JobQueue._run), one    *)
(* thread per claimed job (DownloadWorker.run_job), graceful stop, crash   *)
(* and the requeueing of startup recovery.                                 *)
(*                                                                         *)
(* Every SQLite statement or transaction is one step.  A read and the      *)
(* write that uses it are two steps, as they are in the code: an actor     *)
(* that is going to overwrite a row keeps its copy in snap or requests.    *)
(*                                                                         *)
(* The runs that link jobs are modelled in WorkflowRunner; here every      *)
(* interrupted job is one that recovery finds.                             *)
(***************************************************************************)
EXTENDS JobRows

CONSTANTS
  Clients,        \* concurrent HTTP requests that cancel jobs
  MaxConcurrent,  \* setting max_concurrent_downloads
  MaxFaults,      \* bound: database errors and exceptions outside a job
  MaxDowntimes    \* bound: crashes and graceful stops

ASSUME JobQueueAssumption ==
  /\ MaxConcurrent \in Nat \ {0}
  /\ MaxFaults \in Nat
  /\ MaxDowntimes \in Nat

VARIABLES
  jobs,       \* the jobs table
  loop,       \* where JobQueue._run is
  candidate,  \* the job next_queued returned, 0 when there is none
  active,     \* JobQueue._active: claimed jobs whose task is not reaped
  paused,     \* JobQueue._paused
  stopping,   \* the stop events of the queue and of its worker
  thread,     \* where the thread of each job is in run_job
  snap,       \* the Job object that thread is about to store
  requests,   \* the row each cancelling request has read
  faults,     \* history: errors so far
  downtimes   \* history: crashes and stops so far

queueVars  == <<loop, candidate, active>>
threadVars == <<thread, snap>>
vars == <<jobs, queueVars, paused, stopping, threadVars, requests, faults, downtimes>>

LoopStates == {"down", "reap", "activate", "select", "take", "sleep", "draining"}

ThreadStates == {"none", "reading", "starting", "working", "recording",
                 "finishing", "handling", "continuing", "done", "raised"}

\* the thread is inside the body of run_job and will still write the row
Executing(j) == thread[j] \in {"reading", "starting", "working", "recording",
                               "finishing", "handling"}

NoRequest == [job |-> 0, row |-> NoRow]

Idle == /\ loop = "down"
        /\ candidate = 0
        /\ active = {}
        /\ paused = FALSE
        /\ stopping = FALSE
        /\ thread = [j \in Jobs |-> "none"]
        /\ snap = [j \in Jobs |-> NoRow]
        /\ requests = [c \in Clients |-> NoRequest]

Init == /\ jobs = [j \in Jobs |-> NoRow]
        /\ Idle
        /\ faults = 0
        /\ downtimes = 0

Up == loop # "down"

-----------------------------------------------------------------------------
(* HTTP requests and workflow nodes. *)

\* create_node_job: the status is chosen under the SQLite write lock.
Create(j) ==
  /\ Up
  /\ IsNextNew(jobs, j)
  /\ jobs' = [jobs EXCEPT ![j].status = CreationStatus(jobs)]
  /\ UNCHANGED <<queueVars, paused, stopping, threadVars, requests, faults, downtimes>>

\* cancel_job reads the row; a terminal or a missing job is refused.
CancelRead(c, j) ==
  /\ Up
  /\ requests[c] = NoRequest
  /\ jobs[j].status \in ActiveStatuses
  /\ requests' = [requests EXCEPT ![c] = [job |-> j, row |-> jobs[j]]]
  /\ UNCHANGED <<jobs, queueVars, paused, stopping, threadVars, faults, downtimes>>

\* cancel_job acts on what it read: a job seen waiting is overwritten as
\* cancelled, a job seen running gets the flag.
CancelWrite(c) ==
  /\ requests[c] # NoRequest
  /\ LET j    == requests[c].job
         seen == requests[c].row
     IN jobs' = [jobs EXCEPT ![j] =
          IF seen.status \in WaitingStatuses
          THEN Update(@, Cancelled(seen)) ELSE RequestCancel(@)]
  /\ requests' = [requests EXCEPT ![c] = NoRequest]
  /\ UNCHANGED <<queueVars, paused, stopping, threadVars, faults, downtimes>>

Pause  == /\ Up /\ ~paused
          /\ paused' = TRUE
          /\ UNCHANGED <<jobs, queueVars, stopping, threadVars, requests, faults, downtimes>>

Resume == /\ Up /\ paused
          /\ paused' = FALSE
          /\ UNCHANGED <<jobs, queueVars, stopping, threadVars, requests, faults, downtimes>>

-----------------------------------------------------------------------------
(* The polling loop. *)

Goto(l) == loop' = l /\ UNCHANGED <<candidate, active>>

\* Finished tasks leave _active, up to the first one that raised: its job is
\* requeued and the rest of the iteration is given up.  Otherwise the iteration
\* advances the running runs, which WorkflowRunner models, and goes on to claim.
Reap ==
  /\ loop = "reap"
  /\ LET ended  == {j \in active : thread[j] = "done"}
         raised == {j \in active : thread[j] = "raised"}
     IN \/ /\ raised = {}
           /\ active' = active \ ended
           /\ thread' = [j \in Jobs |-> IF j \in ended THEN "none" ELSE thread[j]]
           /\ loop' = IF paused THEN "sleep" ELSE "activate"
           /\ UNCHANGED jobs
        \/ \E b \in raised, some \in SUBSET ended :
             /\ active' = active \ (some \cup {b})
             /\ thread' = [j \in Jobs |-> IF j \in some \cup {b}
                                          THEN "none" ELSE thread[j]]
             /\ jobs' = [jobs EXCEPT ![b] = RequeueUnfinished(@)]
             /\ loop' = "sleep"
  /\ UNCHANGED <<candidate, paused, stopping, snap, requests, faults, downtimes>>

HasSlotOffByOne == Cardinality(active) <= MaxConcurrent
HasSlot == Cardinality(active) < MaxConcurrent

\* The loop condition of the claim loop, then activate_one_time.
Activate ==
  /\ loop = "activate"
  /\ IF HasSlot /\ ~stopping
     THEN \E promoted \in SUBSET Jobs :
            /\ OldestInactive(jobs, promoted)
            /\ jobs' = Activated(jobs, promoted)
            /\ Goto("select")
     ELSE Goto("sleep") /\ UNCHANGED jobs
  /\ UNCHANGED <<paused, stopping, threadVars, requests, faults, downtimes>>

\* next_queued, in a transaction of its own
Select ==
  /\ loop = "select"
  /\ \/ /\ WithStatus(jobs, {"queued"}) = {}
        /\ Goto("sleep")
     \/ \E j \in Jobs :
          /\ IsNextQueued(jobs, j)
          /\ candidate' = j
          /\ loop' = "take"
          /\ UNCHANGED active
  /\ UNCHANGED <<jobs, paused, stopping, threadVars, requests, faults, downtimes>>

\* The WHERE clause of the claim.
ClaimableUnchecked(j) == jobs[j].status # "absent"
Claimable(j) == jobs[j].status = "queued"

\* The conditional UPDATE that claims the job, and the task that runs it.
Take ==
  /\ loop = "take"
  /\ IF Claimable(candidate)
     THEN /\ jobs' = [jobs EXCEPT ![candidate].status = "running"]
          /\ active' = active \cup {candidate}
          /\ thread' = [thread EXCEPT ![candidate] = "reading"]
          /\ loop' = "activate"
     ELSE /\ loop' = "sleep"
          /\ UNCHANGED <<jobs, active, thread>>
  /\ candidate' = 0
  /\ UNCHANGED <<paused, stopping, snap, requests, faults, downtimes>>

\* Any exception ends the iteration; the loop retries after a delay.
LoopFault ==
  /\ loop \in {"reap", "activate", "select", "take"}
  /\ faults < MaxFaults
  /\ faults' = faults + 1
  /\ loop' = "sleep"
  /\ candidate' = 0
  /\ UNCHANGED <<jobs, active, paused, stopping, threadVars, requests, downtimes>>

\* A wake event or the poll interval.
WakeUp ==
  /\ loop = "sleep"
  /\ Goto(IF stopping THEN "draining" ELSE "reap")
  /\ UNCHANGED <<jobs, paused, stopping, threadVars, requests, faults, downtimes>>

-----------------------------------------------------------------------------
(* The thread of job j: DownloadWorker.run_job. *)

\* The thread is going to store copy, and is then at the given place.
Prepare(j, copy, place) ==
  /\ snap' = [snap EXCEPT ![j] = copy]
  /\ thread' = [thread EXCEPT ![j] = place]
  /\ UNCHANGED <<jobs, queueVars, paused, stopping, requests, faults, downtimes>>

\* The copy is stored; between two copies only the service's own count of
\* processed files stays in the thread.
Store(j, place, files) ==
  /\ jobs' = [jobs EXCEPT ![j] = Update(@, snap[j])]
  /\ thread' = [thread EXCEPT ![j] = place]
  /\ snap' = [snap EXCEPT ![j] = [NoRow EXCEPT !.done = files]]
  /\ UNCHANGED <<queueVars, paused, stopping, requests, faults, downtimes>>

\* run_job fetches the row: a cancelled job is finished at once
ReadJob(j) ==
  /\ thread[j] = "reading"
  /\ IF jobs[j].cancel \/ jobs[j].status = "cancelled"
     THEN Prepare(j, Cancelled(jobs[j]), "finishing")
     ELSE Prepare(j, [jobs[j] EXCEPT !.status = "running"], "starting")

\* _start stores the copy; the service then counts its own files from 0
Start(j) ==
  /\ thread[j] = "starting"
  /\ Store(j, "working", 0)

\* _record_progress fetches the row for one more file ...
MoreFiles(j) == snap[j].done < MaxFiles

ReadProgress(j) ==
  /\ thread[j] = "working"
  /\ MoreFiles(j)
  /\ Prepare(j, [jobs[j] EXCEPT !.done = snap[j].done + 1], "recording")

\* ... and stores it with the new counters
RecordProgress(j) ==
  /\ thread[j] = "recording"
  /\ Store(j, "working", snap[j].done)

\* the service returns: the row is fetched to be stored as completed or failed
ReadOutcome(j) ==
  /\ thread[j] = "working"
  /\ \E status \in {"completed", "failed"} :
       Prepare(j, [jobs[j] EXCEPT !.status = status, !.done = snap[j].done],
               "finishing")

\* the service raised: run_job's handler fetches the row for _finish
ReadFailure(j) ==
  /\ thread[j] = "working"
  /\ Prepare(j, Failed(jobs[j]), "handling")

\* _is_cancel_requested answers yes and the service raises JobCancelledError
ObserveCancel(j) ==
  /\ thread[j] = "working"
  /\ jobs[j].cancel \/ stopping
  /\ Prepare(j, Cancelled(jobs[j]), "handling")

\* the final row is stored, by the body of run_job or by its handlers
StoreOutcome(j) ==
  /\ thread[j] \in {"finishing", "handling"}
  /\ Store(j, "continuing", 0)

\* _continue_workflow, which changes runs and not this row
Continue(j) ==
  /\ thread[j] = "continuing"
  /\ thread' = [thread EXCEPT ![j] = "done"]
  /\ UNCHANGED <<jobs, queueVars, paused, stopping, snap, requests, faults, downtimes>>

\* A database error in the body of run_job is handled by _finish(failed); one
\* in a handler or in _continue_workflow leaves run_job and ends its task.
ThreadFault(j) ==
  /\ thread[j] \in {"reading", "starting", "recording", "finishing",
                    "handling", "continuing"}
  /\ faults < MaxFaults
  /\ faults' = faults + 1
  /\ \/ /\ thread[j] \in {"reading", "starting", "recording", "finishing"}
        /\ snap' = [snap EXCEPT ![j] = Failed(jobs[j])]
        /\ thread' = [thread EXCEPT ![j] = "handling"]
     \/ /\ snap' = [snap EXCEPT ![j] = NoRow]
        /\ thread' = [thread EXCEPT ![j] = "raised"]
  /\ UNCHANGED <<jobs, queueVars, paused, stopping, requests, downtimes>>

Work(j) == \/ ReadJob(j) \/ Start(j) \/ ReadProgress(j) \/ RecordProgress(j)
           \/ ReadOutcome(j) \/ ReadFailure(j) \/ ObserveCancel(j)
           \/ StoreOutcome(j) \/ Continue(j)

-----------------------------------------------------------------------------
(* The process. *)

\* JobQueue.stop: both stop events are set, the loop and the threads notice.
Stop ==
  /\ Up /\ ~stopping
  /\ downtimes < MaxDowntimes
  /\ downtimes' = downtimes + 1
  /\ stopping' = TRUE
  /\ UNCHANGED <<jobs, queueVars, paused, threadVars, requests, faults>>

\* Everything in memory is lost; only the jobs table survives.
LoseMemory ==
  /\ loop' = "down"
  /\ candidate' = 0
  /\ active' = {}
  /\ paused' = FALSE
  /\ stopping' = FALSE
  /\ thread' = [j \in Jobs |-> "none"]
  /\ snap' = [j \in Jobs |-> NoRow]
  /\ requests' = [c \in Clients |-> NoRequest]
  /\ UNCHANGED <<jobs, faults>>

\* stop() has waited for the loop and for every thread
Exit ==
  /\ loop = "draining"
  /\ \A j \in active : thread[j] \in {"done", "raised"}
  /\ requests = [c \in Clients |-> NoRequest]
  /\ LoseMemory
  /\ UNCHANGED downtimes

Crash ==
  /\ Up
  /\ downtimes < MaxDowntimes
  /\ downtimes' = downtimes + 1
  /\ LoseMemory

\* WorkflowRecoveryService requeues the interrupted jobs before the executors
\* start; JobQueue.start then starts the loop.
Boot ==
  /\ loop = "down"
  /\ jobs' = [j \in Jobs |-> Requeue(jobs[j])]
  /\ loop' = "reap"
  /\ UNCHANGED <<candidate, active, paused, stopping, threadVars, requests,
                 faults, downtimes>>

-----------------------------------------------------------------------------
Loop == Reap \/ Activate \/ Select \/ Take \/ WakeUp \/ Exit

Next ==
  \/ \E j \in Jobs : Create(j)
  \/ \E c \in Clients, j \in Jobs : CancelRead(c, j)
  \/ \E c \in Clients : CancelWrite(c)
  \/ Pause \/ Resume
  \/ Loop \/ LoopFault
  \/ \E j \in Jobs : Work(j) \/ ThreadFault(j)
  \/ Stop \/ Crash \/ Boot

\* The event loop runs its only background task, the thread pool its threads,
\* an accepted request is answered, and the service is started again.
Fairness ==
  /\ WF_vars(Loop)
  /\ \A j \in Jobs : WF_vars(Work(j))
  /\ \A c \in Clients : WF_vars(CancelWrite(c))
  /\ WF_vars(Boot)

Spec == Init /\ [][Next]_vars
FairSpec == Spec /\ Fairness

-----------------------------------------------------------------------------
(* Properties. *)

TypeOK ==
  /\ jobs \in [Jobs -> Row]
  /\ loop \in LoopStates
  /\ candidate \in Jobs \cup {0}
  /\ active \in SUBSET Jobs
  /\ paused \in BOOLEAN
  /\ stopping \in BOOLEAN
  /\ thread \in [Jobs -> ThreadStates]
  /\ snap \in [Jobs -> Row]
  /\ requests \in [Clients -> {NoRequest} \cup
                    [job : Jobs, row : {r \in Row : r.status \in ActiveStatuses}]]
  /\ faults \in 0..MaxFaults
  /\ downtimes \in 0..MaxDowntimes

\* While the service is up, a job marked running has a thread that will still
\* store its outcome, or whose failure the loop is about to reap: no claim is
\* lost, although rows are overwritten by stale copies.
NoLostClaim ==
  Up => \A j \in Jobs : jobs[j].status = "running" =>
          j \in active /\ (Executing(j) \/ thread[j] = "raised")

\* max_concurrent_downloads bounds the jobs that are really being executed,
\* including those a racing cancellation has already marked cancelled.
ExecutionBounded == Cardinality({j \in Jobs : Executing(j)}) <= MaxConcurrent

\* max_active_run_jobs bounds the queued and running jobs nobody asked to
\* cancel, whatever creations, activations, requeues and stale writes race.
UncancelledWithinLimit ==
  Cardinality({j \in WithStatus(jobs, {"queued", "running"}) : ~jobs[j].cancel})
    <= MaxActiveJobs

\* A job is not reported completed by a write that follows the request to
\* cancel it, however old the copy is that the worker stores.
CancelBeatsCompletion ==
  [][\A j \in Jobs : jobs[j].cancel /\ jobs'[j].status = "completed"
                        => jobs[j].status = "completed"]_vars

\* The executor implements the abstract life cycle: a job is executed by one
\* thread at a time, and one that is over is never queued or executed again.
PhaseOf(j) ==
  IF Executing(j) THEN "working"
  ELSE IF jobs[j].status = "absent" THEN "none"
  ELSE IF jobs[j].status \in TerminalStatuses THEN "over"
  ELSE "waiting"

Lifecycle == INSTANCE JobLifecycle WITH phase <- [j \in Jobs |-> PhaseOf(j)]

ImplementsLifecycle == Lifecycle!Spec

\* While the service stays up and is not paused every job reaches a final
\* status: activation, claims, faults and restarts strand none of them.
Settled(j) == jobs[j].status \in TerminalStatuses /\ ~Executing(j)

EveryJobSettles ==
  <>[](Up /\ ~paused /\ ~stopping) =>
    \A j \in Jobs : (jobs[j].status # "absent") ~> Settled(j)

\* docs/configuration.md: max_active_run_jobs is the maximum of queued and
\* running jobs across one-time runs, cancelled or not.
ActiveWithinLimit == CountActiveOneTime(jobs) <= MaxActiveJobs
=============================================================================
