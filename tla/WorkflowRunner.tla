--------------------------- MODULE WorkflowRunner ---------------------------
(***************************************************************************)
(* One workflow run: AdvancedWorkflowRunner.process_run, which the request *)
(* that creates the run, the threads of its finished jobs, the polling     *)
(* loop of the queue and the startup recovery all call, and which the      *)
(* table workflow_execution_claims serialises; the jobs its nodes create   *)
(* and link; crashes, and WorkflowRecoveryService.                         *)
(*                                                                         *)
(* Rows of jobs, and the statements that write them, are those of JobRows. *)
(* The executor is the one of JobQueue with its steps merged: a thread     *)
(* reads a row once before it starts and once before it stores the result. *)
(* Rows that only the owner of the claim writes are read and written in    *)
(* one step; the copies of nodes a call works with are kept, in view.      *)
(***************************************************************************)
EXTENDS JobRows

CONSTANTS
  MaxNodes,    \* bound: nodes of the run
  TargetsOf,   \* [Nodes -> Nat]: how many jobs the executor of a node creates
  Callers,     \* concurrent calls of process_run
  Poller,      \* the calls made by the polling loop of the queue
  Recoverer,   \* the call made by the startup recovery
  Nobody,      \* no caller
  MaxCancels,  \* bound: cancelling requests
  MaxFaults,   \* bound: database errors
  MaxCrashes   \* bound: crashes

Nodes == 1..MaxNodes

ASSUME WorkflowRunnerAssumption ==
  /\ MaxNodes \in Nat \ {0}
  /\ TargetsOf \in [Nodes -> Nat]
  /\ {Poller, Recoverer} \subseteq Callers
  /\ Nobody \notin Callers
  /\ MaxCancels \in Nat /\ MaxFaults \in Nat /\ MaxCrashes \in Nat

VARIABLES
  run,       \* workflow_runs.status, "none" before the run is created
  nodes,     \* workflow_node_runs: status and the two flags of a node
  claim,     \* workflow_execution_claims: the caller that owns the run
  jobs,      \* the jobs table
  link,      \* which target of which node a job was created for
  at,        \* where each caller is in process_run
  view,      \* the node rows it has listed
  pos,       \* the node it is at
  next,      \* the target it creates a job for next
  result,    \* what it is going to write as the result of the node
  thread,    \* where the thread of each job is
  snap,      \* the copy of the row that thread is going to store
  asked,     \* the row each cancelling request has read, by job
  service,   \* the process: down, starting up or up
  requeued,  \* history: the last recovery has requeued the interrupted jobs
  cancels, faults, crashes   \* history

runVars    == <<run, nodes, claim>>
jobVars    == <<jobs, link>>
callVars   == <<at, view, pos, next, result>>
threadVars == <<thread, snap, asked>>
procVars   == <<service, requeued, crashes>>
vars == <<runVars, jobVars, callVars, threadVars, procVars, cancels, faults>>

NodeStatuses == {"pending", "running", "completed", "failed", "partial",
                 "cancelled", "skipped"}
Unsuccessful == {"failed", "partial", "cancelled", "skipped"}

\* started: execution_started in the input; ready: jobs_initialized in the output
NodeRow == [status : NodeStatuses, started : BOOLEAN, ready : BOOLEAN]
NewNode == [status |-> "pending", started |-> FALSE, ready |-> FALSE]

NoLink == [node |-> 0, target |-> 0]

Places == {"idle", "loading", "deciding", "starting", "executing", "linking",
           "ending", "stopping", "refreshing", "releasing"}

NoCalls == /\ at = [c \in Callers |-> "idle"]
           /\ view = [c \in Callers |-> [n \in Nodes |-> NewNode]]
           /\ pos = [c \in Callers |-> 1]
           /\ next = [c \in Callers |-> 1]
           /\ result = [c \in Callers |-> "completed"]

NoThreads == /\ thread = [j \in Jobs |-> "none"]
             /\ snap = [j \in Jobs |-> NoRow]
             /\ asked = [j \in Jobs |-> NoRow]

Init == /\ run = "none"
        /\ nodes = [n \in Nodes |-> NewNode]
        /\ claim = Nobody
        /\ jobs = [j \in Jobs |-> NoRow]
        /\ link = [j \in Jobs |-> NoLink]
        /\ NoCalls
        /\ NoThreads
        /\ service = "up" /\ requeued = TRUE
        /\ cancels = 0 /\ faults = 0 /\ crashes = 0

\* the jobs linked to a node, by workflow_node_run_id
Linked(n) == {j \in Jobs : link[j].node = n}

-----------------------------------------------------------------------------
(* process_run. *)

\* create_run inserts the run and its nodes in one transaction.
CreateRun ==
  /\ service = "up" /\ run = "none"
  /\ run' = "running"
  /\ UNCHANGED <<nodes, claim, jobVars, callVars, threadVars, procVars, cancels, faults>>

Goto(c, place) == at' = [at EXCEPT ![c] = place]

\* INSERT OR IGNORE: whoever finds the claim taken returns at once.
FreeAlways == TRUE
Free == claim = Nobody

Call(c) ==
  /\ at[c] = "idle" /\ run # "none"
  /\ service = IF c = Recoverer THEN "resuming" ELSE "up"
  /\ Free
  /\ claim' = c
  /\ Goto(c, "loading")
  /\ UNCHANGED <<run, nodes, jobVars, view, pos, next, result, threadVars,
                 procVars, cancels, faults>>

\* A run that is over is left alone; otherwise its nodes are listed.
Load(c) ==
  /\ at[c] = "loading"
  /\ IF run = "running"
     THEN /\ view' = [view EXCEPT ![c] = nodes]
          /\ pos' = [pos EXCEPT ![c] = 1]
          /\ Goto(c, "deciding")
     ELSE Goto(c, "releasing") /\ UNCHANGED <<view, pos>>
  /\ UNCHANGED <<runVars, jobVars, next, result, threadVars, procVars, cancels, faults>>

Current(c) == view[c][pos[c]]

\* jobs that keep the node waiting
AwaitedForgetsInactive(S) == {j \in S : jobs[j].status \in {"queued", "running"}}
Awaited(S) == {j \in S : jobs[j].status \in ActiveStatuses}

\* _refresh_node_jobs, on jobs that are all over
Outcomes(S) ==
  IF \E j \in S : jobs[j].status = "cancelled" THEN {"cancelled"}
  ELSE IF \E j \in S : jobs[j].status = "failed" THEN {"failed", "partial"}
  ELSE {"completed"}

\* The jobs of the node are the ones to look at: all of them have been created,
\* or the node never came to execute.
Initialized(c) == /\ Current(c).status = "running"
                  /\ Linked(pos[c]) # {}
                  /\ Current(c).ready \/ ~Current(c).started

Decide(c) ==
  /\ at[c] = "deciding" /\ pos[c] \in Nodes
  /\ \/ /\ Current(c).status = "completed"
        /\ pos' = [pos EXCEPT ![c] = @ + 1]
        /\ UNCHANGED <<at, result>>
     \/ /\ Current(c).status \in Unsuccessful
        /\ Goto(c, "stopping")
        /\ UNCHANGED <<pos, result>>
     \/ /\ Initialized(c)
        /\ IF Awaited(Linked(pos[c])) # {}
           THEN Goto(c, "refreshing") /\ UNCHANGED result
           ELSE /\ \E r \in Outcomes(Linked(pos[c])) : result' = [result EXCEPT ![c] = r]
                /\ Goto(c, "ending")
        /\ UNCHANGED pos
     \/ /\ Current(c).status \in {"pending", "running"} /\ ~Initialized(c)
        /\ Goto(c, "starting")
        /\ UNCHANGED <<pos, result>>
  /\ UNCHANGED <<runVars, jobVars, view, next, threadVars, procVars, cancels, faults>>

\* every node has been gone through
NoMoreNodes(c) ==
  /\ at[c] = "deciding" /\ pos[c] \notin Nodes
  /\ Goto(c, "refreshing")
  /\ UNCHANGED <<runVars, jobVars, view, pos, next, result, threadVars, procVars,
                 cancels, faults>>

\* update_node_run writes the caller's whole copy of the node
WriteNode(c, row) ==
  /\ nodes' = [nodes EXCEPT ![pos[c]] = row]
  /\ view' = [view EXCEPT ![c][pos[c]] = row]
  /\ UNCHANGED <<run, claim>>

StartNode(c) ==
  /\ at[c] = "starting"
  /\ WriteNode(c, [Current(c) EXCEPT !.status = "running", !.started = TRUE])
  /\ next' = [next EXCEPT ![c] = 1]
  /\ Goto(c, "executing")
  /\ UNCHANGED <<jobVars, pos, result, threadVars, procVars, cancels, faults>>

\* create_node_job finds the job an earlier attempt created for the target
ReusableNever(n, t) == {}
Reusable(n, t) == {j \in Jobs : link[j] = [node |-> n, target |-> t]}

CreateJob(c) ==
  /\ at[c] = "executing" /\ next[c] <= TargetsOf[pos[c]]
  /\ IF Reusable(pos[c], next[c]) # {}
     THEN UNCHANGED jobVars
     ELSE \E j \in Jobs :
            /\ IsNextNew(jobs, j)
            /\ jobs' = [jobs EXCEPT ![j].status = CreationStatus(jobs)]
            /\ link' = [link EXCEPT ![j] = [node |-> pos[c], target |-> next[c]]]
  /\ next' = [next EXCEPT ![c] = @ + 1]
  /\ UNCHANGED <<runVars, at, view, pos, result, threadVars, procVars, cancels, faults>>

\* The executor raises, at its start or between two jobs: the disk is too
\* full, a setting is invalid, the source job is gone.
ExecuteRaises(c) ==
  /\ at[c] = "executing" /\ (next[c] = 1 \/ next[c] <= TargetsOf[pos[c]])
  /\ result' = [result EXCEPT ![c] = "failed"]
  /\ Goto(c, "ending")
  /\ UNCHANGED <<runVars, jobVars, view, pos, next, threadVars, procVars, cancels, faults>>

\* The executor returns: a node without jobs is complete.
Executed(c) ==
  /\ at[c] = "executing" /\ next[c] > TargetsOf[pos[c]]
  /\ IF TargetsOf[pos[c]] = 0
     THEN result' = [result EXCEPT ![c] = "completed"] /\ Goto(c, "ending")
     ELSE Goto(c, "linking") /\ UNCHANGED result
  /\ UNCHANGED <<runVars, jobVars, view, pos, next, threadVars, procVars, cancels, faults>>

LinkJobs(c) ==
  /\ at[c] = "linking"
  /\ WriteNode(c, [Current(c) EXCEPT !.ready = TRUE])
  /\ Goto(c, "refreshing")
  /\ UNCHANGED <<jobVars, pos, next, result, threadVars, procVars, cancels, faults>>

\* only a completed node lets the loop go on
ContinuesAlways(r) == r \in NodeStatuses
Continues(r) == r = "completed"

EndNode(c) ==
  /\ at[c] = "ending"
  /\ WriteNode(c, [Current(c) EXCEPT !.status = result[c]])
  /\ IF Continues(result[c])
     THEN Goto(c, "deciding") /\ pos' = [pos EXCEPT ![c] = @ + 1]
     ELSE Goto(c, "stopping") /\ UNCHANGED pos
  /\ UNCHANGED <<jobVars, next, result, threadVars, procVars, cancels, faults>>

\* _stop_downstream skips the pending nodes, one update each.
Downstream(n) == {m \in Nodes : m > n /\ nodes[m].status = "pending"}

StopDownstream(c) ==
  /\ at[c] = "stopping"
  /\ IF Downstream(pos[c]) = {}
     THEN Goto(c, "refreshing") /\ UNCHANGED nodes
     ELSE /\ \E m \in Downstream(pos[c]) :
               /\ \A k \in Downstream(pos[c]) : m <= k
               /\ nodes' = [nodes EXCEPT ![m].status = "skipped"]
          /\ UNCHANGED at
  /\ UNCHANGED <<run, claim, jobVars, view, pos, next, result, threadVars,
                 procVars, cancels, faults>>

\* advanced_run_status and the two exceptions of _refresh_run
Have(S) == \E n \in Nodes : nodes[n].status \in S

RunStatus ==
  IF Have({"pending", "running"}) THEN "running"
  ELSE IF Have({"cancelled"}) THEN "cancelled"
  ELSE IF Have({"partial"}) THEN "partial"
  ELSE IF Have({"failed"}) THEN IF Have({"completed"}) THEN "partial" ELSE "failed"
  ELSE IF Have({"skipped"}) /\ ~Have({"completed"}) THEN "skipped"
  ELSE "completed"

RefreshRun(c) ==
  /\ at[c] = "refreshing"
  /\ run' = RunStatus
  /\ Goto(c, "releasing")
  /\ UNCHANGED <<nodes, claim, jobVars, view, pos, next, result, threadVars,
                 procVars, cancels, faults>>

\* The call is over; the recovery's call lets the service start.
Leave(c) ==
  /\ Goto(c, "idle")
  /\ view' = [view EXCEPT ![c] = [n \in Nodes |-> NewNode]]
  /\ pos' = [pos EXCEPT ![c] = 1]
  /\ next' = [next EXCEPT ![c] = 1]
  /\ result' = [result EXCEPT ![c] = "completed"]
  /\ service' = IF c = Recoverer THEN "up" ELSE service
  /\ UNCHANGED <<run, nodes, jobVars, threadVars, requeued, crashes, cancels>>

\* the finally block
Release(c) ==
  /\ at[c] = "releasing"
  /\ claim' = IF claim = c THEN Nobody ELSE claim
  /\ Leave(c)
  /\ UNCHANGED faults

\* the call is inside _execute_node, whose exceptions are caught
InExecution(c) == \/ at[c] \in {"executing", "linking"}
                  \/ at[c] = "ending" /\ result[c] = "completed" /\ TargetsOf[pos[c]] = 0

\* A database error: while the node executes it is recorded as its failure,
\* elsewhere it leaves process_run through the finally block, and in the finally
\* block it leaves the claim behind.
Fault(c) ==
  /\ at[c] # "idle" /\ faults < MaxFaults
  /\ faults' = faults + 1
  /\ \/ /\ InExecution(c)
        /\ result' = [result EXCEPT ![c] = "failed"]
        /\ Goto(c, "ending")
        /\ UNCHANGED <<run, nodes, claim, jobVars, view, pos, next, threadVars,
                       procVars, cancels>>
     \/ /\ ~InExecution(c) /\ at[c] # "releasing"
        /\ Goto(c, "releasing")
        /\ UNCHANGED <<run, nodes, claim, jobVars, view, pos, next, result,
                       threadVars, procVars, cancels>>
     \/ /\ at[c] = "releasing"
        /\ Leave(c)
        /\ UNCHANGED claim

Process(c) ==
  \/ Load(c) \/ Decide(c) \/ NoMoreNodes(c) \/ StartNode(c) \/ CreateJob(c)
  \/ ExecuteRaises(c) \/ Executed(c) \/ LinkJobs(c) \/ EndNode(c)
  \/ StopDownstream(c) \/ RefreshRun(c) \/ Release(c)

-----------------------------------------------------------------------------
(* The executor and the cancelling requests, as in JobQueue. *)

Activate ==
  /\ service = "up"
  /\ \E promoted \in SUBSET Jobs :
       /\ promoted # {}
       /\ OldestInactive(jobs, promoted)
       /\ jobs' = Activated(jobs, promoted)
  /\ UNCHANGED <<runVars, link, callVars, threadVars, procVars, cancels, faults>>

\* The job is claimed and its thread reads the row.
Begin(j) ==
  /\ service = "up"
  /\ jobs[j].status = "queued" /\ thread[j] = "none"
  /\ jobs' = [jobs EXCEPT ![j].status = "running"]
  /\ snap' = [snap EXCEPT ![j] = [jobs[j] EXCEPT !.status = "running"]]
  /\ thread' = [thread EXCEPT ![j] = "starting"]
  /\ UNCHANGED <<runVars, link, callVars, asked, procVars, cancels, faults>>

Store(j, place) ==
  /\ jobs' = [jobs EXCEPT ![j] = Update(@, snap[j])]
  /\ snap' = [snap EXCEPT ![j] = NoRow]
  /\ thread' = [thread EXCEPT ![j] = place]
  /\ UNCHANGED <<runVars, link, callVars, asked, procVars, cancels, faults>>

Started(j) == thread[j] = "starting" /\ Store(j, "working")

\* The service returned or raised, or saw the request to cancel.
Finish(j) ==
  /\ thread[j] = "working"
  /\ \E copy \in {[jobs[j] EXCEPT !.status = "completed"], Failed(jobs[j])}
                   \cup IF jobs[j].cancel THEN {Cancelled(jobs[j])} ELSE {} :
       snap' = [snap EXCEPT ![j] = copy]
  /\ thread' = [thread EXCEPT ![j] = "finishing"]
  /\ UNCHANGED <<runVars, jobVars, callVars, asked, procVars, cancels, faults>>

Finished(j) == thread[j] = "finishing" /\ Store(j, "none")

CancelRead(j) ==
  /\ service = "up" /\ cancels < MaxCancels
  /\ jobs[j].status \in ActiveStatuses /\ asked[j] = NoRow
  /\ cancels' = cancels + 1
  /\ asked' = [asked EXCEPT ![j] = jobs[j]]
  /\ UNCHANGED <<runVars, jobVars, callVars, thread, snap, procVars, faults>>

CancelWrite(j) ==
  /\ asked[j] # NoRow
  /\ jobs' = [jobs EXCEPT ![j] = IF asked[j].status \in WaitingStatuses
                                 THEN Update(@, Cancelled(asked[j]))
                                 ELSE RequestCancel(@)]
  /\ asked' = [asked EXCEPT ![j] = NoRow]
  /\ UNCHANGED <<runVars, link, callVars, thread, snap, procVars, cancels, faults>>

Execute(j) == Started(j) \/ Finish(j) \/ Finished(j)

-----------------------------------------------------------------------------
(* The process. *)

Crash ==
  /\ service # "down" /\ crashes < MaxCrashes
  /\ crashes' = crashes + 1
  /\ service' = "down"
  /\ requeued' = FALSE
  /\ at' = [c \in Callers |-> "idle"]
  /\ view' = [c \in Callers |-> [n \in Nodes |-> NewNode]]
  /\ pos' = [c \in Callers |-> 1]
  /\ next' = [c \in Callers |-> 1]
  /\ result' = [c \in Callers |-> "completed"]
  /\ thread' = [j \in Jobs |-> "none"]
  /\ snap' = [j \in Jobs |-> NoRow]
  /\ asked' = [j \in Jobs |-> NoRow]
  /\ UNCHANGED <<runVars, jobVars, cancels, faults>>

\* recover_startup releases the claims of the dead process ...
ClaimAfterBootKept == claim
ClaimAfterBoot == Nobody

Boot ==
  /\ service = "down"
  /\ service' = "requeueing"
  /\ claim' = ClaimAfterBoot
  /\ UNCHANGED <<run, nodes, jobVars, callVars, threadVars, requeued, crashes,
                 cancels, faults>>

\* ... requeues the interrupted jobs of the nodes of a run that is running, and
\* only of those, and then has process_run called for it.
InterruptedOnlyReady ==
  {j \in Jobs : run = "running" /\ link[j] # NoLink /\ nodes[link[j].node].ready}
Interrupted == {j \in Jobs : run = "running" /\ link[j] # NoLink}

RequeueJobs ==
  /\ service = "requeueing"
  /\ jobs' = [j \in Jobs |-> IF j \in Interrupted THEN Requeue(jobs[j]) ELSE jobs[j]]
  /\ service' = IF run = "running" THEN "resuming" ELSE "up"
  /\ requeued' = TRUE
  /\ UNCHANGED <<runVars, link, callVars, threadVars, crashes, cancels, faults>>

\* An exception of the recovery is logged; the service starts all the same.
RecoveryFault ==
  /\ service \in {"down", "requeueing"} /\ faults < MaxFaults
  /\ faults' = faults + 1
  /\ service' = "up"
  /\ UNCHANGED <<runVars, jobVars, callVars, threadVars, requeued, crashes, cancels>>

-----------------------------------------------------------------------------
Next ==
  \/ CreateRun
  \/ \E c \in Callers : Call(c) \/ Process(c) \/ Fault(c)
  \/ Activate
  \/ \E j \in Jobs : Begin(j) \/ Execute(j) \/ CancelRead(j) \/ CancelWrite(j)
  \/ Crash \/ Boot \/ RequeueJobs \/ RecoveryFault

\* The polling loop calls again and again, a worker or a request only when it
\* has a reason to; calls and threads go on; the executor activates and claims
\* jobs; the service is started again and recovers.
Fairness ==
  /\ \A c \in Callers : WF_vars(Process(c))
  /\ WF_vars(Call(Poller)) /\ WF_vars(Call(Recoverer))
  /\ WF_vars(Activate)
  /\ \A j \in Jobs : WF_vars(Begin(j)) /\ WF_vars(Execute(j))
  /\ WF_vars(Boot) /\ WF_vars(RequeueJobs)

Spec == Init /\ [][Next]_vars
FairSpec == Spec /\ Fairness

-----------------------------------------------------------------------------
(* Properties. *)

TypeOK ==
  /\ run \in {"none", "running", "completed", "failed", "partial", "cancelled", "skipped"}
  /\ nodes \in [Nodes -> NodeRow]
  /\ claim \in Callers \cup {Nobody}
  /\ jobs \in [Jobs -> Row]
  /\ link \in [Jobs -> {NoLink} \cup [node : Nodes, target : Nat \ {0}]]
  /\ at \in [Callers -> Places]
  /\ view \in [Callers -> [Nodes -> NodeRow]]
  /\ pos \in [Callers -> 1..MaxNodes + 1]
  /\ next \in [Callers -> Nat \ {0}]
  /\ result \in [Callers -> NodeStatuses]
  /\ thread \in [Jobs -> {"none", "starting", "working", "finishing"}]
  /\ snap \in [Jobs -> Row] /\ asked \in [Jobs -> Row]
  /\ service \in {"down", "requeueing", "resuming", "up"}
  /\ requeued \in BOOLEAN
  /\ cancels \in 0..MaxCancels /\ faults \in 0..MaxFaults /\ crashes \in 0..MaxCrashes

\* However often the execution of a node is cut short and repeated, there is at
\* most one job for each of its targets: nothing is downloaded by two jobs.
OneJobPerTarget ==
  \A i, j \in Jobs : link[i] # NoLink /\ link[i] = link[j] => i = j

\* A node that counts as completed, or as partial, has waited for its jobs: they
\* are over and none of them is still being executed, whatever has been
\* cancelled meanwhile, so what the next nodes build on does not change.
ResultsAreFinal ==
  \A j \in Jobs : link[j] # NoLink /\ nodes[link[j].node].status \in {"completed", "partial"}
    => jobs[j].status \in TerminalStatuses /\ thread[j] = "none"

\* No job exists for a node before every node above it has completed.
JobsFollowPredecessors ==
  \A j \in Jobs : \A n \in Nodes : n < link[j].node => nodes[n].status = "completed"

\* After a recovery that did its work, a job marked running is being executed,
\* unless its node was given up while it existed: no job a node still waits for
\* is left behind by a crash.
NoJobLeftBehind ==
  service = "up" /\ requeued =>
    \A j \in Jobs : jobs[j].status = "running" =>
      thread[j] # "none" \/ nodes[link[j].node].status \in {"failed", "cancelled"}

\* The calls of process_run, whoever makes them and wherever they are cut off,
\* implement one pass over the nodes in their order.
Pipeline == INSTANCE WorkflowPipeline WITH
  node <- [n \in Nodes |-> nodes[n].status]

ImplementsPipeline == Pipeline!Spec

\* The jobs the runner waits for keep the life cycle JobQueue implements: no call,
\* stale cancellation, crash or recovery revives a job of the run that is over, or
\* has one executed twice at a time.
PhaseOf(j) ==
  IF thread[j] # "none" THEN "working"
  ELSE IF jobs[j].status = "absent" THEN "none"
  ELSE IF jobs[j].status \in TerminalStatuses THEN "over"
  ELSE "waiting"

Lifecycle == INSTANCE JobLifecycle WITH phase <- [j \in Jobs |-> PhaseOf(j)]

ImplementsLifecycle == Lifecycle!Spec

\* A run whose claim belongs to a call that has ended is owed to a database error:
\* every other way out of process_run gives the claim back, and so does the start
\* after a crash. Without this RunEnds could not hold.
ClaimIsUsed ==
  service # "down" /\ claim # Nobody /\ at[claim] = "idle" => faults > 0

\* A run that is not abandoned by a database error ends.
RunEnds == (run = "running") ~> (run \notin {"none", "running"})

\* docs/database.md: node runs that create jobs remain running until their
\* linked jobs become terminal.
NodeOutlivesJobs ==
  \A n \in Nodes : nodes[n].status \in {"completed"} \cup Unsuccessful =>
    Awaited(Linked(n)) = {}
=============================================================================
