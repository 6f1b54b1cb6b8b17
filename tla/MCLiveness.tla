----------------------------- MODULE MCLiveness -----------------------------
(***************************************************************************)
(* What must eventually happen in the queue, in a workflow run and to the  *)
(* claims of pages, each on its own: a behaviour is one of JobQueue,       *)
(* WorkflowRunner and FileClaims under the fairness of that module, the    *)
(* other two stay in their initial states.                                 *)
(***************************************************************************)
EXTENDS JobQueue

CONSTANTS MaxNodes, Callers, Poller, Recoverer, Nobody, MaxCancels, MaxCrashes,
          Pages, MaxArtworks, Workers, LegacyLatest, MaxStarts, NoPage,
          NoFaults   \* the runner and the claims meet no error, only crashes

VARIABLE part
VARIABLES run, nodes, claim, rJobs, link, rAt, view, pos, next, result, rThread, rSnap,
          asked, service, requeued, cancels, rFaults, rCrashes
VARIABLES status, claims, cursor, imported, up, cAt, work, todo, page, seen, quitting,
          starts, cFaults, cCrashes

\* a node without jobs between two with one; artworks of one page each
OneNoneOne == <<1, 0, 1>>
OnePageEach == [p \in Pages |-> p]

R == INSTANCE WorkflowRunner
       WITH TargetsOf <- OneNoneOne, MaxFaults <- NoFaults, jobs <- rJobs, at <- rAt,
            thread <- rThread, snap <- rSnap, faults <- rFaults, crashes <- rCrashes
C == INSTANCE FileClaims
       WITH ArtworkOf <- OnePageEach, MaxFaults <- NoFaults, at <- cAt,
            faults <- cFaults, crashes <- cCrashes

runnerVars == <<run, nodes, claim, rJobs, link, rAt, view, pos, next, result,
                rThread, rSnap, asked, service, requeued, cancels, rFaults, rCrashes>>
claimVars == <<status, claims, cursor, imported, up, cAt, work, todo, page, seen,
               quitting, starts, cFaults, cCrashes>>

LiveInit == /\ part \in {"queue", "runner", "claims"}
            /\ Init /\ R!Init /\ C!Init
            /\ part = "claims" \/ status = [p \in Pages |-> "remote_only"]

LiveNext ==
  \/ part = "queue" /\ Next /\ UNCHANGED <<part, runnerVars, claimVars>>
  \/ part = "runner" /\ R!Next /\ UNCHANGED <<part, vars, claimVars>>
  \/ part = "claims" /\ C!Next /\ UNCHANGED <<part, vars, runnerVars>>

\* Fairness of the three modules, for the one the behaviour is about.
QueueFairness ==
  /\ WF_vars(part = "queue" /\ Loop)
  /\ \A j \in Jobs : WF_vars(part = "queue" /\ Work(j))
  /\ \A c \in Clients : WF_vars(part = "queue" /\ CancelWrite(c))
  /\ WF_vars(part = "queue" /\ Boot)

RunnerFairness ==
  /\ \A c \in Callers : WF_runnerVars(part = "runner" /\ R!Process(c))
  /\ WF_runnerVars(part = "runner" /\ R!Call(Poller))
  /\ WF_runnerVars(part = "runner" /\ R!Call(Recoverer))
  /\ WF_runnerVars(part = "runner" /\ R!Activate)
  /\ \A j \in R!Jobs : /\ WF_runnerVars(part = "runner" /\ R!Begin(j))
                       /\ WF_runnerVars(part = "runner" /\ R!Execute(j))
  /\ WF_runnerVars(part = "runner" /\ R!Boot)
  /\ WF_runnerVars(part = "runner" /\ R!RequeueJobs)

ClaimFairness ==
  /\ \A w \in Workers : WF_claimVars(part = "claims" /\ C!Step(w))
  /\ WF_claimVars(part = "claims" /\ C!Boot)

LiveSpec == /\ LiveInit /\ [][LiveNext]_<<part, vars, runnerVars, claimVars>>
            /\ QueueFairness /\ RunnerFairness /\ ClaimFairness

-----------------------------------------------------------------------------
(* Properties of the two instances, named as in their modules. *)

\* A started run ends, whoever advances it and wherever the process crashes
\* (AdvancedWorkflowRunner.process_run, WorkflowRecoveryService).
RunEnds == part = "runner" => R!RunEnds

\* Every claim on a page is given back, by its worker or by the recovery after
\* a crash (ArtworkFileRepository.claim_download).
ClaimsAreReturned == part = "claims" => C!ClaimsAreReturned
=============================================================================
