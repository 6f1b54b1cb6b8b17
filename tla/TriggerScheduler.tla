-------------------------- MODULE TriggerScheduler --------------------------
(***************************************************************************)
(* Workflow triggers: the scan of WorkflowTriggerRunner, which dispatches  *)
(* due triggers and records the results of their runs                      *)
(* (WorkflowScheduleService), the requests that pause, resume, edit, run   *)
(* and delete triggers at the same time, the limit on active runs, and the *)
(* table workflow_scheduler_claim across errors and crashes.               *)
(*                                                                         *)
(* Every statement of a trigger writes the whole row, so the copy an actor *)
(* is going to write is part of the state.  Time is a counter; a schedule  *)
(* is the distance to its next time.  What happens inside a run is the     *)
(* subject of WorkflowRunner: here a run is running until it ends.         *)
(***************************************************************************)
EXTENDS Integers, FiniteSets

CONSTANTS
  MaxTriggers,  \* bound: triggers, numbered by their id
  MaxRuns,      \* bound: runs, numbered in the order of created_at
  Clients,      \* concurrent requests
  PeriodOf,     \* [Triggers -> Nat]: the schedule of each trigger
  OnStartup,    \* triggers with run_after_startup
  MaxActive,    \* setting max_active_workflow_triggers
  MaxTime,      \* bound: ticks of the clock
  MaxEdits,     \* bound: requests
  MaxFaults,    \* bound: errors
  MaxCrashes    \* bound: crashes

Triggers == 1..MaxTriggers
Runs     == 1..MaxRuns

ASSUME TriggerSchedulerAssumption ==
  /\ MaxTriggers \in Nat /\ MaxRuns \in Nat
  /\ PeriodOf \in [Triggers -> Nat \ {0}]
  /\ OnStartup \subseteq Triggers
  /\ MaxActive \in Nat \ {0}
  /\ MaxTime \in Nat /\ MaxEdits \in Nat /\ MaxFaults \in Nat /\ MaxCrashes \in Nat

VARIABLES
  clock,     \* utc_now
  triggers,  \* workflow_triggers
  runs,      \* workflow_runs
  claimed,   \* workflow_scheduler_claim
  scan,      \* where the scan is
  now,       \* the time it began
  todo,      \* triggers it has listed and not yet dealt with
  copy,      \* the rows it has listed
  chosen,    \* the trigger it dispatches
  failed,    \* the dispatch raised
  raised,    \* the scan raised
  startup,   \* WorkflowTriggerRunner._startup_scan
  request,   \* what each request is about to do, with the row it has read
  up,        \* the process runs
  edits, faults, crashes   \* history

scanVars == <<claimed, scan, now, todo, copy, chosen, failed, raised, startup>>
histVars == <<edits, faults, crashes>>
vars == <<clock, triggers, runs, scanVars, request, up, histVars>>

Never == -1
Times == Nat \cup {Never}

Errors == {"none", "dispatch", "result", "disk"}

\* status "deleted" is a row that is gone; inactive and archived are like paused
Trigger ==
  {row \in [status : {"active", "paused", "blocked", "deleted"}, next : Times,
            last : Times, success : Times, error : Errors] :
     row.status \in {"paused", "blocked"} => row.next = Never}

\* slot: history, the time a scheduled run was due, Never for the others
Run == [trigger : Triggers \cup {0}, by : {"scheduler", "request"}, slot : Times,
        status : {"absent", "running", "completed", "failed"},
        created : Nat, finished : Times]

NoRun == [trigger |-> 0, by |-> "request", slot |-> Never, status |-> "absent",
          created |-> 0, finished |-> Never]

NewTrigger(t) == [status |-> "active", next |-> PeriodOf[t], last |-> Never,
                  success |-> Never, error |-> "none"]

NoTrigger == [status |-> "deleted", next |-> Never, last |-> Never,
              success |-> Never, error |-> "none"]

NoRequest == [kind |-> "none", trigger |-> 0, row |-> NoTrigger]

Init == /\ clock = 0
        /\ triggers = [t \in Triggers |-> NewTrigger(t)]
        /\ runs = [r \in Runs |-> NoRun]
        /\ claimed = FALSE /\ scan = "idle" /\ now = 0 /\ todo = {}
        /\ copy = [t \in Triggers |-> NoTrigger] /\ chosen = 0
        /\ failed = FALSE /\ raised = FALSE /\ startup = TRUE
        /\ request = [c \in Clients |-> NoRequest]
        /\ up = TRUE
        /\ edits = 0 /\ faults = 0 /\ crashes = 0

-----------------------------------------------------------------------------
(* Rows. *)

\* UPDATE ... WHERE id: a trigger that has been deleted does not come back
Written(t, row) ==
  [triggers EXCEPT ![t] = IF @.status = "deleted" THEN @ ELSE row]

RunningOf(t) == {r \in Runs : runs[r].trigger = t /\ runs[r].status = "running"}

ActiveRuns == {r \in Runs : runs[r].status = "running"}

Existing == {r \in Runs : runs[r].status # "absent"}

\* create_run inserts the next run, which may be over when it returns
Created(t, by, slot, status) ==
  \E r \in Runs :
    /\ runs[r].status = "absent" /\ \A s \in Runs \ Existing : r <= s
    /\ runs' = [runs EXCEPT ![r] =
         [trigger |-> t, by |-> by, slot |-> slot, status |-> status,
          created |-> clock, finished |-> IF status = "running" THEN Never ELSE clock]]

-----------------------------------------------------------------------------
(* The scan. *)

\* the scan lists the rows of S, or keeps only those it has of S
List(S) == /\ todo' = S
           /\ copy' = [t \in Triggers |-> IF t \in S THEN triggers[t] ELSE NoTrigger]
Keep(S) == /\ todo' = S
           /\ copy' = [t \in Triggers |-> IF t \in S THEN copy[t] ELSE NoTrigger]

\* INSERT OR IGNORE; a scan that finds the claim taken is over.
BeginScan ==
  /\ up /\ scan = "idle"
  /\ IF claimed
     THEN startup' = FALSE /\ UNCHANGED <<claimed, scan, now>>
     ELSE claimed' = TRUE /\ scan' = "listing results" /\ now' = clock /\ UNCHANGED startup
  /\ UNCHANGED <<clock, triggers, runs, todo, copy, chosen, failed, raised,
                 request, up, histVars>>

\* _reconcile_results lists all triggers ...
ListResults ==
  /\ scan \in {"listing results", "listing results again"}
  /\ List({t \in Triggers : triggers[t].status # "deleted"})
  /\ scan' = IF scan = "listing results" THEN "reconciling" ELSE "reconciling again"
  /\ UNCHANGED <<clock, triggers, runs, claimed, now, chosen, failed, raised,
                 startup, request, up, histVars>>

\* ... and looks at the latest run of each: one that is over, and not older
\* than the last dispatch, is recorded.
LatestOf(t) == {r \in Runs : /\ runs[r].trigger = t
                             /\ \A s \in Runs : runs[s].trigger = t => s <= r}

IsCurrentAlways(row, run) == run.created >= 0
IsCurrent(row, run) == row.last <= run.created

WithResultAlways(row, run) == [row EXCEPT !.success = run.created, !.error = "none"]
WithResult(row, run) ==
  IF run.status = "completed"
  THEN [row EXCEPT !.success = run.finished, !.error = "none"]
  ELSE [row EXCEPT !.error = "result"]

Reconcile(t) ==
  /\ scan \in {"reconciling", "reconciling again"} /\ t \in todo
  /\ Keep(todo \ {t})
  /\ \/ \E r \in LatestOf(t) :
          /\ runs[r].status # "running" /\ IsCurrent(copy[t], runs[r])
          /\ LET row == WithResult(copy[t], runs[r])
             IN triggers' = IF row = copy[t] THEN triggers ELSE Written(t, row)
     \/ /\ ~\E r \in LatestOf(t) :
              runs[r].status # "running" /\ IsCurrent(copy[t], runs[r])
        /\ UNCHANGED triggers
  /\ UNCHANGED <<clock, runs, claimed, scan, now, chosen, failed, raised,
                 startup, request, up, histVars>>

Reconciled ==
  /\ scan \in {"reconciling", "reconciling again"} /\ todo = {}
  /\ scan' = IF scan = "reconciling" THEN "listing due" ELSE "releasing"
  /\ UNCHANGED <<clock, triggers, runs, claimed, now, todo, copy, chosen, failed,
                 raised, startup, request, up, histVars>>

\* due_triggers, and at the first scan the triggers to run after startup
IsDue(row) == row.status = "active" /\ row.next # Never /\ row.next <= now

ListDue ==
  /\ scan = "listing due"
  /\ List({t \in Triggers :
             \/ IsDue(triggers[t])
             \/ startup /\ t \in OnStartup /\ triggers[t].status = "active"})
  /\ scan' = "checking"
  /\ UNCHANGED <<clock, triggers, runs, claimed, now, chosen, failed, raised,
                 startup, request, up, histVars>>

\* in the order of next_run_at and id, those that are not due last
IsFirst(t) ==
  /\ t \in todo
  /\ \A u \in todo : IsDue(copy[u]) =>
       /\ IsDue(copy[t])
       /\ copy[t].next < copy[u].next \/ (copy[t].next = copy[u].next /\ t <= u)

BelowLimitOffByOne == Cardinality(ActiveRuns) <= MaxActive
BelowLimit == Cardinality(ActiveRuns) < MaxActive

BusyNever(t) == t \notin Triggers
Busy(t) == RunningOf(t) # {}

\* The active runs are counted for every trigger; at the limit the loop ends.
Check ==
  /\ scan = "checking"
  /\ \/ /\ todo = {} \/ ~BelowLimit
        /\ Keep({}) /\ scan' = "listing results again"
        /\ UNCHANGED chosen
     \/ /\ BelowLimit
        /\ \E t \in Triggers :
             /\ IsFirst(t)
             /\ IF Busy(t)
                THEN Keep(todo \ {t}) /\ UNCHANGED <<scan, chosen>>
                ELSE chosen' = t /\ scan' = "dispatching" /\ UNCHANGED <<todo, copy>>
  /\ UNCHANGED <<clock, triggers, runs, claimed, now, failed, raised,
                 startup, request, up, histVars>>

Slot(t) == IF IsDue(copy[t]) THEN copy[t].next ELSE Never

\* run_definition; it may raise, before or after the run is committed.
Dispatch ==
  /\ scan = "dispatching"
  /\ scan' = "recording"
  /\ \/ /\ \E status \in {"running", "completed"} :
             Created(chosen, "scheduler", Slot(chosen), status)
        /\ failed' = FALSE
        /\ UNCHANGED faults
     \/ /\ faults < MaxFaults /\ faults' = faults + 1
        /\ failed' = TRUE
        /\ UNCHANGED runs \/ Created(chosen, "scheduler", Slot(chosen), "running")
  /\ UNCHANGED <<clock, triggers, claimed, now, todo, copy, chosen, raised,
                 startup, request, up, edits, crashes>>

DispatchedAgain(row, t) ==
  [row EXCEPT !.last = now, !.error = IF failed THEN "dispatch" ELSE "none"]
Dispatched(row, t) ==
  [row EXCEPT !.next = now + PeriodOf[t], !.last = now,
              !.error = IF failed THEN "dispatch" ELSE "none"]

Record ==
  /\ scan = "recording"
  /\ triggers' = Written(chosen, Dispatched(copy[chosen], chosen))
  /\ Keep(todo \ {chosen})
  /\ chosen' = 0 /\ failed' = FALSE
  /\ scan' = "checking"
  /\ UNCHANGED <<clock, runs, claimed, now, raised, startup, request, up, histVars>>

ScanOver ==
  /\ scan' = "idle" /\ now' = 0 /\ Keep({})
  /\ chosen' = 0 /\ failed' = FALSE /\ raised' = FALSE
  /\ UNCHANGED <<clock, triggers, runs, request, up, edits, crashes>>

\* the finally block; the scans after a startup scan are ordinary ones
Release ==
  /\ scan = "releasing"
  /\ claimed' = FALSE
  /\ startup' = (startup /\ raised)
  /\ ScanOver
  /\ UNCHANGED faults

\* A database error leaves the scan through the finally block; in it, the claim
\* stays.  The runner logs it and scans again later.
ScanFault ==
  /\ scan # "idle" /\ faults < MaxFaults
  /\ faults' = faults + 1
  /\ IF scan = "releasing"
     THEN ScanOver
     ELSE /\ scan' = "releasing" /\ raised' = TRUE
          /\ Keep({}) /\ chosen' = 0 /\ failed' = FALSE
          /\ UNCHANGED <<clock, triggers, runs, now, request, up, edits, crashes>>
  /\ UNCHANGED <<claimed, startup>>

Scan == \/ ListResults \/ (\E t \in Triggers : Reconcile(t)) \/ Reconciled
        \/ ListDue \/ Check \/ Dispatch \/ Record \/ Release

-----------------------------------------------------------------------------
(* Requests. *)

Ask(c, kind, t, row) ==
  request' = [request EXCEPT ![c] = [kind |-> kind, trigger |-> t, row |-> row]]

CanAsk(c, t) == /\ up /\ request[c] = NoRequest /\ edits < MaxEdits
                /\ triggers[t].status # "deleted"

Resumed(t, row) ==
  [row EXCEPT !.status = "active", !.next = clock + PeriodOf[t], !.error = "none"]
PausedStillDue(row) == [row EXCEPT !.status = "paused"]
Paused(row) == [row EXCEPT !.status = "paused", !.next = Never]

\* update_trigger_status and save_with_trigger resume or pause; update_trigger
\* keeps the next time of a trigger that stays active.
EditRead(c, t) ==
  /\ CanAsk(c, t)
  /\ edits' = edits + 1
  /\ \/ Ask(c, "write", t, Resumed(t, triggers[t]))
     \/ Ask(c, "write", t, Paused(triggers[t]))
     \/ /\ triggers[t].status = "active"
        /\ Ask(c, "write", t, [triggers[t] EXCEPT !.error = "none"])
  /\ UNCHANGED <<clock, triggers, runs, scanVars, up, faults, crashes>>

\* run_trigger reads the row; without disk space the trigger is blocked.
ManualRead(c, t) ==
  /\ CanAsk(c, t)
  /\ edits' = edits + 1
  /\ \/ Ask(c, "run", t, triggers[t])
     \/ Ask(c, "write", t, [triggers[t] EXCEPT !.status = "blocked", !.next = Never,
                                               !.last = clock, !.error = "disk"])
  /\ UNCHANGED <<clock, triggers, runs, scanVars, up, faults, crashes>>

\* A manual run is not held up by the limit or by other runs of the trigger.
ManualRun(c) ==
  /\ request[c].kind = "run"
  /\ \E status \in {"running", "completed"} :
       /\ Created(request[c].trigger, "request", Never, status)
       /\ Ask(c, "write", request[c].trigger,
              [request[c].row EXCEPT !.last = clock, !.error = "none",
                 !.success = IF status = "completed" THEN clock ELSE @])
  /\ UNCHANGED <<clock, triggers, scanVars, up, histVars>>

RequestWrite(c) ==
  /\ request[c].kind = "write"
  /\ triggers' = Written(request[c].trigger, request[c].row)
  /\ request' = [request EXCEPT ![c] = NoRequest]
  /\ UNCHANGED <<clock, runs, scanVars, up, histVars>>

\* A request that fails writes nothing more.
RequestFault(c) ==
  /\ request[c] # NoRequest /\ faults < MaxFaults
  /\ faults' = faults + 1
  /\ request' = [request EXCEPT ![c] = NoRequest]
  /\ UNCHANGED <<clock, triggers, runs, scanVars, up, edits, crashes>>

Delete(t) ==
  /\ up /\ edits < MaxEdits /\ triggers[t].status # "deleted"
  /\ edits' = edits + 1
  /\ triggers' = [triggers EXCEPT ![t].status = "deleted"]
  /\ UNCHANGED <<clock, runs, scanVars, request, up, faults, crashes>>

-----------------------------------------------------------------------------
(* Runs, the clock and the process. *)

EndRun(r) ==
  /\ up /\ runs[r].status = "running"
  /\ \E status \in {"completed", "failed"} :
       runs' = [runs EXCEPT ![r].status = status, ![r].finished = clock]
  /\ UNCHANGED <<clock, triggers, scanVars, request, up, histVars>>

Tick ==
  /\ clock < MaxTime
  /\ clock' = clock + 1
  /\ UNCHANGED <<triggers, runs, scanVars, request, up, histVars>>

Crash ==
  /\ up /\ crashes < MaxCrashes
  /\ crashes' = crashes + 1
  /\ up' = FALSE
  /\ scan' = "idle" /\ now' = 0 /\ Keep({}) /\ chosen' = 0 /\ failed' = FALSE
  /\ raised' = FALSE /\ startup' = TRUE
  /\ request' = [c \in Clients |-> NoRequest]
  /\ UNCHANGED <<clock, triggers, runs, claimed, edits, faults>>

\* recover_startup releases the claim of the dead process
ClaimAfterBootKept == claimed
ClaimAfterBoot == FALSE

Boot ==
  /\ ~up
  /\ up' = TRUE
  /\ claimed' = ClaimAfterBoot
  /\ UNCHANGED <<clock, triggers, runs, scan, now, todo, copy, chosen, failed,
                 raised, startup, request, histVars>>

\* Its exception is logged, and the service starts all the same.
RecoveryFault ==
  /\ ~up /\ faults < MaxFaults
  /\ faults' = faults + 1
  /\ up' = TRUE
  /\ UNCHANGED <<clock, triggers, runs, scanVars, request, edits, crashes>>

-----------------------------------------------------------------------------
Next ==
  \/ BeginScan \/ Scan \/ ScanFault
  \/ \E c \in Clients, t \in Triggers : EditRead(c, t) \/ ManualRead(c, t)
  \/ \E c \in Clients : ManualRun(c) \/ RequestWrite(c) \/ RequestFault(c)
  \/ \E t \in Triggers : Delete(t)
  \/ \E r \in Runs : EndRun(r)
  \/ Tick \/ Crash \/ Boot \/ RecoveryFault

\* The runner polls for ever and its scans go on, a run ends (RunEnds of
\* WorkflowRunner), and the service is started again.
Fairness == /\ WF_vars(BeginScan) /\ WF_vars(Scan)
            /\ \A r \in Runs : WF_vars(EndRun(r))
            /\ WF_vars(Boot)

Spec == Init /\ [][Next]_vars
FairSpec == Spec /\ Fairness

-----------------------------------------------------------------------------
(* Properties. *)

Places == {"idle", "listing results", "reconciling", "listing due", "checking",
           "dispatching", "recording", "listing results again",
           "reconciling again", "releasing"}

TypeOK ==
  /\ clock \in 0..MaxTime
  /\ triggers \in [Triggers -> Trigger]
  /\ runs \in [Runs -> Run]
  /\ claimed \in BOOLEAN
  /\ scan \in Places
  /\ scan # "idle" => claimed
  /\ now \in 0..MaxTime
  /\ todo \in SUBSET Triggers
  /\ copy \in [Triggers -> Trigger]
  /\ chosen \in Triggers \cup {0}
  /\ chosen = 0 => scan \notin {"dispatching", "recording"}
  /\ failed \in BOOLEAN /\ raised \in BOOLEAN /\ startup \in BOOLEAN
  /\ request \in [Clients -> [kind : {"none", "run", "write"},
                              trigger : Triggers \cup {0}, row : Trigger]]
  /\ up \in BOOLEAN
  /\ edits \in 0..MaxEdits /\ faults \in 0..MaxFaults /\ crashes \in 0..MaxCrashes

Scheduled(S) == {r \in S : runs[r].by = "scheduler"}

\* The runs the scheduler has started never exceed the limit, whatever requests
\* start, crashes leave running and stale rows make due again.
ScheduledWithinLimit == Cardinality(Scheduled(ActiveRuns)) <= MaxActive

\* The scheduler never runs a trigger twice at the same time.
NoScheduledOverlap ==
  \A t \in Triggers : \A r, s \in Scheduled(RunningOf(t)) : r = s

\* One due time is dispatched once: every repetition is owed to a crash, an
\* error or a request that cut in between the run and the record of it.
RepeatsAreExplained ==
  \A r \in Runs : runs[r].slot # Never =>
    Cardinality({s \in Runs : runs[s].trigger = runs[r].trigger
                              /\ runs[s].slot = runs[r].slot})
      <= 1 + crashes + faults + edits

\* A success a trigger shows is that of a run of it that completed then.
SuccessIsEarned ==
  \A t \in Triggers : triggers[t].success # Never =>
    \E r \in Runs : /\ runs[r].trigger = t
                    /\ runs[r].status = "completed"
                    /\ runs[r].finished = triggers[t].success

\* The reconciliation erases a dispatch failure that is newer than every run.
FailureErased(t) ==
  /\ scan \in {"reconciling", "reconciling again"}
  /\ triggers[t].error = "dispatch" /\ triggers'[t].error # "dispatch"
  /\ request' = request
  /\ \A r \in Runs : runs[r].trigger = t => runs[r].created < triggers[t].last

\* _reconcile_results: an older success must not erase a newer dispatch failure.
\* It compares the run with the row the scan has listed and writes that row back.
\* One request cannot deceive it; two can, when one puts an older row in place
\* before the listing and another the newer one after it.
FailureIsKept == [][\A t \in Triggers : edits < 2 => ~FailureErased(t)]_vars

\* A scheduler claim without a scan, which keeps all later scans from their work,
\* is owed to a database error; a crash does not leave one behind its restart.
ClaimIsScanning == up /\ claimed /\ scan = "idle" => faults > 0

\* A trigger that is due is dispatched, or edited, in the end: the limit, its
\* own running runs, crashes and abandoned claims only delay it.
Due(t) == /\ triggers[t].status = "active"
          /\ triggers[t].next # Never /\ triggers[t].next <= clock

DueIsServed == \A t \in Triggers : Due(t) ~> ~Due(t)

\* docs/verification.md: a trigger can be paused and resumed; one that is paused
\* does not become active without a request.
PauseHolds ==
  [][\A t \in Triggers : triggers[t].status = "paused" /\ triggers'[t].status = "active"
       => request' # request]_vars

\* docs/configuration.md: automatic dispatch does not overlap the same trigger's
\* unfinished run.
DispatchDoesNotOverlap ==
  [][\A r \in Runs :
       /\ runs[r].status = "absent" /\ runs'[r].status # "absent"
       /\ runs'[r].by = "scheduler"
       => RunningOf(runs'[r].trigger) = {}]_vars
=============================================================================
