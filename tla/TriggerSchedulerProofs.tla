----------------------- MODULE TriggerSchedulerProofs -----------------------
(* Theorems about TriggerScheduler, for any number of triggers, runs and    *)
(* requests, any schedules, limit and bounds.                               *)
EXTENDS TriggerScheduler, FiniteSetTheorems, TLAPS

-----------------------------------------------------------------------------
(* Type correctness. *)

\* The scan runs only while the process does; what it is about to dispatch is
\* one of the rows it has listed, and these are active.
ScanOK ==
  /\ ~up => scan = "idle"
  /\ scan \in {"checking", "dispatching", "recording"} =>
       \A t \in todo : copy[t].status = "active"
  /\ scan \in {"dispatching", "recording"} => chosen \in todo

TypeInv == TypeOK /\ ScanOK

\* The bounds contain zero.
LEMMA Zeros ==
  /\ 0 \in 0..MaxTime /\ 0 \in 0..MaxEdits /\ 0 \in 0..MaxFaults /\ 0 \in 0..MaxCrashes
  BY TriggerSchedulerAssumption

\* The rows that stand for nothing, and the row of a new trigger, are rows.
LEMMA InitialRows ==
  /\ NoTrigger \in Trigger
  /\ NoRun \in Run
  /\ \A t \in Triggers : NewTrigger(t) \in Trigger
  /\ NoRequest \in [kind : {"none", "run", "write"}, trigger : Triggers \cup {0}, row : Trigger]
<1>1. \A t \in Triggers : PeriodOf[t] \in Nat
  BY TriggerSchedulerAssumption
<1>2. NoTrigger \in Trigger
  BY DEF NoTrigger, Trigger, Times, Never, Errors
<1>3. NoRun \in Run
  BY DEF NoRun, Run, Times, Never
<1>4. \A t \in Triggers : NewTrigger(t) \in Trigger
  BY <1>1 DEF NewTrigger, Trigger, Times, Never, Errors
<1> QED BY <1>2, <1>3, <1>4 DEF NoRequest

LEMMA TypeInit == Init => TypeInv
<1> SUFFICES ASSUME Init PROVE TypeInv
  OBVIOUS
<1>1. triggers \in [Triggers -> Trigger] /\ copy \in [Triggers -> Trigger]
  BY InitialRows DEF Init
<1>2. /\ runs \in [Runs -> Run]
      /\ request \in [Clients -> [kind : {"none", "run", "write"},
                                  trigger : Triggers \cup {0}, row : Trigger]]
  BY InitialRows DEF Init
<1> QED
  BY <1>1, <1>2, Zeros DEF Init, TypeInv, TypeOK, ScanOK, Places

\* Statements on the trigger table write rows.
LEMMA WrittenType ==
  ASSUME triggers \in [Triggers -> Trigger], NEW t, NEW row \in Trigger
  PROVE  Written(t, row) \in [Triggers -> Trigger]
  BY DEF Written

\* The scan's memory consists of rows.
LEMMA MemoryType ==
  ASSUME TypeInv, NEW S \in SUBSET Triggers, List(S) \/ Keep(S)
  PROVE  todo' \in SUBSET Triggers /\ copy' \in [Triggers -> Trigger]
  BY InitialRows DEF List, Keep, TypeInv, TypeOK

\* A run that is inserted is a run.
LEMMA CreatedType ==
  ASSUME TypeInv, NEW t \in Triggers \cup {0}, NEW by \in {"scheduler", "request"},
         NEW slot \in Times, NEW status \in {"running", "completed"},
         Created(t, by, slot, status)
  PROVE  runs' \in [Runs -> Run]
<1>1. clock \in Nat
  BY TriggerSchedulerAssumption DEF TypeInv, TypeOK
<1>2. PICK r \in Runs : runs' = [runs EXCEPT ![r] =
         [trigger |-> t, by |-> by, slot |-> slot, status |-> status,
          created |-> clock, finished |-> IF status = "running" THEN Never ELSE clock]]
  BY DEF Created
<1>3. [trigger |-> t, by |-> by, slot |-> slot, status |-> status,
       created |-> clock, finished |-> IF status = "running" THEN Never ELSE clock] \in Run
  BY <1>1 DEF Run, Times, Never
<1> QED BY <1>2, <1>3 DEF TypeInv, TypeOK

\* What the actors write are rows.
LEMMA RowOperators ==
  ASSUME NEW row \in Trigger, clock \in Nat, now \in Nat
  PROVE  /\ \A run \in Run : WithResult(row, run) \in Trigger
         /\ \A t \in Triggers : row.status = "active" => Dispatched(row, t) \in Trigger
         /\ \A t \in Triggers : Resumed(t, row) \in Trigger
         /\ Paused(row) \in Trigger
<1>1. \A t \in Triggers : PeriodOf[t] \in Nat
  BY TriggerSchedulerAssumption
<1>2. ASSUME NEW run \in Run PROVE WithResult(row, run) \in Trigger
  BY DEF WithResult, Trigger, Run, Errors
<1>3. ASSUME NEW t \in Triggers, row.status = "active" PROVE Dispatched(row, t) \in Trigger
  <2>1. now + PeriodOf[t] \in Times
    BY <1>1 DEF Times
  <2> QED BY <1>3, <2>1 DEF Dispatched, Trigger, Times, Errors
<1>4. ASSUME NEW t \in Triggers PROVE Resumed(t, row) \in Trigger
  <2>1. clock + PeriodOf[t] \in Times
    BY <1>1 DEF Times
  <2> QED BY <2>1 DEF Resumed, Trigger, Errors
<1>5. Paused(row) \in Trigger
  BY DEF Paused, Trigger, Times
<1> QED BY <1>2, <1>3, <1>4, <1>5

\* Every action on the scan that writes nothing else keeps its types.
LEMMA ScanType == TypeInv /\ Scan => TypeInv'
<1> SUFFICES ASSUME TypeInv, Scan PROVE TypeInv'
  OBVIOUS
<1> USE DEF TypeInv, TypeOK, ScanOK, histVars
<1>0. clock \in Nat /\ now \in Nat
  BY TriggerSchedulerAssumption
<1>1. CASE ListResults
  <2>1. todo' \in SUBSET Triggers /\ copy' \in [Triggers -> Trigger]
    <3>1. List({t \in Triggers : triggers[t].status # "deleted"})
      BY <1>1 DEF ListResults
    <3> QED BY <3>1, MemoryType
  <2> QED BY <1>1, <2>1 DEF ListResults, Places
<1>2. ASSUME NEW t \in Triggers, Reconcile(t) PROVE TypeInv'
  <2>1. todo' \in SUBSET Triggers /\ copy' \in [Triggers -> Trigger]
    <3>1. Keep(todo \ {t})
      BY <1>2 DEF Reconcile
    <3> QED BY <3>1, MemoryType
  <2>2. \A r \in Runs : Written(t, WithResult(copy[t], runs[r])) \in [Triggers -> Trigger]
    BY <1>0, RowOperators, WrittenType
  <2>3. triggers' \in [Triggers -> Trigger]
    BY <1>2, <2>2 DEF Reconcile, LatestOf
  <2> QED BY <1>2, <2>1, <2>3 DEF Reconcile
<1>3. CASE Reconciled
  BY <1>3 DEF Reconciled, Places
<1>4. CASE ListDue
  <2> DEFINE S == {t \in Triggers : \/ IsDue(triggers[t])
                                    \/ startup /\ t \in OnStartup
                                               /\ triggers[t].status = "active"}
  <2>1. List(S) /\ S \in SUBSET Triggers
    BY <1>4 DEF ListDue
  <2>2. todo' \in SUBSET Triggers /\ copy' \in [Triggers -> Trigger]
    BY <2>1, MemoryType
  <2>3. \A t \in todo' : copy'[t].status = "active"
    BY <2>1 DEF List, IsDue
  <2> QED BY <1>4, <2>2, <2>3 DEF ListDue, Places
<1>5. CASE Check
  <2>1. CASE Keep({}) /\ scan' = "listing results again" /\ UNCHANGED chosen
    <3>1. todo' \in SUBSET Triggers /\ copy' \in [Triggers -> Trigger]
      <4>1. Keep({})
        BY <2>1
      <4> QED BY <4>1, MemoryType
    <3> QED BY <1>5, <2>1, <3>1 DEF Check, Places, Keep
  <2>2. ASSUME NEW t \in Triggers, IsFirst(t), Busy(t), Keep(todo \ {t}), UNCHANGED <<scan, chosen>>
        PROVE  TypeInv'
    <3>1. todo' \in SUBSET Triggers /\ copy' \in [Triggers -> Trigger]
      BY <2>2, MemoryType
    <3>2. \A u \in todo' : copy'[u].status = "active"
      BY <1>5, <2>2 DEF Keep, Check
    <3> QED BY <1>5, <2>2, <3>1, <3>2 DEF Check
  <2>3. ASSUME NEW t \in Triggers, IsFirst(t), chosen' = t, scan' = "dispatching",
               UNCHANGED <<todo, copy>>
        PROVE  TypeInv'
    BY <1>5, <2>3, TriggerSchedulerAssumption DEF Check, IsFirst, Places, Triggers
  <2> QED BY <1>5, <2>1, <2>2, <2>3 DEF Check
<1>6. CASE Dispatch
  <2>1. chosen \in Triggers /\ Slot(chosen) \in Times
    BY <1>6 DEF Dispatch, Slot, IsDue, Trigger, Times
  <2>2. faults' \in 0..MaxFaults
    BY <1>6, TriggerSchedulerAssumption DEF Dispatch
  <2>3. runs' \in [Runs -> Run]
    BY <1>6, <2>1, CreatedType DEF Dispatch
  <2> QED BY <1>6, <2>1, <2>2, <2>3 DEF Dispatch, Places
<1>7. CASE Record
  <2>1. chosen \in Triggers /\ copy[chosen] \in Trigger /\ copy[chosen].status = "active"
    BY <1>7 DEF Record
  <2>2. triggers' \in [Triggers -> Trigger]
    BY <1>0, <1>7, <2>1, RowOperators, WrittenType DEF Record
  <2>3. todo' \in SUBSET Triggers /\ copy' \in [Triggers -> Trigger]
    BY <1>7, MemoryType DEF Record
  <2>4. \A u \in todo' : copy'[u].status = "active"
    BY <1>7 DEF Record, Keep
  <2> QED BY <1>7, <2>2, <2>3, <2>4 DEF Record, Places
<1>8. CASE Release
  <2>1. todo' \in SUBSET Triggers /\ copy' \in [Triggers -> Trigger]
    BY <1>8, MemoryType DEF Release, ScanOver
  <2> QED BY <1>8, <2>1, Zeros DEF Release, ScanOver, Places
<1> QED BY <1>1, <1>2, <1>3, <1>4, <1>5, <1>6, <1>7, <1>8 DEF Scan

LEMMA TypeNext == TypeInv /\ [Next]_vars => TypeInv'
<1> SUFFICES ASSUME TypeInv, [Next]_vars PROVE TypeInv'
  OBVIOUS
<1> USE DEF TypeInv, TypeOK, ScanOK, histVars, scanVars
<1>0. clock \in Nat /\ now \in Nat
  BY TriggerSchedulerAssumption
<1>1. CASE BeginScan
  BY <1>1 DEF BeginScan, Places
<1>2. CASE Scan
  BY <1>2, ScanType
<1>3. CASE ScanFault
  <2>1. faults' \in 0..MaxFaults
    BY <1>3, TriggerSchedulerAssumption DEF ScanFault
  <2>2. Keep({})
    BY <1>3 DEF ScanFault, ScanOver
  <2>3. todo' \in SUBSET Triggers /\ copy' \in [Triggers -> Trigger]
    BY <2>2, MemoryType
  <2> QED BY <1>3, <2>1, <2>3, Zeros DEF ScanFault, ScanOver, Places
<1>4. ASSUME NEW c \in Clients, NEW t \in Triggers, EditRead(c, t) PROVE TypeInv'
  <2>1. edits' \in 0..MaxEdits
    BY <1>4, TriggerSchedulerAssumption DEF EditRead, CanAsk
  <2>2. PICK row \in Trigger : Ask(c, "write", t, row)
    <3>1. Resumed(t, triggers[t]) \in Trigger /\ Paused(triggers[t]) \in Trigger
      BY <1>0, RowOperators
    <3>2. triggers[t].status = "active" => [triggers[t] EXCEPT !.error = "none"] \in Trigger
      BY DEF Trigger, Errors
    <3> QED BY <1>4, <3>1, <3>2 DEF EditRead
  <2> QED BY <1>4, <2>1, <2>2 DEF EditRead, Ask
<1>5. ASSUME NEW c \in Clients, NEW t \in Triggers, ManualRead(c, t) PROVE TypeInv'
  <2>1. edits' \in 0..MaxEdits
    BY <1>5, TriggerSchedulerAssumption DEF ManualRead, CanAsk
  <2>2. [triggers[t] EXCEPT !.status = "blocked", !.next = Never,
                            !.last = clock, !.error = "disk"] \in Trigger
    <3>1. triggers[t] \in Trigger
      OBVIOUS
    <3> QED BY <1>0, <3>1 DEF Trigger, Errors, Times, Never
  <2>3. PICK row \in Trigger, kind \in {"run", "write"} : Ask(c, kind, t, row)
    BY <1>5, <2>2 DEF ManualRead
  <2> QED BY <1>5, <2>1, <2>3 DEF ManualRead, Ask
<1>6. ASSUME NEW c \in Clients, ManualRun(c) PROVE TypeInv'
  <2>1. PICK status \in {"running", "completed"} :
          /\ Created(request[c].trigger, "request", Never, status)
          /\ Ask(c, "write", request[c].trigger,
                 [request[c].row EXCEPT !.last = clock, !.error = "none",
                    !.success = IF status = "completed" THEN clock ELSE @])
    BY <1>6 DEF ManualRun
  <2>2. runs' \in [Runs -> Run]
    BY <2>1, CreatedType DEF Times
  <2>3. [request[c].row EXCEPT !.last = clock, !.error = "none",
           !.success = IF status = "completed" THEN clock ELSE @] \in Trigger
    <3>1. request[c].row \in Trigger
      OBVIOUS
    <3> QED BY <1>0, <3>1 DEF Trigger, Errors, Times
  <2> QED BY <1>6, <2>1, <2>2, <2>3 DEF ManualRun, Ask
<1>7. ASSUME NEW c \in Clients, RequestWrite(c) \/ RequestFault(c) PROVE TypeInv'
  <2>1. request' = [request EXCEPT ![c] = NoRequest]
    BY <1>7 DEF RequestWrite, RequestFault
  <2>2. triggers' \in [Triggers -> Trigger]
    BY <1>7, WrittenType DEF RequestWrite, RequestFault
  <2>3. faults' \in 0..MaxFaults
    BY <1>7, TriggerSchedulerAssumption DEF RequestWrite, RequestFault
  <2> QED BY <1>7, <2>1, <2>2, <2>3, InitialRows DEF RequestWrite, RequestFault
<1>8. ASSUME NEW t \in Triggers, Delete(t) PROVE TypeInv'
  <2>1. edits' \in 0..MaxEdits
    BY <1>8, TriggerSchedulerAssumption DEF Delete
  <2>2. triggers' \in [Triggers -> Trigger]
    BY <1>8 DEF Delete, Trigger
  <2> QED BY <1>8, <2>1, <2>2 DEF Delete
<1>9. ASSUME NEW r \in Runs, EndRun(r) PROVE TypeInv'
  <2>1. runs' \in [Runs -> Run]
    <3>1. PICK status \in {"completed", "failed"} :
            runs' = [runs EXCEPT ![r].status = status, ![r].finished = clock]
      BY <1>9 DEF EndRun
    <3>2. [runs[r] EXCEPT !.status = status, !.finished = clock] \in Run
      <4>1. runs[r] \in Run
        OBVIOUS
      <4> QED BY <1>0, <4>1 DEF Run, Times
    <3>3. runs' = [runs EXCEPT ![r] = [runs[r] EXCEPT !.status = status, !.finished = clock]]
      BY <3>1
    <3> QED BY <3>2, <3>3
  <2> QED BY <1>9, <2>1 DEF EndRun
<1>10. CASE Tick
  BY <1>10, TriggerSchedulerAssumption DEF Tick
<1>11. CASE Crash
  <2>1. Keep({}) /\ request' = [c \in Clients |-> NoRequest]
    BY <1>11 DEF Crash
  <2>2. todo' \in SUBSET Triggers /\ copy' \in [Triggers -> Trigger]
    BY <2>1, MemoryType
  <2>3. crashes' \in 0..MaxCrashes
    BY <1>11, TriggerSchedulerAssumption DEF Crash
  <2>4. request' \in [Clients -> [kind : {"none", "run", "write"},
                                 trigger : Triggers \cup {0}, row : Trigger]]
    BY <2>1, InitialRows
  <2> QED BY <1>11, <2>2, <2>3, <2>4, Zeros DEF Crash, Places
<1>12. CASE Boot
  BY <1>12 DEF Boot, ClaimAfterBoot
<1>13. CASE RecoveryFault
  BY <1>13, TriggerSchedulerAssumption DEF RecoveryFault
<1>14. CASE UNCHANGED vars
  BY <1>14 DEF vars
<1> QED
  BY <1>1, <1>2, <1>3, <1>4, <1>5, <1>6, <1>7, <1>8, <1>9, <1>10, <1>11, <1>12, <1>13, <1>14
  DEF Next

\* Every reachable state is well typed: a trigger that is paused or blocked has
\* no next time, whatever stale rows are written, and a scan has the claim.
THEOREM TypeCorrect == Spec => []TypeOK
  BY TypeInit, TypeNext, PTL DEF Spec, TypeInv

-----------------------------------------------------------------------------
(* The dispatches. *)

LEMMA FiniteRuns ==
  /\ IsFiniteSet(Runs)
  /\ \A S \in SUBSET Runs : IsFiniteSet(S) /\ Cardinality(S) \in Nat
<1>1. IsFiniteSet(Runs)
  BY FS_Interval, TriggerSchedulerAssumption DEF Runs
<1> QED BY <1>1, FS_Subset, FS_CardinalityType

\* Between the check and the creation of the run no other run is scheduled.
Checked ==
  scan = "dispatching" =>
    /\ Cardinality(Scheduled(ActiveRuns)) < MaxActive
    /\ Scheduled(RunningOf(chosen)) = {}

DispatchInv == TypeInv /\ Checked /\ ScheduledWithinLimit /\ NoScheduledOverlap

\* A step that starts no scheduled run keeps what was so.
Started(r) == runs[r].by = "scheduler" /\ runs[r].status = "running"

LEMMA FewerRuns ==
  ASSUME DispatchInv, TypeInv',
         \A r \in Runs : (Started(r))' => Started(r) /\ runs'[r].trigger = runs[r].trigger,
         scan' = "dispatching" => scan = "dispatching" /\ chosen' = chosen
  PROVE  DispatchInv'
<1>1. PICK A, B : A = Scheduled(ActiveRuns) /\ B = (Scheduled(ActiveRuns))'
  OBVIOUS
<1>2. A \in SUBSET Runs /\ B \subseteq A
  BY <1>1 DEF Scheduled, ActiveRuns, Started
<1>3. Cardinality(B) <= Cardinality(A) /\ Cardinality(A) \in Nat /\ Cardinality(B) \in Nat
  BY <1>2, FiniteRuns, FS_Subset
<1>4. Cardinality(A) <= MaxActive /\ MaxActive \in Nat
  BY <1>1, TriggerSchedulerAssumption DEF DispatchInv, ScheduledWithinLimit
<1>5. ScheduledWithinLimit'
  BY <1>1, <1>3, <1>4 DEF ScheduledWithinLimit
<1>6. NoScheduledOverlap'
  BY DEF DispatchInv, NoScheduledOverlap, Scheduled, RunningOf, Started
<1>7. ASSUME scan' = "dispatching"
      PROVE  Cardinality(B) < MaxActive /\ (Scheduled(RunningOf(chosen)))' = {}
  <2>1. Cardinality(A) < MaxActive /\ Scheduled(RunningOf(chosen)) = {}
    BY <1>1, <1>7 DEF DispatchInv, Checked
  <2>2. (Scheduled(RunningOf(chosen)))' \subseteq Scheduled(RunningOf(chosen))
    BY <1>7 DEF Scheduled, RunningOf, Started
  <2> QED BY <1>3, <1>4, <2>1, <2>2
<1>8. Checked'
  BY <1>1, <1>7 DEF Checked
<1> QED BY <1>5, <1>6, <1>8 DEF DispatchInv

\* The run of a trigger that has been checked is within the limit, and alone.
LEMMA CheckedRun ==
  ASSUME DispatchInv, TypeInv', scan = "dispatching", scan' = "recording",
         NEW slot, NEW status \in {"running", "completed"},
         Created(chosen, "scheduler", slot, status)
  PROVE  DispatchInv'
<1>1. PICK A, B : A = Scheduled(ActiveRuns) /\ B = (Scheduled(ActiveRuns))'
  OBVIOUS
<1>2. PICK r \in Runs : runs' = [runs EXCEPT ![r] =
        [trigger |-> chosen, by |-> "scheduler", slot |-> slot, status |-> status,
         created |-> clock, finished |-> IF status = "running" THEN Never ELSE clock]]
  BY DEF Created
<1>3. runs \in [Runs -> Run]
  BY DEF DispatchInv, TypeInv, TypeOK
<1>4. A \in SUBSET Runs /\ B \subseteq A \cup {r}
  BY <1>1, <1>2, <1>3 DEF Scheduled, ActiveRuns
<1>5. Cardinality(B) <= Cardinality(A) + 1
  <2>1. IsFiniteSet(A) /\ Cardinality(A) \in Nat
    BY <1>4, FiniteRuns
  <2>2. IsFiniteSet(A \cup {r}) /\ Cardinality(A \cup {r}) \in Nat
    BY <1>4, FiniteRuns
  <2>3. Cardinality(A \cup {r}) <= Cardinality(A) + 1
    BY <2>1, FS_AddElement
  <2>4. Cardinality(B) <= Cardinality(A \cup {r}) /\ Cardinality(B) \in Nat
    BY <1>4, <2>2, FiniteRuns, FS_Subset
  <2> QED BY <2>1, <2>2, <2>3, <2>4
<1>6. Cardinality(A) < MaxActive /\ Scheduled(RunningOf(chosen)) = {}
  BY <1>1 DEF DispatchInv, Checked
<1>7. ScheduledWithinLimit'
  <2>1. Cardinality(A) \in Nat /\ Cardinality(B) \in Nat /\ MaxActive \in Nat
    BY <1>4, FiniteRuns, TriggerSchedulerAssumption
  <2> QED BY <1>1, <1>5, <1>6, <2>1 DEF ScheduledWithinLimit
<1>8. NoScheduledOverlap'
  <2> SUFFICES ASSUME NEW t \in Triggers,
                      NEW x \in (Scheduled(RunningOf(t)))', NEW y \in (Scheduled(RunningOf(t)))'
               PROVE  x = y
    BY DEF NoScheduledOverlap
  <2>1. x \in Scheduled(RunningOf(t)) \/ (x = r /\ t = chosen)
    BY <1>2, <1>3 DEF Scheduled, RunningOf
  <2>2. y \in Scheduled(RunningOf(t)) \/ (y = r /\ t = chosen)
    BY <1>2, <1>3 DEF Scheduled, RunningOf
  <2>3. x \in Scheduled(RunningOf(t)) /\ y \in Scheduled(RunningOf(t)) => x = y
    BY DEF DispatchInv, NoScheduledOverlap
  <2> QED BY <1>6, <2>1, <2>2, <2>3
<1> QED BY <1>7, <1>8 DEF DispatchInv, Checked

\* The check of the limit and of the trigger's own runs makes a trigger Checked.
LEMMA CheckChecks ==
  ASSUME DispatchInv, TypeInv', Check
  PROVE  DispatchInv'
<1>1. runs' = runs /\ runs \in [Runs -> Run]
  BY DEF Check, DispatchInv, TypeInv, TypeOK
<1>2. CASE scan' # "dispatching"
  BY <1>1, <1>2, FewerRuns DEF Started
<1>3. CASE scan' = "dispatching"
  <2>1. BelowLimit /\ ~Busy(chosen')
    BY <1>3 DEF Check
  <2>2. /\ Scheduled(ActiveRuns) \in SUBSET ActiveRuns /\ ActiveRuns \in SUBSET Runs
        /\ Scheduled(RunningOf(chosen')) = {}
    BY <2>1 DEF Scheduled, ActiveRuns, Busy
  <2>3. Cardinality(Scheduled(ActiveRuns)) < MaxActive
    <3>1. Cardinality(Scheduled(ActiveRuns)) <= Cardinality(ActiveRuns)
      BY <2>2, FiniteRuns, FS_Subset
    <3>2. /\ Cardinality(ActiveRuns) \in Nat /\ Cardinality(Scheduled(ActiveRuns)) \in Nat
          /\ MaxActive \in Nat
      BY <2>2, FiniteRuns, TriggerSchedulerAssumption
    <3> QED BY <2>1, <3>1, <3>2 DEF BelowLimit
  <2>4. /\ (Scheduled(ActiveRuns))' = Scheduled(ActiveRuns)
        /\ (Scheduled(RunningOf(chosen)))' = Scheduled(RunningOf(chosen'))
    BY <1>1 DEF Scheduled, ActiveRuns, RunningOf
  <2>5. Checked'
    BY <2>2, <2>3, <2>4 DEF Checked
  <2>6. ScheduledWithinLimit'
    BY <2>4 DEF DispatchInv, ScheduledWithinLimit
  <2>7. NoScheduledOverlap'
    BY <1>1 DEF DispatchInv, NoScheduledOverlap, Scheduled, RunningOf
  <2> QED BY <2>5, <2>6, <2>7 DEF DispatchInv
<1> QED BY <1>2, <1>3

LEMMA DispatchInit == Init => DispatchInv
<1> SUFFICES ASSUME Init PROVE DispatchInv
  OBVIOUS
<1>1. \A r \in Runs : runs[r] = NoRun
  BY DEF Init
<1>2. Scheduled(ActiveRuns) = {} /\ \A t \in Triggers : Scheduled(RunningOf(t)) = {}
  BY <1>1 DEF NoRun, Scheduled, ActiveRuns, RunningOf
<1>3. ScheduledWithinLimit
  BY <1>2, FS_EmptySet, TriggerSchedulerAssumption DEF ScheduledWithinLimit
<1>4. Checked
  BY DEF Init, Checked
<1> QED BY <1>2, <1>3, <1>4, TypeInit DEF DispatchInv, NoScheduledOverlap

\* A run of a request is not a scheduled one, and one that ends stays ended.
LEMMA OtherRuns ==
  ASSUME TypeInv, NEW r \in Runs, (Started(r))',
         \/ \E c \in Clients : ManualRun(c)
         \/ \E s \in Runs : EndRun(s)
  PROVE  Started(r) /\ runs'[r].trigger = runs[r].trigger
<1>1. runs \in [Runs -> Run]
  BY DEF TypeInv, TypeOK
<1>2. ASSUME NEW c \in Clients, ManualRun(c)
      PROVE  Started(r) /\ runs'[r].trigger = runs[r].trigger
  <2>1. PICK s \in Runs, status \in {"running", "completed"} :
          runs' = [runs EXCEPT ![s] =
            [trigger |-> request[c].trigger, by |-> "request", slot |-> Never,
             status |-> status, created |-> clock,
             finished |-> IF status = "running" THEN Never ELSE clock]]
    BY <1>2 DEF ManualRun, Created
  <2> QED BY <1>1, <2>1 DEF Started
<1>3. ASSUME NEW s \in Runs, EndRun(s)
      PROVE  Started(r) /\ runs'[r].trigger = runs[r].trigger
  <2>1. PICK status \in {"completed", "failed"} :
          runs' = [runs EXCEPT ![s].status = status, ![s].finished = clock]
    BY <1>3 DEF EndRun
  <2> QED BY <1>1, <2>1 DEF Started, Run
<1> QED BY <1>2, <1>3

LEMMA DispatchNext == DispatchInv /\ [Next]_vars => DispatchInv'
<1> SUFFICES ASSUME DispatchInv, [Next]_vars PROVE DispatchInv'
  OBVIOUS
<1>1. TypeInv /\ TypeInv'
  BY TypeNext DEF DispatchInv
<1>2. CASE Check
  BY <1>1, <1>2, CheckChecks
<1>3. CASE Dispatch
  <2>1. CASE runs' = runs
    BY <1>1, <1>3, <2>1, FewerRuns DEF Dispatch, Started
  <2>2. CASE \E status \in {"running", "completed"} :
               Created(chosen, "scheduler", Slot(chosen), status)
    BY <1>1, <1>3, <2>2, CheckedRun DEF Dispatch
  <2> QED BY <1>3, <2>1, <2>2 DEF Dispatch
<1>4. ASSUME \/ \E c \in Clients : ManualRun(c)
             \/ \E s \in Runs : EndRun(s)
      PROVE  DispatchInv'
  <2>1. UNCHANGED <<scan, chosen>>
    BY <1>4 DEF ManualRun, EndRun, scanVars
  <2> QED BY <1>1, <1>4, <2>1, OtherRuns, FewerRuns
<1>5. ASSUME runs' = runs, scan' = "dispatching" => scan = "dispatching" /\ chosen' = chosen
      PROVE  DispatchInv'
  BY <1>1, <1>5, FewerRuns DEF Started
<1>6. ASSUME \/ ListResults \/ (\E t \in Triggers : Reconcile(t)) \/ Reconciled
             \/ ListDue \/ Record \/ Release
      PROVE  DispatchInv'
  BY <1>5, <1>6 DEF ListResults, Reconcile, Reconciled, ListDue, Record, Release, ScanOver
<1>7. ASSUME BeginScan \/ ScanFault \/ Tick \/ Crash \/ Boot \/ RecoveryFault \/ UNCHANGED vars
      PROVE  DispatchInv'
  BY <1>5, <1>7 DEF BeginScan, ScanFault, ScanOver, Tick, Crash, Boot, RecoveryFault, vars, scanVars
<1>8. ASSUME \/ \E c \in Clients, t \in Triggers : EditRead(c, t) \/ ManualRead(c, t)
             \/ \E c \in Clients : RequestWrite(c) \/ RequestFault(c)
             \/ \E t \in Triggers : Delete(t)
      PROVE  DispatchInv'
  BY <1>5, <1>8 DEF EditRead, ManualRead, RequestWrite, RequestFault, Delete, scanVars
<1> QED
  BY <1>2, <1>3, <1>4, <1>6, <1>7, <1>8 DEF Next, Scan

\* The scheduler's running runs never exceed the limit: nothing but its own
\* dispatches adds to them, and one scan at a time has counted before each.
THEOREM LimitHolds == Spec => []ScheduledWithinLimit
  BY DispatchInit, DispatchNext, PTL DEF Spec, DispatchInv

\* The scheduler never has two unfinished runs of a trigger, whatever requests,
\* stale rows, errors and crashes come between its check and its dispatch.
THEOREM NoOverlap == Spec => []NoScheduledOverlap
  BY DispatchInit, DispatchNext, PTL DEF Spec, DispatchInv

-----------------------------------------------------------------------------
(* The results. *)

\* A success is earned wherever a row is: in the table, in the scan's memory,
\* and in what the requests are about to write over newer rows.
Earned(t, time) ==
  time # Never => \E r \in Runs : /\ runs[r].trigger = t /\ runs[r].status = "completed"
                                  /\ runs[r].finished = time

ResultInv ==
  /\ TypeInv
  /\ \A t \in Triggers : Earned(t, triggers[t].success) /\ Earned(t, copy[t].success)
  /\ \A c \in Clients : Earned(request[c].trigger, request[c].row.success)

LEMMA ResultInit == Init => ResultInv
<1> SUFFICES ASSUME Init PROVE ResultInv
  OBVIOUS
<1>1. \A t : Earned(t, Never)
  BY DEF Earned
<1>2. \A t \in Triggers : triggers[t].success = Never /\ copy[t].success = Never
  BY DEF Init, NewTrigger, NoTrigger
<1>3. \A c \in Clients : request[c].row.success = Never
  BY DEF Init, NoRequest, NoTrigger
<1> QED BY <1>1, <1>2, <1>3, TypeInit DEF ResultInv

\* A run that is over stays as it is, so what is earned stays earned.
LEMMA EarnedStays ==
  ASSUME TypeInv, [Next]_vars, NEW t, NEW time, Earned(t, time)
  PROVE  Earned(t, time)'
<1>1. runs \in [Runs -> Run]
  BY DEF TypeInv, TypeOK
<1>2. CASE runs' = runs
  BY <1>2 DEF Earned
<1>3. ASSUME NEW r \in Runs, NEW run, runs[r].status # "completed", runs' = [runs EXCEPT ![r] = run]
      PROVE  Earned(t, time)'
  BY <1>1, <1>3 DEF Earned
<1>4. ASSUME NEW u, NEW by, NEW slot, NEW status, Created(u, by, slot, status)
      PROVE  Earned(t, time)'
  BY <1>3, <1>4 DEF Created
<1>5. ASSUME NEW r \in Runs, EndRun(r) PROVE Earned(t, time)'
  <2>1. PICK status \in {"completed", "failed"} :
          runs' = [runs EXCEPT ![r].status = status, ![r].finished = clock]
    BY <1>5 DEF EndRun
  <2>2. runs' = [runs EXCEPT ![r] = [runs[r] EXCEPT !.status = status, !.finished = clock]]
    BY <1>1, <2>1
  <2> QED BY <1>3, <1>5, <2>2 DEF EndRun
<1>6. ASSUME Dispatch PROVE Earned(t, time)'
  BY <1>2, <1>4, <1>6 DEF Dispatch
<1>7. ASSUME NEW c \in Clients, ManualRun(c) PROVE Earned(t, time)'
  BY <1>4, <1>7 DEF ManualRun
<1>8. ASSUME \/ BeginScan \/ ListResults \/ (\E u \in Triggers : Reconcile(u)) \/ Reconciled
             \/ ListDue \/ Check \/ Record \/ Release \/ ScanFault
      PROVE  runs' = runs
  BY <1>8 DEF BeginScan, ListResults, Reconcile, Reconciled, ListDue, Check, Record, Release,
              ScanFault, ScanOver
<1>9. ASSUME \/ \E c \in Clients, u \in Triggers : EditRead(c, u) \/ ManualRead(c, u)
             \/ \E c \in Clients : RequestWrite(c) \/ RequestFault(c)
             \/ \E u \in Triggers : Delete(u)
             \/ Tick \/ Crash \/ Boot \/ RecoveryFault \/ UNCHANGED vars
      PROVE  runs' = runs
  BY <1>9 DEF EditRead, ManualRead, RequestWrite, RequestFault, Delete, Tick, Crash, Boot,
              RecoveryFault, vars
<1> QED BY <1>2, <1>5, <1>6, <1>7, <1>8, <1>9 DEF Next, Scan

\* A time that is earned after the step.
EarnedNext(t, time) ==
  time # Never => \E r \in Runs : /\ runs'[r].trigger = t /\ runs'[r].status = "completed"
                                  /\ runs'[r].finished = time

\* Steps that change no success keep the invariant; the ones that write a row
\* have to show that it is earned.
LEMMA RowsEarned ==
  ASSUME ResultInv, [Next]_vars,
         \A t \in Triggers : \/ triggers'[t].success \in {triggers[t].success, copy[t].success}
                             \/ EarnedNext(t, triggers'[t].success),
         \A t \in Triggers : copy'[t].success \in {copy[t].success, triggers[t].success, Never},
         \A c \in Clients : \/ request'[c] = request[c]
                            \/ EarnedNext(request'[c].trigger, request'[c].row.success)
  PROVE  ResultInv'
<1>1. TypeInv /\ TypeInv'
  BY TypeNext DEF ResultInv
<1>2. ASSUME NEW t, NEW time, Earned(t, time) PROVE EarnedNext(t, time)
  BY <1>1, <1>2, EarnedStays DEF Earned, EarnedNext
<1>3. \A t : EarnedNext(t, Never)
  BY DEF EarnedNext
<1>4. ASSUME NEW t \in Triggers
      PROVE  EarnedNext(t, triggers'[t].success) /\ EarnedNext(t, copy'[t].success)
  <2>1. EarnedNext(t, triggers[t].success) /\ EarnedNext(t, copy[t].success)
    BY <1>2 DEF ResultInv
  <2> QED BY <1>3, <2>1
<1>5. ASSUME NEW c \in Clients PROVE EarnedNext(request'[c].trigger, request'[c].row.success)
  <2>1. EarnedNext(request[c].trigger, request[c].row.success)
    BY <1>2 DEF ResultInv
  <2> QED BY <2>1
<1> QED BY <1>1, <1>4, <1>5 DEF ResultInv, Earned, EarnedNext

LEMMA ResultNext == ResultInv /\ [Next]_vars => ResultInv'
<1> SUFFICES ASSUME ResultInv, [Next]_vars PROVE ResultInv'
  OBVIOUS
<1>1. /\ triggers \in [Triggers -> Trigger] /\ copy \in [Triggers -> Trigger]
      /\ request \in [Clients -> [kind : {"none", "run", "write"},
                                  trigger : Triggers \cup {0}, row : Trigger]]
      /\ runs \in [Runs -> Run]
      /\ todo \in SUBSET Triggers
  BY DEF ResultInv, TypeInv, TypeOK
<1>2. ASSUME NEW S, List(S) \/ Keep(S) \/ UNCHANGED copy
      PROVE  \A t \in Triggers : copy'[t].success \in {copy[t].success, triggers[t].success, Never}
  BY <1>1, <1>2 DEF List, Keep, NoTrigger
<1>3. ASSUME NEW t \in Triggers, NEW row, triggers' = Written(t, row),
             row.success \in {triggers[t].success, copy[t].success} \/ EarnedNext(t, row.success)
      PROVE  \A u \in Triggers : \/ triggers'[u].success \in {triggers[u].success, copy[u].success}
                                 \/ EarnedNext(u, triggers'[u].success)
  BY <1>1, <1>3 DEF Written
<1>4. ASSUME NEW c \in Clients, NEW kind, NEW t, NEW row, Ask(c, kind, t, row),
             EarnedNext(t, row.success)
      PROVE  \A d \in Clients : \/ request'[d] = request[d]
                                \/ EarnedNext(request'[d].trigger, request'[d].row.success)
  BY <1>1, <1>4 DEF Ask
<1>5. ASSUME NEW t, NEW time, Earned(t, time) PROVE EarnedNext(t, time)
  BY <1>5, EarnedStays DEF Earned, EarnedNext, ResultInv
<1>6. \A t \in Triggers : EarnedNext(t, triggers[t].success) /\ EarnedNext(t, copy[t].success)
  BY <1>5 DEF ResultInv
<1>7. \A c \in Clients : EarnedNext(request[c].trigger, request[c].row.success)
  BY <1>5 DEF ResultInv
<1>8. ASSUME NEW c \in Clients, request'[c] = NoRequest
      PROVE  EarnedNext(request'[c].trigger, request'[c].row.success)
  BY <1>8 DEF NoRequest, NoTrigger, EarnedNext
<1>9. ASSUME UNCHANGED triggers, \E S : List(S) \/ Keep(S) \/ UNCHANGED copy,
             \A c \in Clients : request'[c] = request[c] \/ request'[c] = NoRequest
      PROVE  ResultInv'
  BY <1>2, <1>8, <1>9, RowsEarned
<1>10. ASSUME \/ BeginScan \/ ListResults \/ Reconciled \/ ListDue \/ Check \/ Dispatch
              \/ Release \/ ScanFault
       PROVE  ResultInv'
  BY <1>9, <1>10 DEF BeginScan, ListResults, Reconciled, ListDue, Check, Dispatch, Release,
                     ScanFault, ScanOver
<1>11. ASSUME (\E r \in Runs : EndRun(r)) \/ Tick \/ Crash \/ Boot \/ RecoveryFault \/ UNCHANGED vars
       PROVE  ResultInv'
  BY <1>9, <1>11 DEF EndRun, Tick, Crash, Boot, RecoveryFault, vars, scanVars
<1>12. ASSUME NEW c \in Clients, RequestFault(c) PROVE ResultInv'
  BY <1>1, <1>9, <1>12 DEF RequestFault, scanVars
<1>13. ASSUME NEW t \in Triggers, Reconcile(t) PROVE ResultInv'
  <2>1. ASSUME NEW r \in LatestOf(t)
        PROVE  \/ WithResult(copy[t], runs[r]).success = copy[t].success
               \/ EarnedNext(t, WithResult(copy[t], runs[r]).success)
    <3>1. copy[t] \in Trigger /\ UNCHANGED runs
      BY <1>1, <1>13 DEF Reconcile
    <3> QED BY <3>1 DEF WithResult, LatestOf, EarnedNext, Trigger
  <2>2. \A u \in Triggers : \/ triggers'[u].success \in {triggers[u].success, copy[u].success}
                            \/ EarnedNext(u, triggers'[u].success)
    <3>1. CASE UNCHANGED triggers
      BY <3>1
    <3>2. CASE \E r \in LatestOf(t) : triggers' = Written(t, WithResult(copy[t], runs[r]))
      BY <1>3, <2>1, <3>2
    <3> QED BY <1>13, <3>1, <3>2 DEF Reconcile
  <2>3. \A u \in Triggers : copy'[u].success \in {copy[u].success, triggers[u].success, Never}
    BY <1>2, <1>13 DEF Reconcile
  <2> QED BY <1>13, <2>2, <2>3, RowsEarned DEF Reconcile
<1>14. CASE Record
  <2>1. chosen \in Triggers /\ Dispatched(copy[chosen], chosen).success = copy[chosen].success
    <3>1. chosen \in Triggers
      BY <1>14 DEF Record, ResultInv, TypeInv, TypeOK
    <3> QED BY <1>1, <3>1 DEF Dispatched, Trigger
  <2>2. \A u \in Triggers : \/ triggers'[u].success \in {triggers[u].success, copy[u].success}
                            \/ EarnedNext(u, triggers'[u].success)
    BY <1>3, <1>14, <2>1 DEF Record
  <2>3. \A u \in Triggers : copy'[u].success \in {copy[u].success, triggers[u].success, Never}
    BY <1>2, <1>14 DEF Record
  <2> QED BY <1>14, <2>2, <2>3, RowsEarned DEF Record
<1>15. ASSUME NEW c \in Clients, NEW t \in Triggers, EditRead(c, t) \/ ManualRead(c, t)
       PROVE  ResultInv'
  <2>1. triggers[t] \in Trigger
    BY <1>1
  <2>2. PICK kind, row : Ask(c, kind, t, row) /\ row.success = triggers[t].success
    <3>1. /\ Resumed(t, triggers[t]).success = triggers[t].success
          /\ Paused(triggers[t]).success = triggers[t].success
          /\ [triggers[t] EXCEPT !.error = "none"].success = triggers[t].success
          /\ [triggers[t] EXCEPT !.status = "blocked", !.next = Never, !.last = clock,
                                 !.error = "disk"].success = triggers[t].success
      BY <2>1 DEF Resumed, Paused, Trigger
    <3>2. PICK kind, row :
            /\ Ask(c, kind, t, row)
            /\ row \in {Resumed(t, triggers[t]), Paused(triggers[t]), triggers[t],
                        [triggers[t] EXCEPT !.error = "none"],
                        [triggers[t] EXCEPT !.status = "blocked", !.next = Never,
                                            !.last = clock, !.error = "disk"]}
      BY <1>15, Zenon DEF EditRead, ManualRead
    <3> QED BY <3>1, <3>2
  <2>3. \A d \in Clients : \/ request'[d] = request[d]
                           \/ EarnedNext(request'[d].trigger, request'[d].row.success)
    BY <1>4, <1>6, <2>2
  <2>4. UNCHANGED <<triggers, copy>>
    BY <1>15 DEF EditRead, ManualRead, scanVars
  <2> QED BY <2>3, <2>4, RowsEarned
<1>16. ASSUME NEW c \in Clients, ManualRun(c) PROVE ResultInv'
  <2>1. PICK status \in {"running", "completed"} :
          /\ Created(request[c].trigger, "request", Never, status)
          /\ Ask(c, "write", request[c].trigger,
                 [request[c].row EXCEPT !.last = clock, !.error = "none",
                    !.success = IF status = "completed" THEN clock ELSE @])
    BY <1>16 DEF ManualRun
  <2>2. PICK row : /\ Ask(c, "write", request[c].trigger, row)
                   /\ row.success = IF status = "completed" THEN clock
                                    ELSE request[c].row.success
    <3>1. request[c].row \in Trigger
      BY <1>1
    <3>2. [request[c].row EXCEPT !.last = clock, !.error = "none",
             !.success = IF status = "completed" THEN clock ELSE @].success
          = IF status = "completed" THEN clock ELSE request[c].row.success
      BY <3>1 DEF Trigger
    <3> QED BY <2>1, <3>2, Zenon
  <2>3. status = "completed" => EarnedNext(request[c].trigger, clock)
    BY <1>1, <2>1 DEF Created, EarnedNext
  <2>4. EarnedNext(request[c].trigger, row.success)
    BY <1>7, <2>2, <2>3
  <2>5. \A d \in Clients : \/ request'[d] = request[d]
                           \/ EarnedNext(request'[d].trigger, request'[d].row.success)
    BY <1>4, <2>2, <2>4
  <2> QED BY <1>16, <2>5, RowsEarned DEF ManualRun, scanVars
<1>17. ASSUME NEW c \in Clients, RequestWrite(c) PROVE ResultInv'
  <2>1. triggers' = Written(request[c].trigger, request[c].row) /\ UNCHANGED copy
        /\ request' = [request EXCEPT ![c] = NoRequest]
    BY <1>17 DEF RequestWrite, scanVars
  <2>2. \A u \in Triggers : \/ triggers'[u].success \in {triggers[u].success, copy[u].success}
                            \/ EarnedNext(u, triggers'[u].success)
    BY <1>1, <1>7, <2>1 DEF Written
  <2> QED BY <1>1, <1>8, <2>1, <2>2, RowsEarned
<1>18. ASSUME NEW t \in Triggers, Delete(t) PROVE ResultInv'
  <2>1. \A u \in Triggers : triggers'[u].success = triggers[u].success
    BY <1>1, <1>18 DEF Delete, Trigger
  <2> QED BY <1>18, <2>1, RowsEarned DEF Delete, scanVars
<1> QED
  BY <1>10, <1>11, <1>12, <1>13, <1>14, <1>15, <1>16, <1>17, <1>18 DEF Next, Scan

\* A success that a trigger shows is always that of a run of it that completed
\* at that time, whichever copies of its row were written over one another.
THEOREM ResultsAreEarned == Spec => []SuccessIsEarned
<1>1. ResultInv => SuccessIsEarned
  BY DEF ResultInv, Earned, SuccessIsEarned
<1> QED BY <1>1, ResultInit, ResultNext, PTL DEF Spec
-----------------------------------------------------------------------------
(* Repetitions.  One due time is in few hands: the scan's or the table's,      *)
(* while no run of it is on record there, and those of requests that have read *)
(* the row and not written it back.  Each hand may cause one more run.         *)

LEMMA Counting ==
  ASSUME NEW A, IsFiniteSet(A), NEW B, NEW x
  PROVE  /\ Cardinality(A) \in Nat
         /\ B \subseteq A => /\ IsFiniteSet(B) /\ Cardinality(B) \in Nat
                             /\ Cardinality(B) <= Cardinality(A)
         /\ B \subseteq A \cup {x} => /\ IsFiniteSet(B) /\ Cardinality(B) \in Nat
                                      /\ Cardinality(B) <= Cardinality(A) + 1
         /\ x \in A /\ B \subseteq A \ {x} => Cardinality(B) <= Cardinality(A) - 1
<1>1. ASSUME NEW C, IsFiniteSet(C), NEW D, D \subseteq C
      PROVE  /\ IsFiniteSet(D) /\ Cardinality(D) \in Nat /\ Cardinality(C) \in Nat
             /\ Cardinality(D) <= Cardinality(C)
  BY <1>1, FS_Subset, FS_CardinalityType
<1>2. IsFiniteSet(A \cup {x}) /\ Cardinality(A \cup {x}) <= Cardinality(A) + 1
  <2>1. /\ IsFiniteSet(A \cup {x})
        /\ Cardinality(A \cup {x}) = IF x \in A THEN Cardinality(A) ELSE Cardinality(A) + 1
    BY FS_AddElement
  <2>2. Cardinality(A) \in Nat
    BY FS_CardinalityType
  <2> QED BY <2>1, <2>2
<1>3. x \in A => /\ IsFiniteSet(A \ {x})
                 /\ Cardinality(A \ {x}) = Cardinality(A) - 1
  BY FS_RemoveElement
<1>4. B \subseteq A \cup {x} => /\ IsFiniteSet(B) /\ Cardinality(B) \in Nat
                                /\ Cardinality(B) <= Cardinality(A) + 1
  <2> SUFFICES ASSUME B \subseteq A \cup {x}
               PROVE  /\ IsFiniteSet(B) /\ Cardinality(B) \in Nat
                      /\ Cardinality(B) <= Cardinality(A) + 1
    OBVIOUS
  <2>1. /\ IsFiniteSet(B) /\ Cardinality(B) \in Nat /\ Cardinality(A \cup {x}) \in Nat
        /\ Cardinality(B) <= Cardinality(A \cup {x})
    BY <1>1, <1>2
  <2>2. Cardinality(A) \in Nat
    BY FS_CardinalityType
  <2> QED BY <1>2, <2>1, <2>2
<1>5. x \in A /\ B \subseteq A \ {x} => Cardinality(B) <= Cardinality(A) - 1
  BY <1>1, <1>3
<1> QED BY <1>1, <1>4, <1>5

\* The runs that were due at that time, the requests that hold a row with it,
\* and whether the scan or the table may dispatch it again.
RunsAt(t, s) == {r \in Runs : runs[r].trigger = t /\ runs[r].slot = s}

Holding(t, s) == {c \in Clients : request[c].trigger = t /\ request[c].row.next = s}

Live(t, s) == /\ ~(scan = "recording" /\ chosen = t)
              /\ \/ triggers[t].status # "deleted" /\ triggers[t].next = s
                 \/ copy[t].next = s

Total == crashes + faults + edits

Once(t, s) == Cardinality(RunsAt(t, s)) + (IF Live(t, s) THEN 1 ELSE 0)
                + Cardinality(Holding(t, s)) <= 1 + Total

Asked == {c \in Clients : request[c] # NoRequest}

\* What has been dispatched was due, so no row written later has the same time.
SlotsPast ==
  /\ now <= clock
  /\ \A r \in Runs : runs[r].slot # Never =>
       /\ runs[r].trigger \in Triggers /\ runs[r].slot <= clock
       /\ scan # "idle" => runs[r].slot <= now

RepeatsInv ==
  /\ TypeInv
  /\ SlotsPast
  /\ IsFiniteSet(Asked) /\ Cardinality(Asked) <= edits
  /\ \A t \in Triggers, s \in Nat : Once(t, s)

\* The hands are counted in natural numbers, also after a step.
LEMMA TotalType ==
  /\ TypeInv  => Total \in Nat /\ edits \in Nat /\ edits <= Total
  /\ TypeInv' => Total' \in Nat
<1>1. \A a, b, d \in Nat : a + b + d \in Nat /\ d <= a + b + d
  OBVIOUS
<1>2. TypeInv  => crashes \in Nat /\ faults \in Nat /\ edits \in Nat
  BY TriggerSchedulerAssumption DEF TypeInv, TypeOK
<1>3. TypeInv' => crashes' \in Nat /\ faults' \in Nat /\ edits' \in Nat
  BY TriggerSchedulerAssumption DEF TypeInv, TypeOK
<1> QED BY <1>1, <1>2, <1>3 DEF Total

LEMMA Numbers ==
  ASSUME TypeInv, IsFiniteSet(Asked), NEW t \in Triggers, NEW s \in Nat
  PROVE  /\ Total \in Nat /\ edits \in Nat /\ edits <= Total
         /\ IsFiniteSet(RunsAt(t, s)) /\ Cardinality(RunsAt(t, s)) \in Nat
         /\ Holding(t, s) \subseteq Asked /\ IsFiniteSet(Holding(t, s))
         /\ Cardinality(Holding(t, s)) \in Nat
         /\ Cardinality(Holding(t, s)) <= Cardinality(Asked)
         /\ Cardinality(Asked) \in Nat
<1>1. RunsAt(t, s) \in SUBSET Runs
  BY DEF RunsAt
<1>2. Holding(t, s) \subseteq Asked
  BY DEF Holding, Asked, NoRequest, Triggers
<1> QED BY <1>1, <1>2, FiniteRuns, Counting, TotalType

LEMMA RepeatsInit == Init => RepeatsInv
<1> SUFFICES ASSUME Init PROVE RepeatsInv
  OBVIOUS
<1>1. TypeInv
  BY TypeInit
<1>2. Asked = {}
  BY DEF Init, Asked
<1>3. IsFiniteSet(Asked) /\ Cardinality(Asked) <= edits
  BY <1>2, FS_EmptySet DEF Init
<1>4. SlotsPast
  BY DEF Init, SlotsPast, NoRun, Never
<1>5. ASSUME NEW t \in Triggers, NEW s \in Nat PROVE Once(t, s)
  <2>1. RunsAt(t, s) = {} /\ Holding(t, s) = {}
    BY DEF Init, RunsAt, Holding, NoRun, NoRequest, Triggers
  <2> QED BY <2>1, FS_EmptySet DEF Once, Total, Init
<1> QED BY <1>1, <1>3, <1>4, <1>5 DEF RepeatsInv

\* A step that dispatches nothing and passes no time on keeps the account, if it
\* pays for every time that can be dispatched again.
LEMMA QuietSteps ==
  ASSUME RepeatsInv, TypeInv',
         \A r \in Runs : runs'[r].slot # Never =>
           runs'[r].slot = runs[r].slot /\ runs'[r].trigger = runs[r].trigger,
         \A c \in Clients : \/ request'[c] = NoRequest
                            \/ /\ request[c] # NoRequest
                               /\ request'[c].trigger = request[c].trigger
                               /\ request'[c].row.next = request[c].row.next,
         edits <= edits', Total <= Total',
         \A t \in Triggers, s \in Nat : (Live(t, s))' => Live(t, s) \/ Total < Total',
         clock <= clock',
         \/ scan' = "idle" /\ now' <= clock'
         \/ scan' # "idle" /\ now' = clock'
         \/ scan' # "idle" /\ now' = now /\ scan # "idle"
  PROVE  RepeatsInv'
<1>1. SlotsPast'
  <2>1. now \in Nat /\ clock \in Nat /\ now' \in Nat /\ clock' \in Nat
    BY TriggerSchedulerAssumption DEF RepeatsInv, TypeInv, TypeOK
  <2>2. \A r \in Runs : runs[r].slot \in Times
    BY DEF RepeatsInv, TypeInv, TypeOK, Run
  <2>3. ASSUME NEW r \in Runs, runs'[r].slot # Never
        PROVE  /\ runs'[r].trigger \in Triggers /\ runs'[r].slot <= clock'
               /\ scan' # "idle" => runs'[r].slot <= now'
    <3>1. /\ runs'[r].slot = runs[r].slot /\ runs'[r].trigger = runs[r].trigger
          /\ runs[r].slot \in Nat
      BY <2>2, <2>3 DEF Times
    <3>2. /\ runs[r].trigger \in Triggers /\ runs[r].slot <= clock
          /\ scan # "idle" => runs[r].slot <= now
      BY <2>3, <3>1 DEF RepeatsInv, SlotsPast
    <3> QED BY <2>1, <3>1, <3>2
  <2>4. now' <= clock'
    BY <2>1 DEF RepeatsInv, SlotsPast
  <2> QED BY <2>3, <2>4 DEF SlotsPast
<1>2. Asked' \subseteq Asked
  BY DEF Asked
<1>3. IsFiniteSet(Asked') /\ Cardinality(Asked') <= edits'
  <2>1. edits \in Nat /\ edits' \in Nat
    BY TriggerSchedulerAssumption DEF RepeatsInv, TypeInv, TypeOK
  <2> QED BY <1>2, <2>1, Counting DEF RepeatsInv
<1>4. ASSUME NEW t \in Triggers, NEW s \in Nat PROVE (Once(t, s))'
  <2>1. PICK A, B, H, K : /\ A = RunsAt(t, s) /\ B = (RunsAt(t, s))'
                          /\ H = Holding(t, s) /\ K = (Holding(t, s))'
    OBVIOUS
  <2>2. B \subseteq A
    BY <2>1 DEF RunsAt, Never
  <2>3. K \subseteq H
    BY <2>1 DEF Holding, NoRequest, Triggers
  <2>4. IsFiniteSet(A) /\ IsFiniteSet(H)
    BY <2>1, Numbers DEF RepeatsInv
  <2>5. /\ Cardinality(A) \in Nat /\ Cardinality(B) \in Nat /\ Cardinality(B) <= Cardinality(A)
        /\ Cardinality(H) \in Nat /\ Cardinality(K) \in Nat /\ Cardinality(K) <= Cardinality(H)
    BY <2>2, <2>3, <2>4, Counting
  <2>6. PICK m, n : m = Total /\ n = Total'
    OBVIOUS
  <2>7. m \in Nat /\ n \in Nat /\ m <= n
    BY <2>6, TotalType DEF RepeatsInv
  <2>8. PICK v, w \in {0, 1} : /\ v = (IF Live(t, s) THEN 1 ELSE 0)
                               /\ w = (IF (Live(t, s))' THEN 1 ELSE 0)
    OBVIOUS
  <2>9. w <= v \/ m < n
    BY <2>6, <2>8
  <2>10. Cardinality(A) + v + Cardinality(H) <= 1 + m
    BY <2>1, <2>6, <2>8 DEF RepeatsInv, Once
  <2>11. Cardinality(B) + w + Cardinality(K) <= 1 + n
    BY <2>5, <2>7, <2>9, <2>10
  <2> QED BY <2>1, <2>6, <2>8, <2>11 DEF Once
<1> QED BY <1>1, <1>3, <1>4 DEF RepeatsInv

\* The scan may dispatch again what it lists; other steps of it list nothing new.
LEMMA LiveKeeps ==
  ASSUME NEW t \in Triggers, NEW s \in Nat, (Live(t, s))',
         scan = "recording" /\ chosen = t => scan' = "recording" /\ chosen' = t,
         triggers'[t].status # "deleted" => triggers[t].status # "deleted",
         triggers'[t].next \in {triggers[t].next, copy[t].next},
         \/ copy'[t].next \in {copy[t].next, Never}
         \/ copy'[t].next = triggers[t].next /\ triggers[t].status # "deleted"
  PROVE  Live(t, s)
  BY DEF Live, Never

LEMMA QuietScan ==
  ASSUME RepeatsInv, TypeInv',
         ListResults \/ (\E t \in Triggers : Reconcile(t)) \/ Reconciled \/ ListDue \/ Check \/ Release
  PROVE  RepeatsInv'
<1> USE DEF histVars
<1>1. /\ triggers \in [Triggers -> Trigger] /\ copy \in [Triggers -> Trigger]
      /\ todo \in SUBSET Triggers /\ now <= clock /\ clock \in Nat /\ now \in Nat
      /\ \A c \in Clients : request[c] = NoRequest \/ request[c] # NoRequest
  BY TriggerSchedulerAssumption DEF RepeatsInv, SlotsPast, TypeInv, TypeOK
<1>2. /\ UNCHANGED <<clock, runs, request, crashes, edits, faults>>
      /\ scan # "recording" /\ scan # "idle" /\ scan' # "recording"
      /\ \/ scan' = "idle" /\ now' = 0
         \/ scan' # "idle" /\ now' = now
  BY DEF ListResults, Reconcile, Reconciled, ListDue, Check, Release, ScanOver
<1>3. ASSUME NEW t \in Triggers
      PROVE  /\ triggers'[t].status # "deleted" => triggers[t].status # "deleted"
             /\ triggers'[t].next \in {triggers[t].next, copy[t].next}
  <2>1. CASE UNCHANGED triggers
    BY <2>1
  <2>2. ASSUME NEW u \in Triggers, NEW run, triggers' = Written(u, WithResult(copy[u], run))
        PROVE  /\ triggers'[t].status # "deleted" => triggers[t].status # "deleted"
               /\ triggers'[t].next \in {triggers[t].next, copy[t].next}
    <3>1. copy[u] \in Trigger
      BY <1>1
    <3>2. WithResult(copy[u], run).next = copy[u].next
      BY <3>1 DEF WithResult, Trigger
    <3> QED BY <1>1, <2>2, <3>2 DEF Written
  <2> QED BY <2>1, <2>2
          DEF ListResults, Reconcile, Reconciled, ListDue, Check, Release, ScanOver
<1>4. ASSUME NEW t \in Triggers
      PROVE  \/ copy'[t].next \in {copy[t].next, Never}
             \/ copy'[t].next = triggers[t].next /\ triggers[t].status # "deleted"
  <2>1. CASE ListResults
    BY <1>1, <2>1 DEF ListResults, List, NoTrigger
  <2>2. CASE ListDue
    BY <1>1, <2>2 DEF ListDue, List, NoTrigger, IsDue
  <2>3. CASE Check \/ Release \/ Reconciled \/ \E u \in Triggers : Reconcile(u)
    <3>1. (\E S : Keep(S)) \/ UNCHANGED copy
      BY <2>3 DEF Reconcile, Reconciled, Check, Release, ScanOver
    <3> QED BY <1>1, <3>1 DEF Keep, NoTrigger
  <2> QED BY <2>1, <2>2, <2>3
<1>5. \A t \in Triggers, s \in Nat : (Live(t, s))' => Live(t, s)
  BY <1>2, <1>3, <1>4, LiveKeeps
<1>6. Total' = Total /\ Total <= Total /\ edits' = edits /\ edits <= edits
  BY <1>2, TotalType DEF Total, RepeatsInv
<1>7. \/ scan' = "idle" /\ now' <= clock'
      \/ scan' # "idle" /\ now' = now /\ scan # "idle"
  BY <1>1, <1>2
<1> QED BY <1>1, <1>2, <1>5, <1>6, <1>7, QuietSteps

\* What happens outside the scan dispatches nothing for a due time.  A crash or
\* an error during the recording leaves a time to be dispatched once more.
LEMMA QuietOthers ==
  ASSUME RepeatsInv, TypeInv',
         \/ BeginScan \/ ScanFault \/ Tick \/ Crash \/ Boot \/ RecoveryFault \/ UNCHANGED vars
         \/ \E t \in Triggers : Delete(t)
         \/ \E r \in Runs : EndRun(r)
         \/ \E c \in Clients : RequestFault(c)
  PROVE  RepeatsInv'
<1> USE DEF histVars, scanVars
<1>1. /\ triggers \in [Triggers -> Trigger] /\ runs \in [Runs -> Run]
      /\ DOMAIN request = Clients
      /\ now <= clock /\ clock \in Nat /\ now \in Nat /\ clock' \in Nat
      /\ crashes \in Nat /\ faults \in Nat /\ edits \in Nat
      /\ ~up => scan = "idle"
  BY TriggerSchedulerAssumption DEF RepeatsInv, SlotsPast, TypeInv, TypeOK, ScanOK
<1>2. \A a, b, d \in Nat : /\ a + b + d < (a + 1) + b + d /\ a + b + d < a + (b + 1) + d
                           /\ a + b + d < a + b + (d + 1) /\ d <= d + 1
                           /\ a + b + d <= a + b + d /\ d <= d
  OBVIOUS
<1>3. edits' \in {edits, edits + 1} /\ Total <= Total' /\ edits <= edits'
  <2>1. \/ UNCHANGED <<crashes, faults, edits>>
        \/ crashes' = crashes + 1 /\ UNCHANGED <<faults, edits>>
        \/ faults' = faults + 1 /\ UNCHANGED <<crashes, edits>>
        \/ edits' = edits + 1 /\ UNCHANGED <<faults, crashes>>
    BY DEF BeginScan, ScanFault, ScanOver, Tick, Crash, Boot, RecoveryFault, vars, Delete,
           EndRun, RequestFault
  <2> QED BY <1>1, <1>2, <2>1 DEF Total
<1>4. \A r \in Runs : runs'[r].slot = runs[r].slot /\ runs'[r].trigger = runs[r].trigger
  <2>1. CASE UNCHANGED runs
    BY <2>1
  <2>2. ASSUME NEW r \in Runs, EndRun(r)
        PROVE  \A q \in Runs : runs'[q].slot = runs[q].slot /\ runs'[q].trigger = runs[q].trigger
    <3>1. \A q \in Runs : runs[q] \in Run
      BY <1>1
    <3> QED BY <1>1, <2>2, <3>1 DEF EndRun, Run
  <2> QED BY <2>1, <2>2 DEF BeginScan, ScanFault, ScanOver, Tick, Crash, Boot, RecoveryFault,
             vars, Delete, RequestFault
<1>5. \A c \in Clients : request'[c] \in {request[c], NoRequest}
  BY <1>1 DEF BeginScan, ScanFault, ScanOver, Tick, Crash, Boot, RecoveryFault,
         vars, Delete, EndRun, RequestFault
<1>6. clock' = clock \/ clock' = clock + 1
  BY DEF BeginScan, ScanFault, ScanOver, Tick, Crash, Boot, RecoveryFault, vars, Delete,
         EndRun, RequestFault
<1>7. \/ scan' = "idle" /\ now' = 0
      \/ scan' # "idle" /\ now' = clock'
      \/ scan' = scan /\ now' = now
      \/ scan' # "idle" /\ now' = now /\ scan # "idle"
  BY DEF BeginScan, ScanFault, ScanOver, Tick, Crash, Boot, RecoveryFault, vars, Delete,
         EndRun, RequestFault
<1>8. ASSUME NEW t \in Triggers
      PROVE  /\ triggers'[t].status # "deleted" => triggers[t].status # "deleted"
             /\ triggers'[t].next = triggers[t].next
             /\ copy'[t].next \in {copy[t].next, Never}
  <2>1. triggers[t] \in Trigger
    BY <1>1
  <2>2. CASE UNCHANGED triggers
    <3>1. (\E S : Keep(S)) \/ UNCHANGED copy
      BY DEF BeginScan, ScanFault, ScanOver, Tick, Crash, Boot, RecoveryFault, vars, Delete,
             EndRun, RequestFault
    <3> QED BY <2>2, <3>1 DEF Keep, NoTrigger
  <2>3. ASSUME NEW u \in Triggers, Delete(u)
        PROVE  /\ triggers'[t].status # "deleted" => triggers[t].status # "deleted"
               /\ triggers'[t].next = triggers[t].next
               /\ copy'[t].next \in {copy[t].next, Never}
    BY <1>1, <2>1, <2>3 DEF Delete, Trigger
  <2> QED BY <2>2, <2>3 DEF BeginScan, ScanFault, ScanOver, Tick, Crash, Boot, RecoveryFault,
             vars, EndRun, RequestFault
<1>9. ASSUME NEW t \in Triggers, NEW s \in Nat, (Live(t, s))'
      PROVE  Live(t, s) \/ Total < Total'
  <2>1. CASE scan = "recording" /\ chosen = t => scan' = "recording" /\ chosen' = t
    BY <1>8, <1>9, <2>1, LiveKeeps
  <2>2. CASE scan = "recording" /\ ~(scan' = "recording" /\ chosen' = t) /\ chosen = t
    <3>1. \/ crashes' = crashes + 1 /\ UNCHANGED <<faults, edits>>
          \/ faults' = faults + 1 /\ UNCHANGED <<crashes, edits>>
      BY <1>1, <2>2 DEF BeginScan, ScanFault, ScanOver, Tick, Crash, Boot, RecoveryFault,
                        vars, Delete, EndRun, RequestFault
    <3> QED BY <1>1, <1>2, <3>1 DEF Total
  <2> QED BY <2>1, <2>2
<1>10. clock <= clock'
  BY <1>1, <1>6
<1>11. \/ scan' = "idle" /\ now' <= clock'
       \/ scan' # "idle" /\ now' = clock'
       \/ scan' # "idle" /\ now' = now /\ scan # "idle"
  BY <1>1, <1>6, <1>7
<1>12. \A c \in Clients : \/ request'[c] = NoRequest
                          \/ /\ request[c] # NoRequest
                             /\ request'[c].trigger = request[c].trigger
                             /\ request'[c].row.next = request[c].row.next
  BY <1>5
<1> QED BY <1>3, <1>4, <1>9, <1>10, <1>11, <1>12, QuietSteps

\* A manual run belongs to no due time, and its request keeps the time it read.
LEMMA QuietManual ==
  ASSUME RepeatsInv, TypeInv', NEW c \in Clients, ManualRun(c)
  PROVE  RepeatsInv'
<1> USE DEF histVars, scanVars
<1>1. /\ runs \in [Runs -> Run] /\ DOMAIN request = Clients /\ request[c].row \in Trigger
      /\ clock \in Nat /\ now \in Nat /\ now <= clock
  BY TriggerSchedulerAssumption DEF RepeatsInv, SlotsPast, TypeInv, TypeOK
<1>2. PICK status \in {"running", "completed"} :
        /\ Created(request[c].trigger, "request", Never, status)
        /\ Ask(c, "write", request[c].trigger,
               [request[c].row EXCEPT !.last = clock, !.error = "none",
                  !.success = IF status = "completed" THEN clock ELSE @])
  BY DEF ManualRun
<1>3. \A r \in Runs : runs'[r].slot # Never =>
        runs'[r].slot = runs[r].slot /\ runs'[r].trigger = runs[r].trigger
  BY <1>1, <1>2 DEF Created
<1>4. [request[c].row EXCEPT !.last = clock, !.error = "none",
         !.success = IF status = "completed" THEN clock ELSE @].next = request[c].row.next
  BY <1>1 DEF Trigger
<1>5. /\ request'[c].trigger = request[c].trigger /\ request'[c].row.next = request[c].row.next
      /\ \A d \in Clients \ {c} : request'[d] = request[d]
  <2>1. \A row : Ask(c, "write", request[c].trigger, row) =>
          /\ request'[c].trigger = request[c].trigger /\ request'[c].row = row
          /\ \A d \in Clients \ {c} : request'[d] = request[d]
    BY <1>1 DEF Ask
  <2> QED BY <1>2, <1>4, <2>1, Zenon
<1>6. request[c] # NoRequest
  BY DEF ManualRun, NoRequest
<1>7. /\ UNCHANGED <<clock, scan, now, triggers, copy, chosen>>
      /\ Total' = Total /\ edits' = edits /\ edits <= edits /\ Total <= Total
  BY TotalType DEF ManualRun, Total, RepeatsInv
<1>8. \A t \in Triggers, s \in Nat : (Live(t, s))' => Live(t, s)
  BY <1>7 DEF Live
<1>9. \/ scan' = "idle" /\ now' <= clock'
      \/ scan' # "idle" /\ now' = now /\ scan # "idle"
  BY <1>1, <1>7
<1>10. clock <= clock'
  BY <1>1, <1>7
<1> QED BY <1>3, <1>5, <1>6, <1>7, <1>8, <1>9, <1>10, QuietSteps

\* One more hand, which the count of requests pays for.
LEMMA ReadKeeps ==
  ASSUME RepeatsInv, TypeInv', NEW c \in Clients, NEW t \in Triggers,
         EditRead(c, t) \/ ManualRead(c, t)
  PROVE  RepeatsInv'
<1> USE DEF histVars, scanVars
<1>1. /\ UNCHANGED <<clock, runs, scan, now, triggers, copy, chosen, crashes, faults>>
      /\ edits' = edits + 1
      /\ \A d \in Clients \ {c} : request'[d] = request[d]
  BY DEF EditRead, ManualRead, Ask, RepeatsInv, TypeInv, TypeOK
<1>2. Asked' \subseteq Asked \cup {c}
  BY <1>1 DEF Asked
<1>3. \A a, b, d \in Nat : a + b + (d + 1) = (a + b + d) + 1 /\ a + b + d \in Nat
  OBVIOUS
<1>4. Total \in Nat /\ Total' = Total + 1 /\ edits \in Nat
  <2>1. crashes \in Nat /\ faults \in Nat /\ edits \in Nat
    BY TriggerSchedulerAssumption DEF RepeatsInv, TypeInv, TypeOK
  <2> QED BY <1>1, <1>3, <2>1 DEF Total
<1>5. IsFiniteSet(Asked') /\ Cardinality(Asked') <= edits'
  <2>1. PICK A, B : A = Asked /\ B = Asked'
    OBVIOUS
  <2>2. IsFiniteSet(A) /\ Cardinality(A) <= edits /\ B \subseteq A \cup {c}
    BY <1>2, <2>1 DEF RepeatsInv
  <2>3. IsFiniteSet(B) /\ Cardinality(B) <= Cardinality(A) + 1 /\ Cardinality(A) \in Nat
        /\ Cardinality(B) \in Nat
    BY <2>2, Counting
  <2>4. Cardinality(B) <= edits + 1
    BY <1>4, <2>2, <2>3
  <2> QED BY <1>1, <2>1, <2>3, <2>4
<1>6. SlotsPast'
  BY <1>1 DEF RepeatsInv, SlotsPast
<1>7. ASSUME NEW u \in Triggers, NEW s \in Nat PROVE (Once(u, s))'
  <2>1. PICK H, K : H = Holding(u, s) /\ K = (Holding(u, s))'
    OBVIOUS
  <2>2. PICK n, v : n = Cardinality(RunsAt(u, s)) /\ v = IF Live(u, s) THEN 1 ELSE 0
    OBVIOUS
  <2>3. n = Cardinality((RunsAt(u, s))') /\ v = IF (Live(u, s))' THEN 1 ELSE 0
    BY <1>1, <2>2 DEF RunsAt, Live
  <2>4. K \subseteq H \cup {c}
    BY <1>1, <2>1 DEF Holding
  <2>5. IsFiniteSet(H) /\ n \in Nat /\ v \in Nat
    BY <2>1, <2>2, Numbers DEF RepeatsInv
  <2>6. Cardinality(K) <= Cardinality(H) + 1 /\ Cardinality(H) \in Nat /\ Cardinality(K) \in Nat
    BY <2>4, <2>5, Counting
  <2>7. n + v + Cardinality(H) <= 1 + Total
    BY <2>1, <2>2 DEF RepeatsInv, Once
  <2>8. n + v + Cardinality(K) <= 1 + (Total + 1)
    BY <1>4, <2>5, <2>6, <2>7
  <2> QED BY <1>4, <2>1, <2>3, <2>8 DEF Once
<1> QED BY <1>5, <1>6, <1>7 DEF RepeatsInv

\* A request that writes its row passes its time on to the table.
LEMMA WriteKeeps ==
  ASSUME RepeatsInv, TypeInv', NEW c \in Clients, RequestWrite(c)
  PROVE  RepeatsInv'
<1> USE DEF histVars, scanVars
<1>1. /\ UNCHANGED <<clock, runs, scan, now, copy, chosen, crashes, faults, edits>>
      /\ request' = [request EXCEPT ![c] = NoRequest]
      /\ triggers' = Written(request[c].trigger, request[c].row)
      /\ triggers \in [Triggers -> Trigger] /\ DOMAIN request = Clients
  BY DEF RequestWrite, RepeatsInv, TypeInv, TypeOK
<1>2. Total' = Total /\ Total \in Nat /\ edits \in Nat
  BY <1>1, TotalType DEF Total, RepeatsInv
<1>3. IsFiniteSet(Asked') /\ Cardinality(Asked') <= edits'
  <2>1. PICK A, B : A = Asked /\ B = Asked'
    OBVIOUS
  <2>2. IsFiniteSet(A) /\ Cardinality(A) <= edits /\ B \subseteq A
    BY <1>1, <2>1 DEF RepeatsInv, Asked
  <2>3. IsFiniteSet(B) /\ Cardinality(B) <= Cardinality(A) /\ Cardinality(A) \in Nat
        /\ Cardinality(B) \in Nat
    BY <2>2, Counting
  <2>4. Cardinality(B) <= edits
    BY <1>2, <2>2, <2>3
  <2> QED BY <1>1, <2>1, <2>3, <2>4
<1>4. SlotsPast'
  BY <1>1 DEF RepeatsInv, SlotsPast
<1>5. ASSUME NEW u \in Triggers, NEW s \in Nat PROVE (Once(u, s))'
  <2>1. PICK H, K : H = Holding(u, s) /\ K = (Holding(u, s))'
    OBVIOUS
  <2>2. PICK n : n = Cardinality(RunsAt(u, s))
    OBVIOUS
  <2>3. PICK v, w \in {0, 1} : /\ v = (IF Live(u, s) THEN 1 ELSE 0)
                               /\ w = (IF (Live(u, s))' THEN 1 ELSE 0)
    OBVIOUS
  <2>4. n = Cardinality((RunsAt(u, s))')
    BY <1>1, <2>2 DEF RunsAt
  <2>5. K \subseteq H \ {c}
    BY <1>1, <2>1 DEF Holding, NoRequest, Triggers
  <2>6. IsFiniteSet(H) /\ n \in Nat
    BY <2>1, <2>2, Numbers DEF RepeatsInv
  <2>7. /\ Cardinality(K) <= Cardinality(H) /\ Cardinality(H) \in Nat /\ Cardinality(K) \in Nat
        /\ c \in H => Cardinality(K) <= Cardinality(H) - 1
    <3>1. K \subseteq H
      BY <2>5
    <3> QED BY <2>5, <2>6, <3>1, Counting
  <2>8. c \notin H => w <= v
    <3> SUFFICES ASSUME c \notin H, (Live(u, s))' PROVE Live(u, s)
      BY <2>3
    <3>1. \/ triggers'[u] = triggers[u]
          \/ triggers'[u].next # s
      BY <1>1, <2>1 DEF Written, Holding
    <3> QED BY <1>1, <3>1 DEF Live
  <2>9. n + v + Cardinality(H) <= 1 + Total
    BY <2>1, <2>2, <2>3 DEF RepeatsInv, Once
  <2>10. n + w + Cardinality(K) <= 1 + Total
    BY <1>2, <2>3, <2>6, <2>7, <2>8, <2>9
  <2> QED BY <1>2, <2>1, <2>3, <2>4, <2>10 DEF Once
<1> QED BY <1>3, <1>4, <1>5 DEF RepeatsInv

\* A dispatch takes the time out of the hands of the scan and the table.
LEMMA DispatchKeeps ==
  ASSUME RepeatsInv, TypeInv', Dispatch
  PROVE  RepeatsInv'
<1> USE DEF histVars
<1>1. /\ UNCHANGED <<clock, now, triggers, copy, chosen, request, crashes, edits>>
      /\ scan = "dispatching" /\ scan' = "recording"
      /\ faults' = faults \/ faults' = faults + 1
  BY DEF Dispatch
<1>2. /\ runs \in [Runs -> Run] /\ chosen \in Triggers /\ now \in Nat /\ clock \in Nat
      /\ copy[chosen].next \in Times
      /\ now <= clock
  BY <1>1, TriggerSchedulerAssumption DEF RepeatsInv, SlotsPast, TypeInv, TypeOK, Trigger
<1>3. PICK m, n : m = Total /\ n = Total'
  OBVIOUS
<1>4. m \in Nat /\ n \in Nat /\ m <= n
  <2>1. \A a, b, d \in Nat : a + b + d <= a + (b + 1) + d /\ a + b + d <= a + b + d
                             /\ a + b + d \in Nat /\ a + (b + 1) + d \in Nat
    OBVIOUS
  <2>2. crashes \in Nat /\ faults \in Nat /\ edits \in Nat
    BY TriggerSchedulerAssumption DEF RepeatsInv, TypeInv, TypeOK
  <2> QED BY <1>1, <1>3, <2>1, <2>2 DEF Total
<1>5. \/ UNCHANGED runs
      \/ \E r \in Runs : /\ runs' = [runs EXCEPT ![r] = runs'[r]]
                         /\ runs'[r].trigger = chosen /\ runs'[r].slot = Slot(chosen)
  <2>1. \/ UNCHANGED runs
        \/ \E status : Created(chosen, "scheduler", Slot(chosen), status)
    BY DEF Dispatch
  <2> QED BY <1>2, <2>1 DEF Created
<1>6. Slot(chosen) # Never => /\ copy[chosen].next = Slot(chosen) /\ Slot(chosen) <= now
                              /\ Slot(chosen) \in Nat
  BY <1>2 DEF Slot, IsDue, Times
<1>7. SlotsPast'
  <2> SUFFICES ASSUME NEW r \in Runs, runs'[r].slot # Never
               PROVE  runs'[r].trigger \in Triggers /\ runs'[r].slot <= clock /\ runs'[r].slot <= now
    BY <1>1, <1>2 DEF SlotsPast
  <2>1. CASE runs'[r] = runs[r]
    BY <1>1, <2>1 DEF RepeatsInv, SlotsPast
  <2>2. CASE runs'[r].trigger = chosen /\ runs'[r].slot = Slot(chosen)
    BY <1>2, <1>6, <2>2
  <2> QED BY <1>2, <1>5, <2>1, <2>2
<1>8. IsFiniteSet(Asked') /\ Cardinality(Asked') <= edits'
  BY <1>1 DEF RepeatsInv, Asked
<1>9. ASSUME NEW t \in Triggers, NEW s \in Nat PROVE (Once(t, s))'
  <2>1. PICK A, B : A = RunsAt(t, s) /\ B = (RunsAt(t, s))'
    OBVIOUS
  <2>2. PICK h : h = Cardinality(Holding(t, s)) /\ h = Cardinality((Holding(t, s))')
    BY <1>1 DEF Holding
  <2>3. PICK v, w \in {0, 1} : /\ v = (IF Live(t, s) THEN 1 ELSE 0)
                               /\ w = (IF (Live(t, s))' THEN 1 ELSE 0)
    OBVIOUS
  <2>4. IsFiniteSet(A) /\ h \in Nat
    BY <2>1, <2>2, Numbers DEF RepeatsInv
  <2>5. Cardinality(A) + v + h <= 1 + m
    BY <1>3, <2>1, <2>2, <2>3 DEF RepeatsInv, Once
  <2>6. CASE t # chosen \/ s # Slot(chosen)
    <3>1. B \subseteq A
      BY <1>2, <1>5, <2>1, <2>6 DEF RunsAt
    <3>2. w <= v
      BY <1>1, <2>3 DEF Live
    <3>3. Cardinality(B) <= Cardinality(A) /\ Cardinality(A) \in Nat /\ Cardinality(B) \in Nat
      BY <2>4, <3>1, Counting
    <3>4. Cardinality(B) + w + h <= 1 + n
      BY <1>4, <2>3, <2>4, <2>5, <3>2, <3>3
    <3> QED BY <1>3, <2>1, <2>2, <2>3, <3>4 DEF Once
  <2>7. CASE t = chosen /\ s = Slot(chosen)
    <3>1. v = 1 /\ w = 0
      BY <1>1, <1>6, <2>3, <2>7 DEF Live, Never
    <3>2. Cardinality(B) <= Cardinality(A) + 1 /\ Cardinality(A) \in Nat /\ Cardinality(B) \in Nat
      <4>1. \E r : B \subseteq A \cup {r}
        BY <1>2, <1>5, <2>1 DEF RunsAt
      <4> QED BY <2>4, <4>1, Counting
    <3>3. Cardinality(B) + w + h <= 1 + n
      BY <1>4, <2>4, <2>5, <3>1, <3>2
    <3> QED BY <1>3, <2>1, <2>2, <2>3, <3>3 DEF Once
  <2> QED BY <2>6, <2>7
<1> QED BY <1>7, <1>8, <1>9 DEF RepeatsInv

\* The time that is recorded is later than all that have been dispatched.
LEMMA RecordKeeps ==
  ASSUME RepeatsInv, TypeInv', Record
  PROVE  RepeatsInv'
<1> USE DEF histVars
<1>1. /\ UNCHANGED <<clock, runs, now, request, crashes, faults, edits>>
      /\ scan = "recording" /\ scan' = "checking"
      /\ triggers' = Written(chosen, Dispatched(copy[chosen], chosen))
      /\ Keep(todo \ {chosen})
  BY DEF Record
<1>2. /\ chosen \in Triggers /\ now \in Nat /\ PeriodOf[chosen] \in Nat \ {0}
      /\ triggers \in [Triggers -> Trigger] /\ copy[chosen] \in Trigger
  BY <1>1, TriggerSchedulerAssumption DEF RepeatsInv, TypeInv, TypeOK
<1>3. Dispatched(copy[chosen], chosen).next = now + PeriodOf[chosen]
  BY <1>2 DEF Dispatched, Trigger
<1>4. Total' = Total /\ Total \in Nat /\ edits \in Nat /\ edits <= Total
  BY <1>1, TotalType DEF Total, RepeatsInv
<1>5. SlotsPast'
  BY <1>1 DEF RepeatsInv, SlotsPast
<1>6. IsFiniteSet(Asked') /\ Cardinality(Asked') <= edits'
  BY <1>1 DEF RepeatsInv, Asked
<1>7. ASSUME NEW t \in Triggers, NEW s \in Nat PROVE (Once(t, s))'
  <2>1. PICK n : n = Cardinality(RunsAt(t, s)) /\ n = Cardinality((RunsAt(t, s))')
    BY <1>1 DEF RunsAt
  <2>2. PICK h : h = Cardinality(Holding(t, s)) /\ h = Cardinality((Holding(t, s))')
    BY <1>1 DEF Holding
  <2>3. PICK v, w \in {0, 1} : /\ v = (IF Live(t, s) THEN 1 ELSE 0)
                               /\ w = (IF (Live(t, s))' THEN 1 ELSE 0)
    OBVIOUS
  <2>4. n \in Nat /\ h \in Nat /\ h <= edits
    <3>1. h <= Cardinality(Asked) /\ Cardinality(Asked) \in Nat /\ Cardinality(Asked) <= edits
      BY <2>2, Numbers DEF RepeatsInv
    <3>2. n \in Nat /\ h \in Nat
      BY <2>1, <2>2, Numbers DEF RepeatsInv
    <3> QED BY <1>4, <3>1, <3>2
  <2>5. n + v + h <= 1 + Total
    BY <2>1, <2>2, <2>3 DEF RepeatsInv, Once
  <2>6. n + w + h <= 1 + Total
    <3>1. CASE w <= v
      BY <1>4, <2>3, <2>4, <2>5, <3>1
    <3>2. CASE ~(w <= v)
      <4>1. (Live(t, s))' /\ ~Live(t, s)
        BY <2>3, <3>2
      <4>2. t = chosen /\ s = now + PeriodOf[chosen]
        BY <1>1, <1>2, <1>3, <4>1 DEF Live, Written, Keep, NoTrigger, Never
      <4>3. RunsAt(t, s) = {}
        <5> SUFFICES ASSUME NEW r \in Runs, runs[r].slot = s PROVE FALSE
          BY DEF RunsAt
        <5>1. s <= now
          BY <1>1 DEF RepeatsInv, SlotsPast, Never
        <5> QED BY <1>2, <4>2, <5>1
      <4>4. n = 0
        BY <2>1, <4>3, FS_EmptySet
      <4> QED BY <1>4, <2>3, <2>4, <4>4
    <3> QED BY <3>1, <3>2
  <2> QED BY <1>4, <2>1, <2>2, <2>3, <2>6 DEF Once
<1> QED BY <1>5, <1>6, <1>7 DEF RepeatsInv

LEMMA RepeatsNext == RepeatsInv /\ [Next]_vars => RepeatsInv'
<1> SUFFICES ASSUME RepeatsInv, [Next]_vars PROVE RepeatsInv'
  OBVIOUS
<1>1. TypeInv'
  BY TypeNext DEF RepeatsInv
<1> QED
  BY <1>1, QuietScan, QuietOthers, QuietManual, ReadKeeps, WriteKeeps, DispatchKeeps, RecordKeeps
  DEF Next, Scan

\* One due time is dispatched once; whatever stale rows the scan and the requests
\* write over one another, every repetition is paid for by a crash, an error or
\* a request.
THEOREM RepeatsHaveCauses == Spec => []RepeatsAreExplained
<1>1. ASSUME RepeatsInv PROVE RepeatsAreExplained
  <2> SUFFICES ASSUME NEW r \in Runs, runs[r].slot # Never
               PROVE  Cardinality({s \in Runs : runs[s].trigger = runs[r].trigger
                                                /\ runs[s].slot = runs[r].slot})
                        <= 1 + crashes + faults + edits
    BY DEF RepeatsAreExplained
  <2>1. runs[r].trigger \in Triggers /\ runs[r].slot \in Nat
    BY <1>1 DEF RepeatsInv, SlotsPast, TypeInv, TypeOK, Run, Times
  <2>2. PICK n, h, v : /\ n = Cardinality(RunsAt(runs[r].trigger, runs[r].slot))
                       /\ h = Cardinality(Holding(runs[r].trigger, runs[r].slot))
                       /\ v = IF Live(runs[r].trigger, runs[r].slot) THEN 1 ELSE 0
    OBVIOUS
  <2>3. n \in Nat /\ h \in Nat /\ v \in Nat /\ n + v + h <= 1 + Total /\ Total \in Nat
    BY <1>1, <2>1, <2>2, Numbers DEF RepeatsInv, Once
  <2>4. n <= 1 + Total
    BY <2>3
  <2>5. 1 + Total = 1 + crashes + faults + edits
    <3>1. crashes \in Nat /\ faults \in Nat /\ edits \in Nat
      BY <1>1, TriggerSchedulerAssumption DEF RepeatsInv, TypeInv, TypeOK
    <3> QED BY <3>1 DEF Total
  <2> QED BY <2>2, <2>4, <2>5 DEF RunsAt
<1> QED BY <1>1, RepeatsInit, RepeatsNext, PTL DEF Spec

-----------------------------------------------------------------------------
(* Failures.  A row with a dispatch failure has the time of a scan, and with   *)
(* one request at most it is nowhere newer than the row the scan has listed,   *)
(* unless a run has been created since.                                        *)

NotNewer(t, row, last) ==
  row.error = "dispatch" =>
    row.last <= last \/ \E r \in Runs : runs[r].trigger = t /\ runs[r].created >= row.last

\* A dispatch that failed was recorded with the time of its scan.
FailedThen(row) ==
  row.error = "dispatch" => row.last <= clock /\ (scan # "idle" => row.last <= now)

\* A run that has not been created belongs to no trigger.
AbsentRuns == \A r \in Runs : runs[r].status = "absent" => runs[r].trigger = 0

Reconciling == scan \in {"reconciling", "reconciling again"}

FailuresPast ==
  /\ now <= clock
  /\ \A t \in Triggers : FailedThen(triggers[t]) /\ FailedThen(copy[t])
  /\ \A c \in Clients : FailedThen(request[c].row)

OneRequest ==
  /\ edits = 0 => \A c \in Clients : request[c] = NoRequest
  /\ edits < 2 => \A c, d \in Clients : request[c] # NoRequest /\ request[d] # NoRequest => c = d

NothingNewer ==
  edits < 2 =>
    /\ \A t \in Triggers : Reconciling /\ t \in todo => NotNewer(t, triggers[t], copy[t].last)
    /\ \A c \in Clients, t \in Triggers : request[c].trigger = t =>
         /\ NotNewer(t, request[c].row, triggers[t].last)
         /\ Reconciling /\ t \in todo => NotNewer(t, request[c].row, copy[t].last)

FailureInv == TypeInv /\ AbsentRuns /\ FailuresPast /\ OneRequest /\ NothingNewer

LEMMA FailureInit == Init => FailureInv
<1> SUFFICES ASSUME Init PROVE FailureInv
  OBVIOUS
<1>1. TypeInv
  BY TypeInit
<1>2. AbsentRuns
  BY DEF Init, AbsentRuns, NoRun
<1>3. FailuresPast
  BY DEF Init, FailuresPast, FailedThen, NewTrigger, NoTrigger, NoRequest
<1>4. OneRequest
  BY DEF Init, OneRequest
<1>5. NothingNewer
  BY DEF Init, NothingNewer, NotNewer, NewTrigger, NoTrigger, NoRequest
<1> QED BY <1>1, <1>2, <1>3, <1>4, <1>5 DEF FailureInv

\* What is not newer than the runs of a trigger stays so: no run is taken back.
NotNewerNext(t, row, last) ==
  row.error = "dispatch" =>
    row.last <= last \/ \E r \in Runs : runs'[r].trigger = t /\ runs'[r].created >= row.last

LEMMA RunsStay ==
  ASSUME FailureInv, [Next]_vars
  PROVE  /\ AbsentRuns'
         /\ \A t \in Triggers : \A row, last : NotNewer(t, row, last) => NotNewerNext(t, row, last)
<1> DEFINE Goal == /\ AbsentRuns'
                   /\ \A t \in Triggers : \A row, last :
                        NotNewer(t, row, last) => NotNewerNext(t, row, last)
<1>1. runs \in [Runs -> Run]
  BY DEF FailureInv, TypeInv, TypeOK
<1>2. CASE runs' = runs
  BY <1>2 DEF NotNewer, NotNewerNext, FailureInv, AbsentRuns
<1>3. ASSUME NEW r \in Runs, NEW run, runs' = [runs EXCEPT ![r] = run], run.status # "absent",
             \/ runs[r].status = "absent"
             \/ run.trigger = runs[r].trigger /\ run.created = runs[r].created
      PROVE  Goal
  <2>1. AbsentRuns'
    BY <1>1, <1>3 DEF FailureInv, AbsentRuns
  <2>2. ASSUME NEW q \in Runs, runs[q].trigger \in Triggers
        PROVE  runs'[q].trigger = runs[q].trigger /\ runs'[q].created = runs[q].created
    BY <1>1, <1>3, <2>2 DEF FailureInv, AbsentRuns, Triggers
  <2> QED BY <2>1, <2>2 DEF NotNewer, NotNewerNext
<1>4. ASSUME NEW u, NEW by, NEW slot, NEW status \in {"running", "completed"},
             Created(u, by, slot, status)
      PROVE  Goal
  <2> DEFINE new == [trigger |-> u, by |-> by, slot |-> slot, status |-> status,
                     created |-> clock, finished |-> IF status = "running" THEN Never ELSE clock]
  <2>1. PICK r \in Runs : runs[r].status = "absent" /\ runs' = [runs EXCEPT ![r] = new]
    BY <1>4 DEF Created
  <2>2. new.status # "absent"
    BY <1>4
  <2> HIDE DEF Goal, new
  <2> QED BY <1>3, <2>1, <2>2
<1>5. ASSUME NEW r \in Runs, EndRun(r) PROVE Goal
  <2>1. PICK status \in {"completed", "failed"} :
          runs' = [runs EXCEPT ![r].status = status, ![r].finished = clock]
    BY <1>5 DEF EndRun
  <2>2. runs' = [runs EXCEPT ![r] = [runs[r] EXCEPT !.status = status, !.finished = clock]]
    BY <1>1, <2>1
  <2>3. PICK run : run = [runs[r] EXCEPT !.status = status, !.finished = clock]
    OBVIOUS
  <2>4. run.status # "absent" /\ run.trigger = runs[r].trigger /\ run.created = runs[r].created
    <3>1. runs[r] \in Run
      BY <1>1
    <3> QED BY <2>3, <3>1 DEF Run
  <2>5. runs' = [runs EXCEPT ![r] = run]
    BY <2>2, <2>3
  <2> HIDE DEF Goal
  <2> QED BY <1>3, <2>4, <2>5
<1>6. ASSUME Dispatch PROVE Goal
  <2>1. \/ UNCHANGED runs
        \/ \E status \in {"running", "completed"} :
             Created(chosen, "scheduler", Slot(chosen), status)
    BY <1>6 DEF Dispatch
  <2>2. CASE UNCHANGED runs
    BY <1>2, <2>2
  <2>3. ASSUME NEW status \in {"running", "completed"},
               Created(chosen, "scheduler", Slot(chosen), status)
        PROVE  Goal
    <3> HIDE DEF Goal
    <3>1. PICK u, slot : u = chosen /\ slot = Slot(chosen)
      OBVIOUS
    <3>2. Created(u, "scheduler", slot, status)
      BY <2>3, <3>1
    <3> QED BY <1>4, <3>2
  <2> QED BY <2>1, <2>2, <2>3
<1>7. ASSUME NEW c \in Clients, ManualRun(c) PROVE Goal
  <2>1. \E status \in {"running", "completed"} :
          Created(request[c].trigger, "request", Never, status)
    BY <1>7 DEF ManualRun
  <2> HIDE DEF Goal
  <2> QED BY <1>4, <2>1
<1>8. ASSUME \/ BeginScan \/ ListResults \/ (\E u \in Triggers : Reconcile(u)) \/ Reconciled
             \/ ListDue \/ Check \/ Record \/ Release \/ ScanFault
      PROVE  runs' = runs
  BY <1>8 DEF BeginScan, ListResults, Reconcile, Reconciled, ListDue, Check, Record, Release,
              ScanFault, ScanOver
<1>9. ASSUME \/ \E c \in Clients, u \in Triggers : EditRead(c, u) \/ ManualRead(c, u)
             \/ \E c \in Clients : RequestWrite(c) \/ RequestFault(c)
             \/ \E u \in Triggers : Delete(u)
             \/ Tick \/ Crash \/ Boot \/ RecoveryFault \/ UNCHANGED vars
      PROVE  runs' = runs
  BY <1>9 DEF EditRead, ManualRead, RequestWrite, RequestFault, Delete, Tick, Crash, Boot,
              RecoveryFault, vars
<1> QED BY <1>2, <1>5, <1>6, <1>7, <1>8, <1>9 DEF Next, Scan

\* Steps that write no row: the scan's memory and the requests may be dropped.
LEMMA FailureFrame ==
  ASSUME FailureInv, [Next]_vars, edits <= edits',
         clock <= clock',
         \/ scan' = "idle" /\ now' <= clock'
         \/ scan' # "idle" /\ now' = clock'
         \/ scan' # "idle" /\ now' = now /\ scan # "idle",
         \A t \in Triggers : /\ triggers'[t].error = triggers[t].error
                             /\ triggers'[t].last = triggers[t].last,
         \A c \in Clients : request'[c] \in {request[c], NoRequest},
         Reconciling' => Reconciling /\ todo' \subseteq todo,
         \A t \in Triggers : \/ copy'[t] = copy[t]
                             \/ copy'[t] = NoTrigger /\ (Reconciling' => t \notin todo')
  PROVE  FailureInv'
<1>1. TypeInv /\ TypeInv' /\ AbsentRuns'
  BY TypeNext, RunsStay DEF FailureInv
<1>2. /\ clock \in Nat /\ now \in Nat /\ clock' \in Nat /\ now' \in Nat
      /\ edits \in Nat /\ edits' \in Nat
  BY <1>1, TriggerSchedulerAssumption DEF TypeInv, TypeOK
<1>3. \A row : row.last \in Times /\ FailedThen(row) /\ row.error = "dispatch" =>
        row.last <= clock' /\ (scan' # "idle" => row.last <= now')
  <2>1. now <= clock
    BY DEF FailureInv, FailuresPast
  <2> QED BY <1>2, <2>1 DEF FailedThen, Times, Never
<1>4. /\ \A t \in Triggers : triggers[t].last \in Times /\ copy[t].last \in Times
      /\ \A c \in Clients : request[c].row.last \in Times
  BY <1>1 DEF TypeInv, TypeOK, Trigger
<1>5. FailuresPast'
  <2>1. \A t \in Triggers : (FailedThen(triggers[t]))'
    BY <1>3, <1>4 DEF FailedThen, FailureInv, FailuresPast
  <2>2. \A t \in Triggers : (FailedThen(copy[t]))'
    BY <1>3, <1>4 DEF FailedThen, FailureInv, FailuresPast, NoTrigger
  <2>3. \A c \in Clients : (FailedThen(request[c].row))'
    BY <1>3, <1>4 DEF FailedThen, FailureInv, FailuresPast, NoTrigger, NoRequest
  <2>4. now' <= clock'
    <3>1. now <= clock
      BY DEF FailureInv, FailuresPast
    <3> QED BY <1>2, <3>1
  <2> QED BY <2>1, <2>2, <2>3, <2>4 DEF FailuresPast
<1>6. OneRequest'
  <2>1. (edits' = 0 => edits = 0) /\ (edits' < 2 => edits < 2)
    BY <1>2
  <2> QED BY <2>1 DEF FailureInv, OneRequest
<1>7. NothingNewer'
  <2> SUFFICES ASSUME edits' < 2
               PROVE  /\ \A t \in Triggers : Reconciling' /\ t \in todo' =>
                           (NotNewer(t, triggers[t], copy[t].last))'
                      /\ \A c \in Clients, t \in Triggers : request'[c].trigger = t =>
                           /\ (NotNewer(t, request[c].row, triggers[t].last))'
                           /\ Reconciling' /\ t \in todo' =>
                                (NotNewer(t, request[c].row, copy[t].last))'
    BY DEF NothingNewer
  <2>1. edits < 2
    BY <1>2
  <2>2. \A t \in Triggers : \A row, last : NotNewer(t, row, last) => NotNewerNext(t, row, last)
    BY RunsStay
  <2>3. ASSUME NEW t \in Triggers, Reconciling', t \in todo'
        PROVE  (NotNewer(t, triggers[t], copy[t].last))'
    <3>1. copy'[t] = copy[t] /\ NotNewer(t, triggers[t], copy[t].last)
      BY <2>1, <2>3 DEF FailureInv, NothingNewer
    <3>2. NotNewerNext(t, triggers[t], copy[t].last)
      BY <2>2, <3>1
    <3> QED BY <3>1, <3>2 DEF NotNewer, NotNewerNext
  <2>4. ASSUME NEW c \in Clients, NEW t \in Triggers, request'[c].trigger = t
        PROVE  /\ (NotNewer(t, request[c].row, triggers[t].last))'
               /\ Reconciling' /\ t \in todo' =>
                    (NotNewer(t, request[c].row, copy[t].last))'
    <3>1. request'[c] = request[c]
      BY <2>4 DEF NoRequest, Triggers
    <3>2. /\ NotNewer(t, request[c].row, triggers[t].last)
          /\ Reconciling /\ t \in todo => NotNewer(t, request[c].row, copy[t].last)
      BY <2>1, <2>4, <3>1 DEF FailureInv, NothingNewer
    <3>3. /\ NotNewerNext(t, request[c].row, triggers[t].last)
          /\ Reconciling /\ t \in todo => NotNewerNext(t, request[c].row, copy[t].last)
      BY <2>2, <3>2
    <3>4. Reconciling' /\ t \in todo' => Reconciling /\ t \in todo /\ copy'[t] = copy[t]
      OBVIOUS
    <3> QED BY <3>1, <3>3, <3>4 DEF NotNewer, NotNewerNext
  <2> QED BY <2>3, <2>4
<1> QED BY <1>1, <1>5, <1>6, <1>7 DEF FailureInv

LEMMA FailureQuiet ==
  ASSUME FailureInv, [Next]_vars,
         \/ BeginScan \/ Reconciled \/ Check \/ Dispatch \/ Release \/ ScanFault
         \/ Tick \/ Crash \/ Boot \/ RecoveryFault \/ UNCHANGED vars
         \/ \E t \in Triggers : Delete(t)
         \/ \E r \in Runs : EndRun(r)
         \/ \E c \in Clients : RequestFault(c)
  PROVE  FailureInv'
<1> USE DEF histVars, scanVars, Reconciling
<1>1. /\ triggers \in [Triggers -> Trigger] /\ copy \in [Triggers -> Trigger]
      /\ DOMAIN request = Clients /\ todo \in SUBSET Triggers
      /\ now <= clock /\ clock \in Nat /\ now \in Nat /\ edits \in Nat
      /\ ~up => scan = "idle"
  BY TriggerSchedulerAssumption DEF FailureInv, FailuresPast, TypeInv, TypeOK, ScanOK
<1>2. edits' = edits \/ edits' = edits + 1
  BY DEF BeginScan, Reconciled, Check, Dispatch, Release, ScanFault, ScanOver, Tick, Crash,
         Boot, RecoveryFault, vars, Delete, EndRun, RequestFault
<1>3. clock' = clock \/ clock' = clock + 1
  BY DEF BeginScan, Reconciled, Check, Dispatch, Release, ScanFault, ScanOver, Tick, Crash,
         Boot, RecoveryFault, vars, Delete, EndRun, RequestFault
<1>4. \/ scan' = "idle" /\ now' = 0
      \/ scan' # "idle" /\ now' = clock /\ clock' = clock
      \/ scan' = scan /\ now' = now
      \/ scan' # "idle" /\ now' = now /\ scan # "idle"
  BY DEF BeginScan, Reconciled, Check, Dispatch, Release, ScanFault, ScanOver, Tick, Crash,
         Boot, RecoveryFault, vars, Delete, EndRun, RequestFault
<1>5. \A c \in Clients : request'[c] \in {request[c], NoRequest}
  BY <1>1 DEF BeginScan, Reconciled, Check, Dispatch, Release, ScanFault, ScanOver, Tick, Crash,
         Boot, RecoveryFault, vars, Delete, EndRun, RequestFault
<1>6. ASSUME NEW t \in Triggers
      PROVE  triggers'[t].error = triggers[t].error /\ triggers'[t].last = triggers[t].last
  <2>1. CASE UNCHANGED triggers
    BY <2>1
  <2>2. ASSUME NEW u \in Triggers, Delete(u)
        PROVE  triggers'[t].error = triggers[t].error /\ triggers'[t].last = triggers[t].last
    <3>1. triggers[t] \in Trigger
      BY <1>1
    <3> QED BY <1>1, <2>2, <3>1 DEF Delete, Trigger
  <2> QED BY <2>1, <2>2
          DEF BeginScan, Reconciled, Check, Dispatch, Release, ScanFault, ScanOver, Tick, Crash,
              Boot, RecoveryFault, vars, EndRun, RequestFault
<1>7. \/ UNCHANGED <<scan, todo, copy>>
      \/ ~Reconciling'
  BY DEF BeginScan, Reconciled, Check, Dispatch, Release, ScanFault, ScanOver, Tick, Crash,
         Boot, RecoveryFault, vars, Delete, EndRun, RequestFault
<1>8. \A t \in Triggers : \/ copy'[t] = copy[t]
                          \/ copy'[t] = NoTrigger /\ (Reconciling' => t \notin todo')
  <2>1. CASE UNCHANGED <<scan, todo, copy>>
    BY <2>1
  <2>2. CASE ~Reconciling'
    <3>1. (\E S : Keep(S)) \/ UNCHANGED copy
      BY DEF BeginScan, Reconciled, Check, Dispatch, Release, ScanFault, ScanOver, Tick, Crash,
             Boot, RecoveryFault, vars, Delete, EndRun, RequestFault
    <3> QED BY <1>1, <2>2, <3>1 DEF Keep
  <2> QED BY <1>7, <2>1, <2>2
<1>9. edits <= edits' /\ clock <= clock'
  BY <1>1, <1>2, <1>3
<1>10. \/ scan' = "idle" /\ now' <= clock'
       \/ scan' # "idle" /\ now' = clock'
       \/ scan' # "idle" /\ now' = now /\ scan # "idle"
  BY <1>1, <1>3, <1>4
<1>11. Reconciling' => Reconciling /\ todo' \subseteq todo
  BY <1>7
<1> HIDE DEF Reconciling
<1> QED BY <1>5, <1>6, <1>8, <1>9, <1>10, <1>11, FailureFrame

\* The rest of the steps take place at one time.
FailedNext(row) ==
  row.error = "dispatch" => row.last <= clock' /\ (scan' # "idle" => row.last <= now')

LEMMA TimeStays ==
  ASSUME FailureInv, UNCHANGED <<clock, now>>, scan' # "idle" => scan # "idle"
  PROVE  /\ now' <= clock'
         /\ \A row : FailedThen(row) => FailedNext(row)
         /\ \A row : row.error # "dispatch" => FailedNext(row)
  BY DEF FailureInv, FailuresPast, FailedThen, FailedNext

\* What the scan lists is the table: nothing in it is newer.
LEMMA FailureList ==
  ASSUME FailureInv, [Next]_vars, ListResults \/ ListDue
  PROVE  FailureInv'
<1>1. TypeInv /\ TypeInv' /\ AbsentRuns'
  BY TypeNext, RunsStay DEF FailureInv
<1>2. /\ UNCHANGED <<clock, now, triggers, runs, request, edits>>
      /\ scan # "idle"
  BY DEF ListResults, ListDue, histVars
<1>3. PICK S : List(S)
  BY DEF ListResults, ListDue
<1>4. \A t \in Triggers : /\ copy'[t] \in {triggers[t], NoTrigger}
                          /\ t \in todo' => copy'[t] = triggers[t]
  BY <1>3 DEF List
<1>5. FailuresPast'
  <2>1. /\ now' <= clock'
        /\ \A row : FailedThen(row) => FailedNext(row)
        /\ \A row : row.error # "dispatch" => FailedNext(row)
    BY <1>2, TimeStays
  <2>2. NoTrigger.error # "dispatch"
    BY DEF NoTrigger
  <2>3. \A t \in Triggers : FailedNext(triggers[t]) /\ FailedNext(copy'[t])
    BY <1>4, <2>1, <2>2 DEF FailureInv, FailuresPast
  <2>4. \A c \in Clients : FailedNext(request[c].row)
    BY <2>1 DEF FailureInv, FailuresPast
  <2> QED BY <1>2, <2>1, <2>3, <2>4 DEF FailuresPast, FailedNext, FailedThen
<1>6. OneRequest'
  BY <1>2 DEF FailureInv, OneRequest
<1>7. NothingNewer'
  <2>1. \A t \in Triggers : triggers[t].last \in Times /\ triggers[t].last <= triggers[t].last
    BY <1>1 DEF TypeInv, TypeOK, Trigger, Times, Never
  <2>2. \A t \in Triggers : t \in todo' => copy'[t].last = triggers[t].last
    BY <1>4
  <2> QED BY <1>2, <2>1, <2>2 DEF FailureInv, NothingNewer, NotNewer
<1> QED BY <1>1, <1>5, <1>6, <1>7 DEF FailureInv

\* The reconciliation writes back the row it has listed, with a result: what was
\* not newer than the listed row is not newer than the one it writes.
LEMMA FailureReconcile ==
  ASSUME FailureInv, [Next]_vars, NEW t \in Triggers, Reconcile(t)
  PROVE  FailureInv'
<1>1. TypeInv /\ TypeInv' /\ AbsentRuns'
  BY TypeNext, RunsStay DEF FailureInv
<1>2. /\ UNCHANGED <<clock, now, runs, request, edits, scan>>
      /\ scan # "idle" /\ Reconciling /\ t \in todo
      /\ Keep(todo \ {t})
  BY DEF Reconcile, histVars, Reconciling
<1>3. /\ \A u \in Triggers : copy'[u] \in {copy[u], NoTrigger}
      /\ todo' = todo \ {t}
      /\ \A u \in Triggers : u \in todo' => copy'[u] = copy[u]
  BY <1>2 DEF Keep
<1>4. /\ \A u \in Triggers \ {t} : triggers'[u] = triggers[u]
      /\ \/ triggers'[t] = triggers[t]
         \/ triggers'[t].last = copy[t].last /\ triggers'[t].error # "dispatch"
  <2>1. triggers \in [Triggers -> Trigger] /\ copy[t] \in Trigger
    BY <1>1 DEF TypeInv, TypeOK
  <2>2. \A run : /\ WithResult(copy[t], run).last = copy[t].last
                 /\ WithResult(copy[t], run).error # "dispatch"
    BY <2>1 DEF WithResult, Trigger
  <2>3. \/ UNCHANGED triggers
        \/ \E run : triggers' = Written(t, WithResult(copy[t], run))
    BY DEF Reconcile
  <2> QED BY <2>1, <2>2, <2>3 DEF Written
<1>5. FailuresPast'
  <2>1. /\ now' <= clock'
        /\ \A row : FailedThen(row) => FailedNext(row)
        /\ \A row : row.error # "dispatch" => FailedNext(row)
    BY <1>2, TimeStays
  <2>2. NoTrigger.error # "dispatch"
    BY DEF NoTrigger
  <2>3. \A u \in Triggers : FailedNext(triggers'[u]) /\ FailedNext(copy'[u])
    BY <1>3, <1>4, <2>1, <2>2 DEF FailureInv, FailuresPast
  <2>4. \A c \in Clients : FailedNext(request[c].row)
    BY <2>1 DEF FailureInv, FailuresPast
  <2> QED BY <1>2, <2>1, <2>3, <2>4 DEF FailuresPast, FailedNext, FailedThen
<1>6. OneRequest'
  BY <1>2 DEF FailureInv, OneRequest
<1>7. ASSUME edits < 2, NEW u \in Triggers, Reconciling', u \in todo'
      PROVE  (NotNewer(u, triggers[u], copy[u].last))'
  <2>1. u # t /\ u \in todo /\ triggers'[u] = triggers[u] /\ copy'[u] = copy[u]
    BY <1>3, <1>4, <1>7
  <2>2. NotNewer(u, triggers[u], copy[u].last)
    BY <1>2, <1>7, <2>1 DEF FailureInv, NothingNewer
  <2> QED BY <1>2, <2>1, <2>2 DEF NotNewer
<1>8. ASSUME edits < 2, NEW c \in Clients, NEW u \in Triggers, request[c].trigger = u
      PROVE  /\ (NotNewer(u, request[c].row, triggers[u].last))'
             /\ Reconciling' /\ u \in todo' => (NotNewer(u, request[c].row, copy[u].last))'
  <2>1. /\ NotNewer(u, request[c].row, triggers[u].last)
        /\ u \in todo => NotNewer(u, request[c].row, copy[u].last)
    BY <1>2, <1>8 DEF FailureInv, NothingNewer
  <2>2. /\ triggers'[u].last = triggers[u].last \/ (u = t /\ triggers'[u].last = copy[u].last)
        /\ u \in todo' => copy'[u] = copy[u] /\ u \in todo
    BY <1>3, <1>4
  <2> QED BY <1>2, <2>1, <2>2 DEF NotNewer
<1>9. NothingNewer'
  BY <1>2, <1>7, <1>8 DEF NothingNewer
<1> QED BY <1>1, <1>5, <1>6, <1>9 DEF FailureInv

\* The recording has the time of the scan, the latest a failure can have.
LEMMA FailureRecord ==
  ASSUME FailureInv, [Next]_vars, Record
  PROVE  FailureInv'
<1>1. TypeInv /\ TypeInv' /\ AbsentRuns'
  BY TypeNext, RunsStay DEF FailureInv
<1>2. /\ UNCHANGED <<clock, now, runs, request, edits>>
      /\ scan # "idle" /\ ~Reconciling'
      /\ Keep(todo \ {chosen})
      /\ triggers' = Written(chosen, Dispatched(copy[chosen], chosen))
  BY DEF Record, histVars, Reconciling
<1>3. \A u \in Triggers : copy'[u] \in {copy[u], NoTrigger}
  BY <1>2 DEF Keep
<1>4. \A u \in Triggers : triggers'[u] = triggers[u] \/ triggers'[u].last = now
  <2>1. triggers \in [Triggers -> Trigger] /\ chosen \in Triggers /\ copy[chosen] \in Trigger
    BY <1>1 DEF TypeInv, TypeOK, Record
  <2>2. Dispatched(copy[chosen], chosen).last = now
    BY <2>1 DEF Dispatched, Trigger
  <2> QED BY <1>2, <2>1, <2>2 DEF Written
<1>5. now \in Nat /\ now <= now
  BY <1>1, TriggerSchedulerAssumption DEF TypeInv, TypeOK
<1>6. FailuresPast'
  <2>1. /\ now' <= clock'
        /\ \A row : FailedThen(row) => FailedNext(row)
        /\ \A row : row.error # "dispatch" => FailedNext(row)
    BY <1>2, TimeStays
  <2>2. NoTrigger.error # "dispatch"
    BY DEF NoTrigger
  <2>3. \A row : row.last = now => FailedNext(row)
    BY <1>2, <1>5, <2>1 DEF FailedNext
  <2>4. \A u \in Triggers : FailedNext(triggers'[u]) /\ FailedNext(copy'[u])
    BY <1>3, <1>4, <2>1, <2>2, <2>3 DEF FailureInv, FailuresPast
  <2>5. \A c \in Clients : FailedNext(request[c].row)
    BY <2>1 DEF FailureInv, FailuresPast
  <2> QED BY <1>2, <2>1, <2>4, <2>5 DEF FailuresPast, FailedNext, FailedThen
<1>7. OneRequest'
  BY <1>2 DEF FailureInv, OneRequest
<1>8. ASSUME edits < 2, NEW c \in Clients, NEW u \in Triggers, request[c].trigger = u
      PROVE  (NotNewer(u, request[c].row, triggers[u].last))'
  <2>1. NotNewer(u, request[c].row, triggers[u].last)
    BY <1>8 DEF FailureInv, NothingNewer
  <2>2. request[c].row.error = "dispatch" => request[c].row.last <= now
    BY <1>2 DEF FailureInv, FailuresPast, FailedThen
  <2> QED BY <1>2, <1>4, <2>1, <2>2 DEF NotNewer
<1>9. NothingNewer'
  BY <1>2, <1>8 DEF NothingNewer
<1> QED BY <1>1, <1>6, <1>7, <1>9 DEF FailureInv

\* A request reads what the table shows: it is no newer than the table.
LEMMA FailureRead ==
  ASSUME FailureInv, [Next]_vars, NEW c \in Clients, NEW t \in Triggers,
         EditRead(c, t) \/ ManualRead(c, t)
  PROVE  FailureInv'
<1>1. TypeInv /\ TypeInv' /\ AbsentRuns'
  BY TypeNext, RunsStay DEF FailureInv
<1>2. /\ UNCHANGED <<clock, now, runs, triggers, copy, todo, scan>>
      /\ edits' = edits + 1 /\ edits \in Nat
  BY <1>1, TriggerSchedulerAssumption
  DEF EditRead, ManualRead, scanVars, histVars, TypeInv, TypeOK
<1>3. PICK row : /\ request' = [request EXCEPT ![c] = request'[c]]
                 /\ request'[c].trigger = t /\ request'[c].row = row
                 /\ \/ row.error # "dispatch"
                    \/ row.error = triggers[t].error /\ row.last = triggers[t].last
  <2>1. triggers[t] \in Trigger /\ DOMAIN request = Clients
    BY <1>1 DEF TypeInv, TypeOK
  <2>2. ASSUME NEW kind, NEW row, Ask(c, kind, t, row)
        PROVE  /\ request' = [request EXCEPT ![c] = request'[c]]
               /\ request'[c].trigger = t /\ request'[c].row = row
    BY <2>1, <2>2 DEF Ask
  <2>3. /\ Resumed(t, triggers[t]).error = "none"
        /\ Paused(triggers[t]).error = triggers[t].error
        /\ Paused(triggers[t]).last = triggers[t].last
        /\ [triggers[t] EXCEPT !.error = "none"].error = "none"
        /\ [triggers[t] EXCEPT !.status = "blocked", !.next = Never, !.last = clock,
                               !.error = "disk"].error = "disk"
    BY <2>1 DEF Resumed, Paused, Trigger
  <2>4. PICK kind, row :
          /\ Ask(c, kind, t, row)
          /\ row \in {Resumed(t, triggers[t]), Paused(triggers[t]), triggers[t],
                      [triggers[t] EXCEPT !.error = "none"],
                      [triggers[t] EXCEPT !.status = "blocked", !.next = Never,
                                          !.last = clock, !.error = "disk"]}
    BY Zenon DEF EditRead, ManualRead
  <2>5. \/ row.error # "dispatch"
        \/ row.error = triggers[t].error /\ row.last = triggers[t].last
    BY <2>3, <2>4
  <2> QED BY <2>2, <2>4, <2>5
<1>4. /\ \A d \in Clients \ {c} : request'[d] = request[d]
      /\ request[c] = NoRequest
  <2>1. DOMAIN request = Clients
    BY <1>1 DEF TypeInv, TypeOK
  <2> QED BY <1>3, <2>1 DEF EditRead, ManualRead, CanAsk
<1>5. FailuresPast'
  <2>1. /\ now' <= clock'
        /\ \A r : FailedThen(r) => FailedNext(r)
        /\ \A r : r.error # "dispatch" => FailedNext(r)
    BY <1>2, TimeStays
  <2>2. \A u \in Triggers : FailedNext(triggers[u]) /\ FailedNext(copy[u])
    BY <2>1 DEF FailureInv, FailuresPast
  <2>3. FailedNext(row)
    BY <1>3, <2>1, <2>2 DEF FailedNext
  <2>4. \A d \in Clients : FailedNext(request'[d].row)
    BY <1>3, <1>4, <2>1, <2>3 DEF FailureInv, FailuresPast
  <2> QED BY <1>2, <2>1, <2>2, <2>4 DEF FailuresPast, FailedNext, FailedThen
<1>6. OneRequest'
  <2>1. edits' # 0 /\ (edits' < 2 => edits = 0)
    BY <1>2
  <2>2. edits = 0 => \A d \in Clients : request[d] = NoRequest
    BY DEF FailureInv, OneRequest
  <2>3. edits' < 2 => \A d \in Clients : request'[d] # NoRequest => d = c
    BY <1>4, <2>1, <2>2
  <2> QED BY <2>1, <2>3 DEF OneRequest
<1>7. NothingNewer'
  <2> SUFFICES ASSUME edits' < 2
               PROVE  /\ \A u \in Triggers : Reconciling /\ u \in todo =>
                           (NotNewer(u, triggers[u], copy[u].last))'
                      /\ \A d \in Clients, u \in Triggers : request'[d].trigger = u =>
                           /\ (NotNewer(u, request[d].row, triggers[u].last))'
                           /\ Reconciling /\ u \in todo =>
                                (NotNewer(u, request[d].row, copy[u].last))'
    BY <1>2 DEF NothingNewer, Reconciling
  <2>1. edits < 2
    BY <1>2
  <2>2. \A u \in Triggers : Reconciling /\ u \in todo => NotNewer(u, triggers[u], copy[u].last)
    BY <2>1 DEF FailureInv, NothingNewer
  <2>3. ASSUME NEW d \in Clients \ {c}, NEW u \in Triggers, request'[d].trigger = u
        PROVE  /\ NotNewer(u, request[d].row, triggers[u].last)
               /\ Reconciling /\ u \in todo => NotNewer(u, request[d].row, copy[u].last)
    BY <1>4, <2>1, <2>3 DEF FailureInv, NothingNewer
  <2>4. /\ NotNewer(t, row, triggers[t].last)
        /\ Reconciling /\ t \in todo => NotNewer(t, row, copy[t].last)
    <3>1. triggers[t].last <= triggers[t].last
      BY <1>1 DEF TypeInv, TypeOK, Trigger, Times, Never
    <3> QED BY <1>3, <2>2, <3>1 DEF NotNewer
  <2>5. \A d \in Clients : d # c => request'[d] = request[d]
    BY <1>4
  <2>6. \A d \in Clients, u \in Triggers : request'[d].trigger = u =>
          /\ NotNewer(u, request'[d].row, triggers[u].last)
          /\ Reconciling /\ u \in todo => NotNewer(u, request'[d].row, copy[u].last)
    BY <1>3, <2>3, <2>4, <2>5
  <2> QED BY <1>2, <2>2, <2>6 DEF NotNewer
<1> QED BY <1>1, <1>5, <1>6, <1>7 DEF FailureInv

\* A manual run clears the failure in the row its request holds.
LEMMA FailureManual ==
  ASSUME FailureInv, [Next]_vars, NEW c \in Clients, ManualRun(c)
  PROVE  FailureInv'
<1>1. TypeInv /\ TypeInv' /\ AbsentRuns'
  BY TypeNext, RunsStay DEF FailureInv
<1>2. UNCHANGED <<clock, now, triggers, copy, todo, scan, edits>>
  BY DEF ManualRun, scanVars, histVars
<1>3. /\ \A d \in Clients \ {c} : request'[d] = request[d]
      /\ request[c] # NoRequest /\ request'[c].row.error # "dispatch"
  <2>1. request[c].row \in Trigger /\ DOMAIN request = Clients
    BY <1>1 DEF TypeInv, TypeOK
  <2>2. ASSUME NEW kind, NEW t, NEW row, Ask(c, kind, t, row)
        PROVE  (\A d \in Clients \ {c} : request'[d] = request[d]) /\ request'[c].row = row
    BY <2>1, <2>2 DEF Ask
  <2>3. PICK status, row : /\ Ask(c, "write", request[c].trigger, row)
                           /\ row = [request[c].row EXCEPT !.last = clock, !.error = "none",
                                       !.success = IF status = "completed" THEN clock ELSE @]
    BY Zenon DEF ManualRun
  <2>4. row.error = "none"
    BY <2>1, <2>3 DEF Trigger
  <2>5. request[c] # NoRequest
    BY DEF ManualRun, NoRequest
  <2> QED BY <2>2, <2>3, <2>4, <2>5
<1>4. FailuresPast'
  <2>1. /\ now' <= clock'
        /\ \A r : FailedThen(r) => FailedNext(r)
        /\ \A r : r.error # "dispatch" => FailedNext(r)
    BY <1>2, TimeStays
  <2>2. \A u \in Triggers : FailedNext(triggers[u]) /\ FailedNext(copy[u])
    BY <2>1 DEF FailureInv, FailuresPast
  <2>3. \A d \in Clients : d # c => FailedNext(request'[d].row)
    BY <1>3, <2>1 DEF FailureInv, FailuresPast
  <2>4. FailedNext(request'[c].row)
    BY <1>3, <2>1
  <2> QED BY <1>2, <2>1, <2>2, <2>3, <2>4 DEF FailuresPast, FailedNext, FailedThen
<1>5. OneRequest'
  <2>1. \A d \in Clients : request'[d] # NoRequest => request[d] # NoRequest
    BY <1>3
  <2>2. edits = 0 => \A d \in Clients : request[d] = NoRequest
    BY DEF FailureInv, OneRequest
  <2>3. edits # 0
    BY <1>3, <2>2
  <2> QED BY <1>2, <2>1, <2>3 DEF FailureInv, OneRequest
<1>6. \A u \in Triggers : \A row, last : NotNewer(u, row, last) => NotNewerNext(u, row, last)
  BY RunsStay
<1>7. ASSUME edits < 2, NEW u \in Triggers, Reconciling, u \in todo
      PROVE  (NotNewer(u, triggers[u], copy[u].last))'
  <2>1. NotNewerNext(u, triggers[u], copy[u].last)
    BY <1>6, <1>7 DEF FailureInv, NothingNewer
  <2> QED BY <1>2, <2>1 DEF NotNewer, NotNewerNext
<1>8. ASSUME edits < 2, NEW d \in Clients, NEW u \in Triggers, request'[d].trigger = u
      PROVE  /\ (NotNewer(u, request[d].row, triggers[u].last))'
             /\ Reconciling /\ u \in todo => (NotNewer(u, request[d].row, copy[u].last))'
  <2>1. CASE d = c
    BY <1>3, <2>1 DEF NotNewer
  <2>2. CASE d # c
    <3>1. request'[d] = request[d]
      BY <1>3, <2>2
    <3>2. /\ NotNewer(u, request[d].row, triggers[u].last)
          /\ Reconciling /\ u \in todo => NotNewer(u, request[d].row, copy[u].last)
      BY <1>8, <3>1 DEF FailureInv, NothingNewer
    <3>3. /\ NotNewerNext(u, request[d].row, triggers[u].last)
          /\ Reconciling /\ u \in todo => NotNewerNext(u, request[d].row, copy[u].last)
      BY <1>6, <3>2
    <3> QED BY <1>2, <3>1, <3>3 DEF NotNewer, NotNewerNext
  <2> QED BY <2>1, <2>2
<1>9. NothingNewer'
  <2>1. edits' = edits /\ todo' = todo /\ (Reconciling' <=> Reconciling)
    BY <1>2 DEF Reconciling
  <2> QED BY <1>7, <1>8, <2>1 DEF NothingNewer
<1> QED BY <1>1, <1>4, <1>5, <1>9 DEF FailureInv

\* The only request writes a row that is not newer than what the scan has listed.
LEMMA FailureWrite ==
  ASSUME FailureInv, [Next]_vars, NEW c \in Clients, RequestWrite(c)
  PROVE  FailureInv'
<1>1. TypeInv /\ TypeInv' /\ AbsentRuns'
  BY TypeNext, RunsStay DEF FailureInv
<1>2. /\ UNCHANGED <<clock, now, runs, copy, todo, scan, edits>>
      /\ request' = [request EXCEPT ![c] = NoRequest]
      /\ triggers' = Written(request[c].trigger, request[c].row)
      /\ request[c] # NoRequest
  BY DEF RequestWrite, scanVars, histVars, NoRequest
<1>3. /\ request'[c] = NoRequest
      /\ \A d \in Clients : d # c => request'[d] = request[d]
  BY <1>1, <1>2 DEF TypeInv, TypeOK
<1>4. \A u \in Triggers : \/ triggers'[u] = triggers[u]
                          \/ triggers'[u] = request[c].row /\ request[c].trigger = u
  BY <1>1, <1>2 DEF Written, TypeInv, TypeOK
<1>5. FailuresPast'
  <2>1. /\ now' <= clock'
        /\ \A r : FailedThen(r) => FailedNext(r)
        /\ \A r : r.error # "dispatch" => FailedNext(r)
    BY <1>2, TimeStays
  <2>2. \A u \in Triggers : FailedNext(triggers[u]) /\ FailedNext(copy[u])
    BY <2>1 DEF FailureInv, FailuresPast
  <2>3. \A d \in Clients : FailedNext(request[d].row)
    BY <2>1 DEF FailureInv, FailuresPast
  <2>4. \A u \in Triggers : FailedNext(triggers'[u])
    BY <1>4, <2>2, <2>3
  <2>5. NoRequest.row.error # "dispatch"
    BY DEF NoRequest, NoTrigger
  <2>6. \A d \in Clients : FailedNext(request'[d].row)
    BY <1>3, <2>1, <2>3, <2>5
  <2> QED BY <1>2, <2>1, <2>2, <2>4, <2>6 DEF FailuresPast, FailedNext, FailedThen
<1>6. OneRequest'
  <2>1. \A d \in Clients : request'[d] # NoRequest => request[d] # NoRequest
    BY <1>3
  <2>2. edits = 0 => \A d \in Clients : request[d] = NoRequest
    BY DEF FailureInv, OneRequest
  <2>3. edits # 0
    BY <1>2, <2>2
  <2> QED BY <1>2, <2>1, <2>3 DEF FailureInv, OneRequest
<1>7. edits < 2 => \A d \in Clients, u \in Triggers : request'[d].trigger # u
  <2>1. edits < 2 => \A d \in Clients : request'[d] = NoRequest
    BY <1>2, <1>3 DEF FailureInv, OneRequest
  <2> QED BY <2>1 DEF NoRequest, Triggers
<1>8. ASSUME edits < 2, NEW u \in Triggers, Reconciling, u \in todo
      PROVE  (NotNewer(u, triggers[u], copy[u].last))'
  <2>1. NotNewer(u, triggers[u], copy[u].last)
    BY <1>8 DEF FailureInv, NothingNewer
  <2>2. request[c].trigger = u => NotNewer(u, request[c].row, copy[u].last)
    BY <1>8 DEF FailureInv, NothingNewer
  <2> QED BY <1>2, <1>4, <2>1, <2>2 DEF NotNewer
<1>9. NothingNewer'
  <2>1. edits' = edits /\ todo' = todo /\ (Reconciling' <=> Reconciling)
    BY <1>2 DEF Reconciling
  <2> QED BY <1>7, <1>8, <2>1 DEF NothingNewer
<1> QED BY <1>1, <1>5, <1>6, <1>9 DEF FailureInv

LEMMA FailureNext == FailureInv /\ [Next]_vars => FailureInv'
<1> SUFFICES ASSUME FailureInv, [Next]_vars PROVE FailureInv'
  OBVIOUS
<1> QED
  BY FailureQuiet, FailureList, FailureReconcile, FailureRecord, FailureRead, FailureManual,
     FailureWrite
  DEF Next, Scan

\* With one request at most, the only step that could erase a failure during the
\* reconciliation has found a run that is not older than it.
LEMMA FailureStep ==
  ASSUME FailureInv, [Next]_vars, NEW t \in Triggers, edits < 2
  PROVE  ~FailureErased(t)
<1> SUFFICES ASSUME FailureErased(t) PROVE FALSE
  OBVIOUS
<1>1. /\ Reconciling /\ triggers[t].error = "dispatch" /\ triggers'[t].error # "dispatch"
      /\ request' = request
      /\ \A r \in Runs : runs[r].trigger = t => runs[r].created < triggers[t].last
  BY DEF FailureErased, Reconciling
<1>2. /\ triggers \in [Triggers -> Trigger] /\ copy \in [Triggers -> Trigger]
      /\ runs \in [Runs -> Run] /\ DOMAIN request = Clients
  BY DEF FailureInv, TypeInv, TypeOK
<1>3. Reconcile(t)
  <2>1. ASSUME NEW u \in Triggers, Reconcile(u) PROVE u = t
    BY <1>1, <1>2, <2>1 DEF Reconcile, Written
  <2>2. ASSUME NEW u \in Triggers, Delete(u) PROVE FALSE
    <3>1. triggers[t] \in Trigger
      BY <1>2
    <3> QED BY <1>1, <1>2, <2>2, <3>1 DEF Delete, Trigger
  <2>3. ASSUME NEW c \in Clients, RequestWrite(c) PROVE FALSE
    <3>1. request'[c] = NoRequest /\ request[c].kind = "write"
      BY <1>2, <2>3 DEF RequestWrite
    <3> QED BY <1>1, <3>1 DEF NoRequest
  <2>4. ~Record
    BY <1>1 DEF Record, Reconciling
  <2>5. ASSUME \/ BeginScan \/ ListResults \/ Reconciled \/ ListDue \/ Check \/ Dispatch \/ Release
               \/ ScanFault
        PROVE  FALSE
    BY <1>1, <2>5 DEF BeginScan, ListResults, Reconciled, ListDue, Check, Dispatch, Release,
                      ScanFault, ScanOver
  <2>6. ASSUME \/ Tick \/ Crash \/ Boot \/ RecoveryFault \/ UNCHANGED vars
               \/ \E r \in Runs : EndRun(r)
               \/ \E c \in Clients, u \in Triggers : EditRead(c, u) \/ ManualRead(c, u)
               \/ \E c \in Clients : ManualRun(c) \/ RequestFault(c)
        PROVE  FALSE
    BY <1>1, <2>6 DEF Tick, Crash, Boot, RecoveryFault, vars, EndRun, EditRead, ManualRead,
                      ManualRun, RequestFault
  <2> QED BY <2>1, <2>2, <2>3, <2>4, <2>5, <2>6 DEF Next, Scan
<1>4. PICK r \in Runs : runs[r].trigger = t /\ copy[t].last <= runs[r].created
  BY <1>1, <1>3 DEF Reconcile, LatestOf, IsCurrent
<1>5. t \in todo
  BY <1>3 DEF Reconcile
<1>6. \/ triggers[t].last <= copy[t].last
      \/ \E q \in Runs : runs[q].trigger = t /\ runs[q].created >= triggers[t].last
  BY <1>1, <1>5 DEF FailureInv, NothingNewer, NotNewer
<1>7. /\ triggers[t].last \in Int /\ copy[t].last \in Int
      /\ \A q \in Runs : runs[q].created \in Int
  <2>1. triggers[t] \in Trigger /\ copy[t] \in Trigger /\ \A q \in Runs : runs[q] \in Run
    BY <1>2
  <2> QED BY <2>1 DEF Trigger, Times, Never, Run
<1> QED BY <1>1, <1>4, <1>6, <1>7

\* A dispatch failure is not erased by the success of an older run, for any
\* number of triggers, runs, errors and crashes, as long as at most one request
\* has been made: stale rows of the scan alone do no harm.
THEOREM FailuresAreKept == Spec => FailureIsKept
<1>1. FailureInv /\ [Next]_vars => [\A t \in Triggers : edits < 2 => ~FailureErased(t)]_vars
  BY FailureStep
<1> QED BY <1>1, FailureInit, FailureNext, PTL DEF Spec, FailureIsKept

-----------------------------------------------------------------------------
(* The claim of the scan. *)

\* Only the finally block ends a scan, and it deletes the claim unless the
\* deletion is what fails.
LEMMA ClaimNext == TypeInv /\ ClaimIsScanning /\ [Next]_vars => ClaimIsScanning'
<1> SUFFICES ASSUME TypeInv, ClaimIsScanning, [Next]_vars PROVE ClaimIsScanning'
  OBVIOUS
<1> USE DEF scanVars, histVars
<1>1. faults \in Nat
  BY TriggerSchedulerAssumption DEF TypeInv, TypeOK
<1>2. CASE BeginScan
  BY <1>2 DEF BeginScan, ClaimIsScanning
<1>3. CASE \/ ListResults \/ (\E t \in Triggers : Reconcile(t)) \/ Reconciled
           \/ ListDue \/ Check \/ Dispatch \/ Record
  <2>1. scan' # "idle"
    BY <1>3 DEF ListResults, Reconcile, Reconciled, ListDue, Check, Dispatch, Record
  <2> QED BY <2>1 DEF ClaimIsScanning
<1>4. CASE Release
  BY <1>4 DEF Release, ClaimIsScanning
<1>5. CASE ScanFault \/ RecoveryFault
  <2>1. faults' > 0
    BY <1>1, <1>5 DEF ScanFault, RecoveryFault
  <2> QED BY <2>1 DEF ClaimIsScanning
<1>6. CASE Crash \/ Boot
  BY <1>6 DEF Crash, Boot, ClaimAfterBoot, ClaimIsScanning
<1>7. CASE \/ \E c \in Clients, t \in Triggers : EditRead(c, t) \/ ManualRead(c, t)
           \/ \E c \in Clients : ManualRun(c) \/ RequestWrite(c) \/ RequestFault(c)
           \/ \E t \in Triggers : Delete(t)
           \/ \E r \in Runs : EndRun(r)
           \/ Tick \/ UNCHANGED vars
  <2>1. UNCHANGED <<up, claimed, scan>> /\ (faults' = faults \/ faults' = faults + 1)
    BY <1>7
    DEF EditRead, ManualRead, ManualRun, RequestWrite, RequestFault, Delete, EndRun, Tick, vars
  <2> QED BY <1>1, <2>1 DEF ClaimIsScanning
<1> QED BY <1>2, <1>3, <1>4, <1>5, <1>6, <1>7 DEF Next, Scan

\* A scheduler claim without a scan is owed to a database error: as long as there
\* has been none, every scan that is started does its work.
THEOREM ScansAreNotHeldUp == Spec => []ClaimIsScanning
<1>1. Init => ClaimIsScanning
  BY DEF Init, ClaimIsScanning
<1> QED BY <1>1, ClaimNext, TypeInit, TypeNext, PTL DEF Spec
=============================================================================
