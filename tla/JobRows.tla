------------------------------ MODULE JobRows ------------------------------
(***************************************************************************)
(* The rows of the jobs table and the statements of JobRepository that     *)
(* write them, as functions on a row or on the whole table.  Everything    *)
(* that touches a job (the HTTP API, the queue, the worker threads, the    *)
(* startup recovery) goes through these operators.                         *)
(*                                                                         *)
(* A job is a number: jobs are numbered in the order of created_at, the    *)
(* order in which the queue serves them.  Every job is created with        *)
(* activation_scope = one_time, as all the callers of JobService do.       *)
(***************************************************************************)
EXTENDS Integers, FiniteSets

CONSTANTS
  MaxJobs,        \* bound: how many jobs are ever created
  MaxFiles,       \* bound: files of one job, the steps of its progress
  MaxActiveJobs   \* setting max_active_run_jobs

ASSUME JobRowsAssumption ==
  /\ MaxJobs \in Nat
  /\ MaxFiles \in Nat
  /\ MaxActiveJobs \in Nat \ {0}

Jobs == 1..MaxJobs

WaitingStatuses  == {"inactive", "queued"}
ActiveStatuses   == WaitingStatuses \cup {"running"}
TerminalStatuses == {"completed", "failed", "cancelled"}

\* status "absent" is a row that has not been inserted; done is completed_files
Row == [status : {"absent"} \cup ActiveStatuses \cup TerminalStatuses,
        cancel : BOOLEAN,
        done   : 0..MaxFiles]

NoRow == [status |-> "absent", cancel |-> FALSE, done |-> 0]

-----------------------------------------------------------------------------
(* One row. *)

\* JobRepository.update: the caller's whole copy replaces the row by id, but a
\* requested cancellation is never lost and turns completed into cancelled.
UpdateUnguarded(row, copy) == [copy EXCEPT !.cancel = row.cancel \/ copy.cancel]
Update(row, copy) ==
  [status |-> IF row.cancel /\ copy.status = "completed"
              THEN "cancelled" ELSE copy.status,
   cancel |-> row.cancel \/ copy.cancel,
   done   |-> copy.done]

\* JobRepository.request_cancel
RequestCancel(row) == [row EXCEPT !.cancel = TRUE]

\* JobRepository.requeue_jobs, used by the startup recovery
RequeueForgotten(row) == row
RequeueAnyStatus(row) == [row EXCEPT !.status = "queued", !.done = 0]
Requeue(row) ==
  IF row.status = "running"
  THEN [row EXCEPT !.status = "queued", !.done = 0]
  ELSE row

\* JobQueue._requeue_unfinished, used when a worker thread raised
RequeueUnfinishedForgotten(row) == row
RequeueUnfinished(row) ==
  IF row.status = "running" THEN [row EXCEPT !.status = "queued"] ELSE row

\* the record _finish writes for a cancelled and for a failed job
Cancelled(row) == [row EXCEPT !.status = "cancelled", !.cancel = TRUE]
Failed(row)    == [row EXCEPT !.status = "failed"]

-----------------------------------------------------------------------------
(* The table, a function from jobs to rows. *)

WithStatus(table, S) == {j \in Jobs : table[j].status \in S}

\* JobRepository.count_active_one_time
CountOnlyQueued(table) == Cardinality(WithStatus(table, {"queued"}))
CountActiveOneTime(table) ==
  Cardinality(WithStatus(table, {"queued", "running"}))

\* JobRepository.create_node_job decides the status inside its transaction
CreationStatus(table) ==
  IF CountActiveOneTime(table) < MaxActiveJobs THEN "queued" ELSE "inactive"

\* the rows JobRepository.list_inactive_one_time(limit=capacity) returns:
\* the oldest inactive jobs, as many as there is capacity for
OldestInactive(table, promoted) ==
  LET inactive == WithStatus(table, {"inactive"})
      capacity == MaxActiveJobs - CountActiveOneTime(table)
  IN /\ promoted \subseteq inactive
     /\ promoted = {} \/ Cardinality(promoted) <= capacity
     /\ promoted = inactive \/ Cardinality(promoted) >= capacity
     /\ \A i \in promoted, k \in inactive \ promoted : i < k

\* JobRepository.activate_one_time
Activated(table, promoted) ==
  [j \in Jobs |-> IF j \in promoted
                  THEN [table[j] EXCEPT !.status = "queued"] ELSE table[j]]

\* JobRepository.next_queued
IsNextQueued(table, j) ==
  /\ j \in WithStatus(table, {"queued"})
  /\ \A i \in WithStatus(table, {"queued"}) : j <= i

\* JobRepository.create_node_job inserts the next row
IsNextNew(table, j) ==
  /\ j \in WithStatus(table, {"absent"})
  /\ \A i \in WithStatus(table, {"absent"}) : j <= i
=============================================================================
