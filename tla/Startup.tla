------------------------------ MODULE Startup ------------------------------
(***************************************************************************)
(* The start of the application: migrate_database brings the schema up to  *)
(* date, then interrupted workflows are recovered, then the job queue and  *)
(* the scheduler start; a shutdown stops them in the opposite order.       *)
(*                                                                         *)
(* The scripts are numbered 1..Migrations.  A script and the row of its    *)
(* version are one transaction; `changes' counts how often each script has *)
(* been committed.  Two processes may be started on one database, although *)
(* only one is supported: they then run the scripts under the same write   *)
(* lock, and the second finds the version recorded when it records it.     *)
(***************************************************************************)
EXTENDS Integers, FiniteSets

CONSTANTS
  Processes,        \* processes started on the database
  Migrations,       \* number of scripts
  Shipped,          \* scripts of an older version of the program
  MaxStarts         \* bound: starts

ASSUME StartupAssumption ==
  /\ Migrations \in Nat /\ Shipped \in 0..Migrations /\ MaxStarts \in Nat

VARIABLES
  changes,   \* committed executions of each script
  recorded,  \* schema_migrations
  writer,    \* the process inside BEGIN IMMEDIATE, a set of at most one
  process,   \* where each process is, what it has read, which script it is at
  starts     \* history

startupVars == <<changes, recorded, writer, process, starts>>

Versions == 1..Migrations

\* dirty: the transaction holds the changes of a script
Phases == {"down", "reading", "choosing", "executing", "recording", "committing",
           "recovering", "starting queue", "starting scheduler", "serving", "stopping"}
Process == [phase : Phases, scripts : 0..Migrations, applied : SUBSET Versions,
            version : 0..Migrations, dirty : BOOLEAN, queue : BOOLEAN, scheduler : BOOLEAN]

Down == [phase |-> "down", scripts |-> 0, applied |-> {}, version |-> 0, dirty |-> FALSE,
         queue |-> FALSE, scheduler |-> FALSE]

StartupInit == /\ changes = [v \in Versions |-> 0] /\ recorded = {} /\ writer = {}
               /\ process = [p \in Processes |-> Down]
               /\ starts = 0

In(p, phase) == process[p].phase = phase
Enter(p, phase) == process' = [process EXCEPT ![p].phase = phase]

-----------------------------------------------------------------------------
(* migrate_database. *)

\* The program may be an older version, with fewer scripts.
StartProcess(p) ==
  /\ In(p, "down") /\ starts < MaxStarts
  /\ starts' = starts + 1
  /\ \E n \in {Shipped, Migrations} :
       process' = [process EXCEPT ![p] = [Down EXCEPT !.phase = "reading", !.scripts = n]]
  /\ UNCHANGED <<changes, recorded, writer>>

\* ensure_migration_table, get_applied_versions
ReadVersions(p) ==
  /\ In(p, "reading")
  /\ process' = [process EXCEPT ![p].phase = "choosing", ![p].applied = recorded]
  /\ UNCHANGED <<changes, recorded, writer, starts>>

Missing(p) == {v \in 1..process[p].scripts : v > process[p].version} \ process[p].applied

ChooseScript(p) ==
  /\ In(p, "choosing")
  /\ \/ Missing(p) = {} /\ Enter(p, "recovering")
     \/ \E v \in Missing(p) :
          /\ \A w \in Missing(p) : v <= w
          /\ process' = [process EXCEPT ![p].phase = "executing", ![p].version = v]
  /\ UNCHANGED <<changes, recorded, writer, starts>>

\* BEGIN IMMEDIATE and the script
CommittedAtOnce(v) == [changes EXCEPT ![v] = @ + 1]
AfterScript(v) == changes

ExecuteScript(p) ==
  /\ In(p, "executing") /\ writer = {}
  /\ writer' = {p}
  /\ changes' = AfterScript(process[p].version)
  /\ process' = [process EXCEPT ![p].phase = "recording", ![p].dirty = TRUE]
  /\ UNCHANGED <<recorded, starts>>

\* rollback; the error ends the process
FailStartup(p) ==
  /\ process[p].phase \in {"reading", "choosing", "executing", "recording", "committing"}
  /\ writer' = writer \ {p}
  /\ process' = [process EXCEPT ![p] = Down]
  /\ UNCHANGED <<changes, recorded, starts>>

\* INSERT INTO schema_migrations: the version is the primary key.
RecordVersion(p) ==
  /\ In(p, "recording") /\ process[p].version \notin recorded
  /\ Enter(p, "committing")
  /\ UNCHANGED <<changes, recorded, writer, starts>>

CommitScript(p) ==
  /\ In(p, "committing")
  /\ changes' = [changes EXCEPT ![process[p].version] = @ + IF process[p].dirty THEN 1 ELSE 0]
  /\ recorded' = recorded \cup {process[p].version}
  /\ writer' = writer \ {p}
  /\ process' = [process EXCEPT ![p].phase = "choosing", ![p].dirty = FALSE]
  /\ UNCHANGED starts

-----------------------------------------------------------------------------
(* lifespan. *)

\* An error of the recovery is logged, and the application starts without it.
Recover(p) == /\ In(p, "recovering")
              /\ Enter(p, "starting queue")
              /\ UNCHANGED <<changes, recorded, writer, starts>>

StartQueue(p) ==
  /\ In(p, "starting queue")
  /\ process' = [process EXCEPT ![p].phase = "starting scheduler", ![p].queue = TRUE]
  /\ UNCHANGED <<changes, recorded, writer, starts>>

StartScheduler(p) ==
  /\ In(p, "starting scheduler")
  /\ process' = [process EXCEPT ![p].phase = "serving", ![p].scheduler = TRUE]
  /\ UNCHANGED <<changes, recorded, writer, starts>>

StopScheduler(p) ==
  /\ In(p, "serving")
  /\ process' = [process EXCEPT ![p].phase = "stopping", ![p].scheduler = FALSE]
  /\ UNCHANGED <<changes, recorded, writer, starts>>

StopQueue(p) == /\ In(p, "stopping")
                /\ process' = [process EXCEPT ![p] = Down]
                /\ UNCHANGED <<changes, recorded, writer, starts>>

\* The journal rolls an open transaction back.
KillProcess(p) == /\ ~In(p, "down")
                  /\ writer' = writer \ {p}
                  /\ process' = [process EXCEPT ![p] = Down]
                  /\ UNCHANGED <<changes, recorded, starts>>

StartupNext ==
  \E p \in Processes :
    \/ StartProcess(p) \/ ReadVersions(p) \/ ChooseScript(p) \/ ExecuteScript(p)
    \/ RecordVersion(p) \/ CommitScript(p) \/ FailStartup(p)
    \/ Recover(p) \/ StartQueue(p) \/ StartScheduler(p)
    \/ StopScheduler(p) \/ StopQueue(p) \/ KillProcess(p)

StartupSpec == StartupInit /\ [][StartupNext]_startupVars

-----------------------------------------------------------------------------
(* Properties. *)

StartupTypeOK ==
  /\ changes \in [Versions -> Nat] /\ recorded \subseteq Versions
  /\ writer \subseteq Processes
  /\ process \in [Processes -> Process]
  /\ starts \in 0..MaxStarts

\* The schema has the changes of exactly the recorded scripts, each once,
\* whatever crashes and fails in between and although two processes may have
\* read the same versions (apply_migration).
ScriptsRunOnce == \A v \in Versions : changes[v] = IF v \in recorded THEN 1 ELSE 0
=============================================================================
