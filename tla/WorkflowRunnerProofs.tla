------------------------- MODULE WorkflowRunnerProofs -------------------------
(* Theorems about WorkflowRunner, for every number of nodes, targets, jobs     *)
(* and callers, every limit of active jobs and every bound.                    *)
EXTENDS WorkflowRunner, TLAPS

\* The places of a call that works on a run: with copies of its nodes, at one
\* of the nodes, and either.
Reading  == {"deciding", "starting", "executing", "linking", "ending"}
AtNode   == {"starting", "executing", "linking", "ending", "stopping"}
Advancing == Reading \cup {"stopping"}

\* What a node can end with.
NodeEnds == {"completed", "failed", "partial", "cancelled"}

-----------------------------------------------------------------------------
(* Type correctness. *)

\* A call that is at a node of the run is at an existing one.
AtNodeInv == \A c \in Callers : at[c] \in AtNode => pos[c] \in Nodes

TypeInv == TypeOK /\ AtNodeInv

\* What the statements of the jobs table write are rows.
LEMMA RowType ==
  ASSUME NEW row \in Row, NEW copy \in Row
  PROVE  /\ NoRow \in Row
         /\ Update(row, copy) \in Row
         /\ RequestCancel(row) \in Row
         /\ Requeue(row) \in Row
         /\ Cancelled(row) \in Row /\ Failed(row) \in Row
         /\ \A s \in ActiveStatuses \cup TerminalStatuses : [row EXCEPT !.status = s] \in Row
<1>1. 0 \in 0..MaxFiles
  BY JobRowsAssumption
<1> USE DEF Row, ActiveStatuses, WaitingStatuses, TerminalStatuses
<1>2. NoRow \in Row /\ RequestCancel(row) \in Row /\ Cancelled(row) \in Row /\ Failed(row) \in Row
  BY <1>1 DEF NoRow, RequestCancel, Cancelled, Failed
<1>3. Update(row, copy) \in Row
  BY DEF Update
<1>4. Requeue(row) \in Row
  BY <1>1 DEF Requeue
<1> QED BY <1>2, <1>3, <1>4

\* A result computed from jobs is a status a node ends with.
LEMMA OutcomesType == ASSUME NEW S PROVE Outcomes(S) \subseteq NodeEnds
  BY DEF Outcomes, NodeEnds

LEMMA RunStatusType ==
  /\ RunStatus \in {"running", "completed", "failed", "partial", "cancelled", "skipped"}
  BY DEF RunStatus

LEMMA TypeInit == Init => TypeInv
<1> SUFFICES ASSUME Init PROVE TypeInv
  OBVIOUS
<1>1. /\ 0 \in 0..MaxCancels /\ 0 \in 0..MaxFaults /\ 0 \in 0..MaxCrashes
      /\ 1 \in 1..MaxNodes + 1 /\ 1 \in Nat \ {0}
  BY WorkflowRunnerAssumption
<1>2. NoRow \in Row
  BY RowType, JobRowsAssumption DEF NoRow, Row
<1>3. NewNode \in NodeRow
  BY DEF NewNode, NodeRow, NodeStatuses
<1>4. /\ at \in [Callers -> Places] /\ view \in [Callers -> [Nodes -> NodeRow]]
      /\ pos \in [Callers -> 1..MaxNodes + 1] /\ next \in [Callers -> Nat \ {0}]
      /\ result \in [Callers -> NodeStatuses]
      /\ \A c \in Callers : at[c] = "idle"
  BY <1>1, <1>3 DEF Init, NoCalls, Places, NodeStatuses
<1>5. /\ thread \in [Jobs -> {"none", "starting", "working", "finishing"}]
      /\ snap \in [Jobs -> Row] /\ asked \in [Jobs -> Row]
  BY <1>2 DEF Init, NoThreads
<1>6. TypeOK
  BY <1>1, <1>2, <1>3, <1>4, <1>5 DEF Init, TypeOK
<1> QED BY <1>4, <1>6 DEF TypeInv, AtNodeInv, AtNode

\* A caller's copy of its node, changed in one field, is a node.
LEMMA NodeRowType ==
  ASSUME TypeInv, NEW c \in Callers, pos[c] \in Nodes, NEW s \in NodeStatuses,
         NEW a \in BOOLEAN, NEW b \in BOOLEAN
  PROVE  /\ Current(c) \in NodeRow
         /\ [Current(c) EXCEPT !.status = s] \in NodeRow
         /\ [Current(c) EXCEPT !.status = s, !.started = a] \in NodeRow
         /\ [Current(c) EXCEPT !.ready = b] \in NodeRow
<1>1. Current(c) \in NodeRow
  BY DEF TypeInv, TypeOK, Current
<1> QED BY <1>1 DEF NodeRow

LEMMA WriteNodeType ==
  ASSUME TypeInv, NEW c \in Callers, pos[c] \in Nodes, NEW row \in NodeRow, WriteNode(c, row)
  PROVE  nodes' \in [Nodes -> NodeRow] /\ view' \in [Callers -> [Nodes -> NodeRow]]
<1>1. nodes' \in [Nodes -> NodeRow]
  BY DEF WriteNode, TypeInv, TypeOK
<1>2. view[c] \in [Nodes -> NodeRow]
  BY DEF TypeInv, TypeOK
<1>3. [view[c] EXCEPT ![pos[c]] = row] \in [Nodes -> NodeRow]
  BY <1>2
<1>4. view' \in [Callers -> [Nodes -> NodeRow]]
  BY <1>3 DEF WriteNode, TypeInv, TypeOK
<1> QED BY <1>1, <1>4

\* The variables a call leaves at its end.
LEMMA LeaveType ==
  ASSUME TypeInv, NEW c \in Callers, Leave(c), claim' \in Callers \cup {Nobody},
         faults' \in 0..MaxFaults
  PROVE  TypeInv'
<1>1. NewNode \in NodeRow
  BY DEF NewNode, NodeRow, NodeStatuses
<1>2. 1 \in 1..MaxNodes + 1 /\ 1 \in Nat \ {0} /\ "completed" \in NodeStatuses
  BY WorkflowRunnerAssumption DEF NodeStatuses
<1>3. /\ at' \in [Callers -> Places] /\ view' \in [Callers -> [Nodes -> NodeRow]]
      /\ pos' \in [Callers -> 1..MaxNodes + 1] /\ next' \in [Callers -> Nat \ {0}]
      /\ result' \in [Callers -> NodeStatuses]
  BY <1>1, <1>2 DEF Leave, Goto, Places, TypeInv, TypeOK
<1>4. TypeOK'
  BY <1>3 DEF Leave, TypeInv, TypeOK, jobVars, threadVars
<1>5. AtNodeInv'
  BY DEF Leave, Goto, TypeInv, TypeOK, AtNodeInv, AtNode
<1> QED BY <1>4, <1>5 DEF TypeInv

\* The step of a call that moves it from one place to another.
LEMMA MoveType ==
  ASSUME TypeInv, NEW c \in Callers, NEW place \in Places, Goto(c, place),
         pos' \in [Callers -> 1..MaxNodes + 1],
         \A d \in Callers \ {c} : pos'[d] = pos[d],
         place \in AtNode => pos'[c] \in Nodes
  PROVE  at' \in [Callers -> Places] /\ AtNodeInv'
  BY DEF Goto, TypeInv, TypeOK, AtNodeInv

LEMMA ProcessType == ASSUME TypeInv, NEW c \in Callers, Process(c) PROVE TypeInv'
<1> USE DEF runVars, jobVars, callVars, threadVars, procVars
<1>0. /\ TypeOK /\ AtNodeInv /\ at[c] \in Places
      /\ pos[c] \in 1..MaxNodes + 1
      /\ at[c] \in AtNode => pos[c] \in Nodes
      /\ pos[c] \in Nodes => pos[c] + 1 \in 1..MaxNodes + 1
      /\ 1 \in 1..MaxNodes + 1
  BY WorkflowRunnerAssumption DEF TypeInv, TypeOK, AtNodeInv, Nodes
<1>1. CASE Load(c)
  <2>1. at' \in [Callers -> Places] /\ AtNodeInv'
    BY <1>0, <1>1 DEF Load, Goto, Places, AtNode, AtNodeInv, TypeOK
  <2>2. view' \in [Callers -> [Nodes -> NodeRow]] /\ pos' \in [Callers -> 1..MaxNodes + 1]
    BY <1>0, <1>1 DEF Load, TypeOK
  <2> QED BY <1>0, <1>1, <2>1, <2>2 DEF Load, TypeInv, TypeOK
<1>2. CASE Decide(c)
  <2>1. at' \in [Callers -> Places] /\ AtNodeInv'
    BY <1>0, <1>2 DEF Decide, Goto, Places, AtNode, AtNodeInv, TypeOK
  <2>2. pos' \in [Callers -> 1..MaxNodes + 1]
    BY <1>0, <1>2 DEF Decide, TypeOK
  <2>3. result' \in [Callers -> NodeStatuses]
    BY <1>0, <1>2, OutcomesType DEF Decide, TypeOK, NodeStatuses, NodeEnds
  <2> QED BY <1>0, <1>2, <2>1, <2>2, <2>3 DEF Decide, TypeInv, TypeOK
<1>3. CASE NoMoreNodes(c)
  BY <1>0, <1>3 DEF NoMoreNodes, Goto, Places, AtNode, AtNodeInv, TypeInv, TypeOK
<1>4. CASE StartNode(c)
  <2>1. pos[c] \in Nodes /\ "running" \in NodeStatuses
    BY <1>0, <1>4 DEF StartNode, AtNode, NodeStatuses
  <2>2. nodes' \in [Nodes -> NodeRow] /\ view' \in [Callers -> [Nodes -> NodeRow]]
    BY <1>4, <2>1, NodeRowType, WriteNodeType DEF StartNode
  <2>3. at' \in [Callers -> Places] /\ AtNodeInv' /\ next' \in [Callers -> Nat \ {0}]
    BY <1>0, <1>4 DEF StartNode, Goto, Places, AtNode, AtNodeInv, TypeOK
  <2> QED BY <1>0, <1>4, <2>2, <2>3 DEF StartNode, WriteNode, TypeInv, TypeOK
<1>5. CASE CreateJob(c)
  <2>1. pos[c] \in Nodes /\ next[c] \in Nat \ {0}
    BY <1>0, <1>5 DEF CreateJob, AtNode, TypeOK
  <2>2. next' \in [Callers -> Nat \ {0}]
    BY <1>0, <1>5, <2>1 DEF CreateJob, TypeOK
  <2>3. jobs' \in [Jobs -> Row]
    <3>1. CreationStatus(jobs) \in ActiveStatuses
      BY DEF CreationStatus, ActiveStatuses, WaitingStatuses
    <3>2. \A j \in Jobs : [jobs[j] EXCEPT !.status = CreationStatus(jobs)] \in Row
      BY <1>0, <3>1, RowType DEF TypeOK
    <3> QED BY <1>0, <1>5, <3>2 DEF CreateJob, TypeOK
  <2>4. link' \in [Jobs -> {NoLink} \cup [node : Nodes, target : Nat \ {0}]]
    BY <1>0, <1>5, <2>1 DEF CreateJob, TypeOK
  <2> QED BY <1>0, <1>5, <2>2, <2>3, <2>4 DEF CreateJob, TypeInv, TypeOK, AtNodeInv
<1>6. CASE ExecuteRaises(c) \/ Executed(c)
  BY <1>0, <1>6
  DEF ExecuteRaises, Executed, Goto, Places, AtNode, AtNodeInv, TypeInv, TypeOK, NodeStatuses
<1>7. CASE LinkJobs(c)
  <2>1. pos[c] \in Nodes /\ Current(c).status \in NodeStatuses
    BY <1>0, <1>7 DEF LinkJobs, AtNode, TypeOK, Current, NodeRow
  <2>2. nodes' \in [Nodes -> NodeRow] /\ view' \in [Callers -> [Nodes -> NodeRow]]
    BY <1>7, <2>1, NodeRowType, WriteNodeType DEF LinkJobs
  <2>3. at' \in [Callers -> Places] /\ AtNodeInv'
    BY <1>0, <1>7 DEF LinkJobs, Goto, Places, AtNode, AtNodeInv, TypeOK
  <2> QED BY <1>0, <1>7, <2>2, <2>3 DEF LinkJobs, WriteNode, TypeInv, TypeOK
<1>8. CASE EndNode(c)
  <2>1. pos[c] \in Nodes /\ result[c] \in NodeStatuses
    BY <1>0, <1>8 DEF EndNode, AtNode, TypeOK
  <2>2. nodes' \in [Nodes -> NodeRow] /\ view' \in [Callers -> [Nodes -> NodeRow]]
    BY <1>8, <2>1, NodeRowType, WriteNodeType DEF EndNode
  <2>3. at' \in [Callers -> Places] /\ AtNodeInv' /\ pos' \in [Callers -> 1..MaxNodes + 1]
    BY <1>0, <1>8 DEF EndNode, Goto, Places, AtNode, AtNodeInv, TypeOK
  <2> QED BY <1>0, <1>8, <2>2, <2>3 DEF EndNode, WriteNode, TypeInv, TypeOK
<1>9. CASE StopDownstream(c)
  <2>1. nodes' \in [Nodes -> NodeRow]
    <3>0. \A row \in NodeRow : [row EXCEPT !.status = "skipped"] \in NodeRow
      BY DEF NodeRow, NodeStatuses
    <3>1. \A m \in Nodes : [nodes[m] EXCEPT !.status = "skipped"] \in NodeRow
      BY <1>0, <3>0 DEF TypeOK
    <3>2. Downstream(pos[c]) \subseteq Nodes
      BY DEF Downstream
    <3>3. CASE UNCHANGED nodes
      BY <1>0, <3>3 DEF TypeOK
    <3>4. CASE ~UNCHANGED nodes
      <4>1. PICK m \in Downstream(pos[c]) :
              nodes' = [nodes EXCEPT ![m] = [nodes[m] EXCEPT !.status = "skipped"]]
        BY <1>9, <3>4 DEF StopDownstream
      <4> QED BY <1>0, <3>1, <3>2, <4>1 DEF TypeOK
    <3> QED BY <3>3, <3>4
  <2>2. at' \in [Callers -> Places] /\ AtNodeInv'
    BY <1>0, <1>9 DEF StopDownstream, Goto, Places, AtNode, AtNodeInv, TypeOK
  <2> QED BY <1>0, <1>9, <2>1, <2>2 DEF StopDownstream, TypeInv, TypeOK
<1>10. CASE RefreshRun(c)
  BY <1>0, <1>10, RunStatusType
  DEF RefreshRun, Goto, Places, AtNode, AtNodeInv, TypeInv, TypeOK
<1>11. CASE Release(c)
  BY <1>0, <1>11, LeaveType DEF Release, TypeOK
<1> QED
  BY <1>1, <1>2, <1>3, <1>4, <1>5, <1>6, <1>7, <1>8, <1>9, <1>10, <1>11 DEF Process

LEMMA TypeNext == TypeInv /\ [Next]_vars => TypeInv'
<1> SUFFICES ASSUME TypeInv, [Next]_vars PROVE TypeInv'
  OBVIOUS
<1> USE DEF runVars, jobVars, callVars, threadVars, procVars
<1>0. TypeOK /\ AtNodeInv
  BY DEF TypeInv
<1>1. ASSUME NEW c \in Callers, Call(c) PROVE TypeInv'
  BY <1>0, <1>1 DEF Call, Goto, Places, AtNode, AtNodeInv, TypeInv, TypeOK
<1>2. ASSUME NEW c \in Callers, Fault(c) PROVE TypeInv'
  <2>1. faults' \in 0..MaxFaults
    BY <1>0, <1>2, WorkflowRunnerAssumption DEF Fault, TypeOK
  <2>2. CASE InExecution(c)
    <3>1. at[c] \in AtNode
      BY <2>2 DEF InExecution, AtNode
    <3> QED BY <1>0, <1>2, <2>1, <2>2, <3>1
        DEF Fault, InExecution, Goto, Places, AtNode, AtNodeInv, TypeInv, TypeOK, NodeStatuses
  <2>3. CASE ~InExecution(c) /\ at[c] # "releasing"
    BY <1>0, <1>2, <2>1, <2>3 DEF Fault, Goto, Places, AtNode, AtNodeInv, TypeInv, TypeOK
  <2>4. CASE at[c] = "releasing"
    BY <1>0, <1>2, <2>1, <2>4, LeaveType DEF Fault, InExecution, TypeOK
  <2> QED BY <2>2, <2>3, <2>4
<1>3. CASE Activate
  <2>1. jobs' \in [Jobs -> Row]
    <3>1. \A j \in Jobs : jobs[j] \in Row /\ [jobs[j] EXCEPT !.status = "queued"] \in Row
      BY <1>0, RowType DEF TypeOK, ActiveStatuses, WaitingStatuses
    <3> QED BY <1>0, <1>3, <3>1 DEF Activate, Activated
  <2> QED BY <1>0, <1>3, <2>1 DEF Activate, TypeInv, TypeOK, AtNodeInv
<1>4. ASSUME NEW j \in Jobs, Begin(j) \/ Execute(j) \/ CancelRead(j) \/ CancelWrite(j)
      PROVE  TypeInv'
  <2>1. jobs[j] \in Row /\ snap[j] \in Row /\ asked[j] \in Row
    BY <1>0 DEF TypeOK
  <2>2. CASE Begin(j)
    <3>1. [jobs[j] EXCEPT !.status = "running"] \in Row
      BY <2>1, RowType DEF ActiveStatuses
    <3> QED BY <1>0, <2>2, <3>1 DEF Begin, TypeInv, TypeOK, AtNodeInv
  <2>3. ASSUME NEW place \in {"none", "starting", "working", "finishing"}, Store(j, place)
        PROVE  TypeInv'
    <3>1. Update(jobs[j], snap[j]) \in Row /\ NoRow \in Row
      BY <2>1, RowType
    <3> QED BY <1>0, <2>3, <3>1 DEF Store, TypeInv, TypeOK, AtNodeInv
  <2>4. CASE Finish(j)
    <3>1. /\ [jobs[j] EXCEPT !.status = "completed"] \in Row
          /\ Failed(jobs[j]) \in Row /\ Cancelled(jobs[j]) \in Row
      BY <2>1, RowType DEF TerminalStatuses
    <3>2. snap' \in [Jobs -> Row]
      BY <1>0, <2>4, <3>1 DEF Finish, TypeOK
    <3> QED BY <1>0, <2>4, <3>2 DEF Finish, TypeInv, TypeOK, AtNodeInv
  <2>5. CASE CancelRead(j)
    <3>1. cancels' \in 0..MaxCancels
      BY <1>0, <2>5, WorkflowRunnerAssumption DEF CancelRead, TypeOK
    <3> QED BY <1>0, <2>1, <2>5, <3>1 DEF CancelRead, TypeInv, TypeOK, AtNodeInv
  <2>6. CASE CancelWrite(j)
    <3>1. /\ Update(jobs[j], Cancelled(asked[j])) \in Row
          /\ RequestCancel(jobs[j]) \in Row /\ NoRow \in Row
      BY <2>1, RowType
    <3> QED BY <1>0, <2>6, <3>1 DEF CancelWrite, TypeInv, TypeOK, AtNodeInv
  <2> QED BY <1>4, <2>2, <2>3, <2>4, <2>5, <2>6 DEF Execute, Started, Finished
<1>5. CASE Crash
  <2>1. NoRow \in Row
    BY RowType, JobRowsAssumption DEF NoRow, Row
  <2>2. NewNode \in NodeRow
    BY DEF NewNode, NodeRow, NodeStatuses
  <2>3. /\ 1 \in 1..MaxNodes + 1 /\ 1 \in Nat \ {0} /\ "completed" \in NodeStatuses
        /\ crashes' \in 0..MaxCrashes
    BY <1>0, <1>5, WorkflowRunnerAssumption DEF NodeStatuses, Crash, TypeOK
  <2>4. /\ at' \in [Callers -> Places] /\ view' \in [Callers -> [Nodes -> NodeRow]]
        /\ pos' \in [Callers -> 1..MaxNodes + 1] /\ next' \in [Callers -> Nat \ {0}]
        /\ result' \in [Callers -> NodeStatuses]
        /\ \A c \in Callers : at'[c] = "idle"
    BY <1>5, <2>2, <2>3 DEF Crash, Places
  <2>5. /\ thread' \in [Jobs -> {"none", "starting", "working", "finishing"}]
        /\ snap' \in [Jobs -> Row] /\ asked' \in [Jobs -> Row]
    BY <1>5, <2>1 DEF Crash
  <2>6. TypeOK'
    BY <1>0, <1>5, <2>3, <2>4, <2>5 DEF Crash, TypeOK
  <2> QED BY <2>4, <2>6 DEF TypeInv, AtNodeInv, AtNode
<1>6. CASE RequeueJobs
  <2>1. \A j \in Jobs : jobs[j] \in Row /\ Requeue(jobs[j]) \in Row
    BY <1>0, RowType DEF TypeOK
  <2> QED BY <1>0, <1>6, <2>1 DEF RequeueJobs, TypeInv, TypeOK, AtNodeInv
<1>7. CASE CreateRun \/ Boot \/ RecoveryFault
  BY <1>0, <1>7, WorkflowRunnerAssumption
  DEF CreateRun, Boot, ClaimAfterBoot, RecoveryFault, TypeInv, TypeOK, AtNodeInv
<1>8. CASE UNCHANGED vars
  BY <1>0, <1>8 DEF vars, TypeInv, TypeOK, AtNodeInv
<1> QED
  BY <1>1, <1>2, <1>3, <1>4, <1>5, <1>6, <1>7, <1>8, ProcessType DEF Next

\* Every row, copy and place of a run keeps its type.
THEOREM TypeCorrect == Spec => []TypeOK
  BY TypeInit, TypeNext, PTL DEF Spec, TypeInv
-----------------------------------------------------------------------------
(* The inductive invariant. *)

\* One call at a time: who is inside process_run owns the claim, whatever other
\* calls have left it behind, and only the recovery calls before the service is up.
OneCaller ==
  \A c \in Callers : at[c] # "idle" =>
    /\ claim = c /\ run # "none"
    /\ service = IF c = Recoverer THEN "resuming" ELSE "up"

\* Threads and requests do not outlive the process.
FreshStart ==
  /\ service # "up" => \A j \in Jobs : thread[j] = "none" /\ asked[j] = NoRow
  /\ service \in {"down", "requeueing"} => ~requeued

\* the jobs of a node are over
Settled(n) == \A j \in Jobs : link[j].node = n =>
                jobs[j].status \in TerminalStatuses /\ thread[j] = "none"

\* What a call knows of the nodes stays true until it writes them.
CallInv(c) ==
  /\ at[c] \in Advancing \cup {"refreshing"} => run = "running"
  /\ at[c] \in Reading => view[c] = nodes
  /\ at[c] \in Advancing => \A m \in Nodes : m < pos[c] => nodes[m].status = "completed"
  /\ at[c] = "starting" => nodes[pos[c]].status \in {"pending", "running"}
  /\ at[c] \in {"executing", "linking", "ending"} => nodes[pos[c]].status = "running"
  /\ at[c] \in {"executing", "linking", "ending"} => nodes[pos[c]].started
  /\ at[c] = "ending" =>
       /\ result[c] \in NodeEnds
       /\ result[c] \in {"completed", "partial"} => Settled(pos[c])
  /\ at[c] = "stopping" => nodes[pos[c]].status \in NodeEnds \ {"completed"}

\* The nodes are a prefix of completed ones, at most one that is running or has
\* stopped the run, and nodes that have not been touched or were skipped.
NodesInOrder ==
  \A m, n \in Nodes : m < n /\ nodes[n].status \notin {"pending", "skipped"}
    => nodes[m].status = "completed"

SkippedBehindStop ==
  \A n \in Nodes : nodes[n].status = "skipped" =>
    \E m \in Nodes : m < n /\ nodes[m].status \in NodeEnds \ {"completed"}

NodesInv ==
  /\ NodesInOrder
  /\ SkippedBehindStop
  /\ \A n \in Nodes : nodes[n].status \in {"pending", "skipped"} => ~nodes[n].started
  /\ run = "none" => \A n \in Nodes : nodes[n].status = "pending"
  /\ run \notin {"none", "running"} =>
       \A n \in Nodes : nodes[n].status \notin {"pending", "running"}

\* A job exists for one target of a node that has started.
LinkInv ==
  /\ \A j \in Jobs : jobs[j].status = "absent" <=> link[j] = NoLink
  /\ \A j \in Jobs : link[j] # NoLink =>
       /\ link[j].node \in Nodes
       /\ link[j].target \in 1..TargetsOf[link[j].node]
       /\ nodes[link[j].node].started

\* A job with a thread is running, unless a request has cancelled it from a stale
\* copy; the thread never stores a copy that would revive it.
ThreadInv(j) ==
  /\ thread[j] # "none" => jobs[j].status \in {"running", "cancelled"}
  /\ thread[j] = "starting" => snap[j].status = "running"
  /\ thread[j] = "finishing" => snap[j].status \in TerminalStatuses
  /\ asked[j] # NoRow => jobs[j].status # "absent"

\* A job marked running has a thread as soon as the recovery is done, also while
\* it resumes the run.
RunningHasThread ==
  service \in {"resuming", "up"} /\ requeued =>
    \A j \in Jobs : jobs[j].status = "running" =>
      thread[j] # "none" \/ nodes[link[j].node].status \in {"failed", "cancelled"}

JobsInv ==
  /\ LinkInv
  /\ OneJobPerTarget
  /\ \A j \in Jobs : ThreadInv(j)
  /\ ResultsAreFinal
  /\ RunningHasThread

RunnerInv ==
  /\ TypeInv
  /\ OneCaller
  /\ FreshStart
  /\ \A c \in Callers : CallInv(c)
  /\ NodesInv
  /\ JobsInv

LEMMA RunnerInit == Init => RunnerInv
<1> SUFFICES ASSUME Init PROVE RunnerInv
  OBVIOUS
<1>1. \A c \in Callers : at[c] = "idle"
  BY DEF Init, NoCalls
<1>2. \A j \in Jobs : thread[j] = "none" /\ asked[j] = NoRow
  BY DEF Init, NoThreads
<1>3. \A n \in Nodes : nodes[n] = NewNode
  BY DEF Init
<1>4. \A j \in Jobs : jobs[j] = NoRow /\ link[j] = NoLink
  BY DEF Init
<1>5. OneCaller /\ \A c \in Callers : CallInv(c)
  BY <1>1 DEF OneCaller, CallInv, Reading, Advancing
<1>6. NodesInv
  BY <1>3 DEF NodesInv, NodesInOrder, SkippedBehindStop, NewNode, Init
<1>7. FreshStart /\ JobsInv
  BY <1>2, <1>4
  DEF FreshStart, JobsInv, LinkInv, OneJobPerTarget, ThreadInv, ResultsAreFinal,
      RunningHasThread, NoRow, Init
<1> QED BY <1>5, <1>6, <1>7, TypeInit DEF RunnerInv

-----------------------------------------------------------------------------
(* The steps of a call. *)

\* While one call is inside process_run, the others are not.
LEMMA OthersIdle ==
  ASSUME RunnerInv, NEW c \in Callers, at[c] # "idle"
  PROVE  \A d \in Callers \ {c} : at[d] = "idle"
  BY DEF RunnerInv, OneCaller

\* What the others need to know of a step of one call.
LEMMA OneCalls ==
  ASSUME NEW c \in Callers, CallInv(c)', \A d \in Callers \ {c} : at'[d] = "idle",
         at'[c] # "idle" => /\ claim' = c /\ run' # "none"
                            /\ service' = IF c = Recoverer THEN "resuming" ELSE "up"
  PROVE  OneCaller' /\ \A d \in Callers : CallInv(d)'
  BY DEF OneCaller, CallInv, Reading, Advancing

\* A step of a call that writes neither nodes nor jobs.
LEMMA MoveKeeps ==
  ASSUME RunnerInv, TypeInv', NEW c \in Callers, CallInv(c)',
         \A d \in Callers \ {c} : at'[d] = "idle",
         at'[c] # "idle" => /\ claim' = c
                            /\ service' = IF c = Recoverer THEN "resuming" ELSE "up",
         run # "none", UNCHANGED <<run, nodes, jobVars, threadVars, requeued>>,
         service' = service \/ (service' = "up" /\ service = "resuming")
  PROVE  RunnerInv'
<1> USE DEF jobVars, threadVars
<1>1. OneCaller' /\ \A d \in Callers : CallInv(d)'
  BY OneCalls
<1>2. NodesInv'
  BY DEF RunnerInv, NodesInv, NodesInOrder, SkippedBehindStop
<1>3. JobsInv'
  BY DEF RunnerInv, JobsInv, LinkInv, OneJobPerTarget, ThreadInv, ResultsAreFinal,
         RunningHasThread
<1>4. FreshStart'
  BY DEF RunnerInv, FreshStart
<1> QED BY <1>1, <1>2, <1>3, <1>4 DEF RunnerInv

\* At the claim and in the listing of the nodes.
LEMMA CallKeeps == ASSUME RunnerInv, NEW c \in Callers, Call(c) PROVE RunnerInv'
<1>1. TypeInv'
  BY TypeNext DEF RunnerInv, Next
<1>2. CallInv(c)'
  BY DEF Call, Goto, CallInv, Reading, Advancing, RunnerInv, TypeInv, TypeOK
<1>3. \A d \in Callers \ {c} : at'[d] = "idle"
  BY WorkflowRunnerAssumption
  DEF Call, Free, Goto, RunnerInv, OneCaller, TypeInv, TypeOK
<1> QED BY <1>1, <1>2, <1>3, MoveKeeps DEF Call, Goto, procVars, jobVars, threadVars

\* The end of a call, also when its claim is left behind.
LEMMA LeaveKeeps ==
  ASSUME RunnerInv, TypeInv', NEW c \in Callers, at[c] # "idle", Leave(c)
  PROVE  RunnerInv'
<1>1. at'[c] = "idle" /\ \A d \in Callers \ {c} : at'[d] = "idle"
  BY OthersIdle DEF Leave, Goto, RunnerInv, TypeInv, TypeOK
<1>2. CallInv(c)'
  BY <1>1 DEF CallInv, Reading, Advancing
<1>3. run # "none" /\ (service' = service \/ (service' = "up" /\ service = "resuming"))
  BY DEF RunnerInv, OneCaller, Leave
<1> QED BY <1>1, <1>2, <1>3, MoveKeeps DEF Leave

LEMMA LoadKeeps == ASSUME RunnerInv, NEW c \in Callers, Load(c) PROVE RunnerInv'
<1>1. TypeInv'
  BY TypeNext DEF RunnerInv, Next, Process
<1>2. at[c] = "loading" /\ at \in [Callers -> Places] /\ claim = c /\ run # "none"
  BY DEF Load, RunnerInv, OneCaller, TypeInv, TypeOK
<1>3. \A d \in Callers \ {c} : at'[d] = "idle"
  BY <1>2, OthersIdle DEF Load, Goto
<1>4. CallInv(c)'
  BY <1>2 DEF Load, Goto, CallInv, Reading, Advancing, RunnerInv, TypeInv, TypeOK, runVars, Nodes
<1> QED
  BY <1>1, <1>2, <1>3, <1>4, MoveKeeps
  DEF Load, procVars, runVars, jobVars, threadVars, RunnerInv, OneCaller

\* The node a call looks at is the stored one.
LEMMA CurrentNode ==
  ASSUME RunnerInv, NEW c \in Callers, at[c] \in Reading, pos[c] \in Nodes
  PROVE  Current(c) = nodes[pos[c]]
  BY DEF RunnerInv, CallInv, Current

\* When no job of a node is awaited, none has a thread that counts: the results
\* computed from them are final.
LEMMA OutcomesAreFinal ==
  ASSUME RunnerInv, NEW n \in Nodes, Awaited(Linked(n)) = {},
         NEW r \in Outcomes(Linked(n)), r \in {"completed", "partial"}
  PROVE  Settled(n)
<1> SUFFICES ASSUME NEW j \in Jobs, link[j].node = n
             PROVE  jobs[j].status \in TerminalStatuses /\ thread[j] = "none"
  BY DEF Settled
<1>1. link[j] # NoLink
  BY WorkflowRunnerAssumption DEF NoLink, Nodes
<1>2. j \in Linked(n) /\ jobs[j].status \notin ActiveStatuses /\ jobs[j].status # "absent"
  BY <1>1 DEF Linked, Awaited, RunnerInv, JobsInv, LinkInv
<1>3. jobs[j].status \in TerminalStatuses
  BY <1>2 DEF RunnerInv, TypeInv, TypeOK, Row
<1>4. jobs[j].status # "cancelled"
  BY <1>2 DEF Outcomes
<1>5. thread[j] = "none"
  BY <1>3, <1>4 DEF RunnerInv, JobsInv, ThreadInv, TerminalStatuses
<1> QED BY <1>3, <1>5

LEMMA DecideKeeps == ASSUME RunnerInv, NEW c \in Callers, Decide(c) PROVE RunnerInv'
<1> USE DEF runVars, jobVars, threadVars, procVars
<1>1. TypeInv'
  BY TypeNext DEF RunnerInv, Next, Process
<1>2. /\ at[c] = "deciding" /\ pos[c] \in Nodes /\ claim = c /\ run = "running"
      /\ at \in [Callers -> Places] /\ Current(c) = nodes[pos[c]] /\ view[c] = nodes
      /\ nodes[pos[c]].status \in NodeStatuses /\ pos \in [Callers -> 1..MaxNodes + 1]
      /\ result \in [Callers -> NodeStatuses]
      /\ \A m \in Nodes : m < pos[c] => nodes[m].status = "completed"
      /\ service = IF c = Recoverer THEN "resuming" ELSE "up"
  BY CurrentNode
  DEF Decide, RunnerInv, OneCaller, CallInv, Reading, Advancing, TypeInv, TypeOK, NodeRow
<1>3. \A d \in Callers \ {c} : at'[d] = "idle"
  BY <1>2, OthersIdle DEF Decide, Goto
<1>4. CallInv(c)'
  <2>1. CASE Current(c).status = "completed"
    <3>1. at' = at /\ pos'[c] = pos[c] + 1 /\ UNCHANGED <<nodes, run, view>>
      BY <1>2, <2>1 DEF Decide, Unsuccessful, Initialized
    <3>2. \A m \in Nodes : m < pos[c] + 1 => m < pos[c] \/ m = pos[c]
      BY <1>2 DEF Nodes
    <3> QED BY <1>2, <2>1, <3>1, <3>2 DEF CallInv, Reading, Advancing
  <2>2. CASE Current(c).status \in Unsuccessful
    <3>1. at' = [at EXCEPT ![c] = "stopping"] /\ UNCHANGED <<nodes, run, pos>>
      BY <1>2, <2>2 DEF Decide, Unsuccessful, Initialized, Goto
    <3>2. nodes[pos[c]].status # "skipped"
      BY <1>2 DEF RunnerInv, NodesInv, SkippedBehindStop, NodeEnds
    <3> QED BY <1>2, <2>2, <3>1, <3>2 DEF CallInv, Reading, Advancing, Unsuccessful, NodeEnds
  <2>3. CASE Initialized(c)
    <3>1. UNCHANGED <<nodes, run, pos, view, jobs, link, thread>> /\ nodes[pos[c]].status = "running"
      BY <1>2, <2>3 DEF Decide, Unsuccessful, Initialized
    <3>2. CASE Awaited(Linked(pos[c])) # {}
      <4>1. at' = [at EXCEPT ![c] = "refreshing"]
        BY <1>2, <2>3, <3>2 DEF Decide, Unsuccessful, Initialized, Goto
      <4> QED BY <1>2, <3>1, <4>1 DEF CallInv, Reading, Advancing
    <3>3. CASE Awaited(Linked(pos[c])) = {}
      <4>1. PICK r \in Outcomes(Linked(pos[c])) : result' = [result EXCEPT ![c] = r]
        BY <1>2, <2>3, <3>3 DEF Decide, Unsuccessful, Initialized
      <4>2. at' = [at EXCEPT ![c] = "ending"]
        BY <1>2, <2>3, <3>3 DEF Decide, Unsuccessful, Initialized, Goto
      <4>3. result'[c] \in NodeEnds
        BY <1>2, <4>1, OutcomesType
      <4>4. result'[c] \in {"completed", "partial"} => Settled(pos[c])
        BY <1>2, <3>3, <4>1, OutcomesAreFinal
      <4>5. Settled(pos[c])' = Settled(pos[c])
        BY <3>1 DEF Settled
      <4>6. nodes[pos[c]].started
        <5>1. PICK j \in Jobs : link[j].node = pos[c]
          BY <2>3 DEF Initialized, Linked
        <5> QED BY <1>2, <5>1, WorkflowRunnerAssumption DEF RunnerInv, JobsInv, LinkInv, NoLink, Nodes
      <4> QED BY <1>2, <3>1, <4>2, <4>3, <4>4, <4>5, <4>6 DEF CallInv, Reading, Advancing
    <3> QED BY <3>2, <3>3
  <2>4. CASE Current(c).status \in {"pending", "running"} /\ ~Initialized(c)
    <3>1. at' = [at EXCEPT ![c] = "starting"] /\ UNCHANGED <<nodes, run, pos, view>>
      BY <1>2, <2>4 DEF Decide, Unsuccessful, Goto
    <3> QED BY <1>2, <2>4, <3>1 DEF CallInv, Reading, Advancing
  <2> QED BY <2>1, <2>2, <2>3, <2>4 DEF Decide
<1>5. UNCHANGED <<run, nodes, claim, jobs, link, thread, snap, asked, requeued, service>>
  BY DEF Decide
<1> QED BY <1>1, <1>2, <1>3, <1>4, <1>5, MoveKeeps

LEMMA NoMoreNodesKeeps == ASSUME RunnerInv, NEW c \in Callers, NoMoreNodes(c) PROVE RunnerInv'
<1> USE DEF runVars, jobVars, threadVars, procVars
<1>1. TypeInv'
  BY TypeNext DEF RunnerInv, Next, Process
<1>2. /\ at[c] = "deciding" /\ claim = c /\ run = "running" /\ at \in [Callers -> Places]
      /\ service = IF c = Recoverer THEN "resuming" ELSE "up"
  BY DEF NoMoreNodes, RunnerInv, OneCaller, CallInv, Advancing, Reading, TypeInv, TypeOK
<1>3. \A d \in Callers \ {c} : at'[d] = "idle"
  BY <1>2, OthersIdle DEF NoMoreNodes, Goto
<1>4. CallInv(c)'
  BY <1>2 DEF NoMoreNodes, Goto, CallInv, Reading, Advancing
<1> QED BY <1>1, <1>2, <1>3, <1>4, MoveKeeps DEF NoMoreNodes

\* The executor of a node raises or returns.
LEMMA ExecutedKeeps ==
  ASSUME RunnerInv, NEW c \in Callers, ExecuteRaises(c) \/ Executed(c)
  PROVE  RunnerInv'
<1> USE DEF runVars, jobVars, threadVars, procVars
<1>1. TypeInv'
  BY TypeNext DEF RunnerInv, Next, Process
<1>2. /\ at[c] = "executing" /\ pos[c] \in Nodes /\ claim = c /\ run = "running"
      /\ at \in [Callers -> Places] /\ result \in [Callers -> NodeStatuses]
      /\ view[c] = nodes /\ nodes[pos[c]].status = "running" /\ nodes[pos[c]].started
      /\ \A m \in Nodes : m < pos[c] => nodes[m].status = "completed"
      /\ service = IF c = Recoverer THEN "resuming" ELSE "up"
      /\ TargetsOf \in [Nodes -> Nat]
  BY WorkflowRunnerAssumption
  DEF ExecuteRaises, Executed, RunnerInv, OneCaller, CallInv, Advancing, Reading, AtNode,
      TypeInv, AtNodeInv, TypeOK
<1>3. \A d \in Callers \ {c} : at'[d] = "idle"
  BY <1>2, OthersIdle DEF ExecuteRaises, Executed, Goto
<1>4. UNCHANGED <<run, nodes, claim, jobs, link, view, pos, thread, snap, asked, requeued, service>>
  BY DEF ExecuteRaises, Executed
<1>5. CallInv(c)'
  <2>1. CASE at'[c] = "ending" /\ result'[c] = "failed"
    BY <1>2, <1>4, <2>1 DEF CallInv, Reading, Advancing, NodeEnds
  <2>2. CASE at'[c] = "ending" /\ result'[c] = "completed" /\ TargetsOf[pos[c]] = 0
    <3>1. ASSUME NEW j \in Jobs PROVE link[j].node # pos[c]
      BY <1>2, <2>2 DEF RunnerInv, JobsInv, LinkInv, NoLink, Nodes
    <3>2. Settled(pos[c])'
      BY <1>4, <3>1 DEF Settled
    <3> QED BY <1>2, <1>4, <2>2, <3>2 DEF CallInv, Reading, Advancing, NodeEnds
  <2>3. CASE at'[c] = "linking"
    BY <1>2, <1>4, <2>3 DEF CallInv, Reading, Advancing
  <2> QED BY <1>2, <2>1, <2>2, <2>3 DEF ExecuteRaises, Executed, Goto
<1> QED BY <1>1, <1>2, <1>3, <1>4, <1>5, MoveKeeps

LEMMA FaultKeeps == ASSUME RunnerInv, NEW c \in Callers, Fault(c) PROVE RunnerInv'
<1> USE DEF jobVars, threadVars, procVars
<1>1. TypeInv'
  BY TypeNext DEF RunnerInv, Next
<1>2. /\ at[c] # "idle" /\ claim = c /\ run # "none" /\ at \in [Callers -> Places]
      /\ result \in [Callers -> NodeStatuses]
      /\ service = IF c = Recoverer THEN "resuming" ELSE "up"
  BY DEF Fault, RunnerInv, OneCaller, TypeInv, TypeOK
<1>3. CASE at[c] = "releasing"
  BY <1>1, <1>2, <1>3, LeaveKeeps DEF Fault, InExecution
<1>4. CASE at[c] # "releasing"
  <2>1. UNCHANGED <<run, nodes, claim, jobs, link, view, pos, thread, snap, asked, requeued, service>>
    BY <1>4 DEF Fault
  <2>2. \A d \in Callers \ {c} : at'[d] = "idle"
    BY <1>2, <1>4, OthersIdle DEF Fault, Goto
  <2>3. CallInv(c)'
    <3>1. CASE at'[c] = "releasing"
      BY <3>1 DEF CallInv, Reading, Advancing
    <3>2. CASE InExecution(c) /\ at'[c] = "ending" /\ result'[c] = "failed"
      BY <2>1, <3>2 DEF InExecution, RunnerInv, CallInv, Reading, Advancing, NodeEnds
    <3> QED BY <1>2, <1>4, <3>1, <3>2 DEF Fault, Goto
  <2> QED BY <1>1, <1>2, <2>1, <2>2, <2>3, MoveKeeps
<1> QED BY <1>3, <1>4

\* A call that writes its node moves it on: the nodes stay in their order and the
\* jobs keep what they need of it.
LEMMA WriteNodeKeeps ==
  ASSUME RunnerInv, NEW c \in Callers, pos[c] \in Nodes, run = "running",
         \A m \in Nodes : m < pos[c] => nodes[m].status = "completed",
         nodes[pos[c]].status \in {"pending", "running"},
         NEW row, row.status \notin {"pending", "skipped"}, row.started,
         row.status \in {"completed", "partial"} => Settled(pos[c]),
         nodes' = [nodes EXCEPT ![pos[c]] = row], UNCHANGED <<run, jobVars, thread, asked, snap>>,
         requeued' = requeued, service' = service
  PROVE  NodesInv' /\ JobsInv'
<1> USE DEF jobVars
<1>1. /\ nodes'[pos[c]] = row /\ \A m \in Nodes \ {pos[c]} : nodes'[m] = nodes[m]
      /\ Nodes \subseteq Int
  BY DEF RunnerInv, TypeInv, TypeOK, Nodes
<1>2. NodesInv /\ JobsInv
  BY DEF RunnerInv
\* The nodes behind it have not been touched.
<1>3. \A n \in Nodes : pos[c] < n => nodes[n].status \in {"pending", "skipped"}
  BY <1>1, <1>2 DEF NodesInv, NodesInOrder
<1>4. NodesInOrder'
  BY <1>1, <1>2, <1>3 DEF NodesInv, NodesInOrder
<1>5. SkippedBehindStop'
  BY <1>1, <1>2 DEF NodesInv, SkippedBehindStop, NodeEnds
<1>6. NodesInv'
  BY <1>1, <1>2, <1>4, <1>5 DEF NodesInv
<1>7. LinkInv'
  BY <1>1, <1>2 DEF JobsInv, LinkInv
<1>8. ResultsAreFinal'
  BY <1>1, <1>2 DEF JobsInv, ResultsAreFinal, Settled
<1>9. RunningHasThread'
  BY <1>1, <1>2 DEF JobsInv, RunningHasThread
<1> QED BY <1>2, <1>6, <1>7, <1>8, <1>9 DEF JobsInv, OneJobPerTarget, ThreadInv

LEMMA StartNodeKeeps == ASSUME RunnerInv, NEW c \in Callers, StartNode(c) PROVE RunnerInv'
<1> USE DEF jobVars, threadVars, procVars
<1>1. TypeInv'
  BY TypeNext DEF RunnerInv, Next, Process
<1>2. /\ at[c] = "starting" /\ pos[c] \in Nodes /\ claim = c /\ run = "running"
      /\ at \in [Callers -> Places] /\ view \in [Callers -> [Nodes -> NodeRow]]
      /\ nodes \in [Nodes -> NodeRow]
      /\ view[c] = nodes /\ nodes[pos[c]].status \in {"pending", "running"}
      /\ \A m \in Nodes : m < pos[c] => nodes[m].status = "completed"
      /\ service = IF c = Recoverer THEN "resuming" ELSE "up"
  BY DEF StartNode, RunnerInv, OneCaller, CallInv, Advancing, Reading, AtNode,
         TypeInv, AtNodeInv, TypeOK
<1>3. Current(c) = nodes[pos[c]]
  BY <1>2 DEF Current
<1> DEFINE row == [Current(c) EXCEPT !.status = "running", !.started = TRUE]
<1>4. row.status = "running" /\ row.started
  BY <1>2, <1>3 DEF NodeRow
<1>5. /\ nodes' = [nodes EXCEPT ![pos[c]] = row] /\ view' = [view EXCEPT ![c][pos[c]] = row]
      /\ at' = [at EXCEPT ![c] = "executing"]
      /\ UNCHANGED <<run, claim, pos, jobs, link, thread, snap, asked, service, requeued>>
  BY DEF StartNode, WriteNode, Goto
<1> HIDE DEF row
<1>6. NodesInv' /\ JobsInv'
  BY <1>2, <1>4, <1>5, WriteNodeKeeps
<1>7. CallInv(c)'
  BY <1>2, <1>4, <1>5 DEF CallInv, Reading, Advancing, Nodes
<1>8. OneCaller' /\ \A d \in Callers : CallInv(d)'
  BY <1>2, <1>5, <1>7, OthersIdle, OneCalls
<1> QED BY <1>1, <1>5, <1>6, <1>8 DEF RunnerInv, FreshStart

LEMMA LinkJobsKeeps == ASSUME RunnerInv, NEW c \in Callers, LinkJobs(c) PROVE RunnerInv'
<1> USE DEF jobVars, threadVars, procVars
<1>1. TypeInv'
  BY TypeNext DEF RunnerInv, Next, Process
<1>2. /\ at[c] = "linking" /\ pos[c] \in Nodes /\ claim = c /\ run = "running"
      /\ at \in [Callers -> Places] /\ nodes \in [Nodes -> NodeRow]
      /\ view[c] = nodes /\ nodes[pos[c]].status = "running" /\ nodes[pos[c]].started
      /\ \A m \in Nodes : m < pos[c] => nodes[m].status = "completed"
      /\ service = IF c = Recoverer THEN "resuming" ELSE "up"
  BY DEF LinkJobs, RunnerInv, OneCaller, CallInv, Advancing, Reading, AtNode,
         TypeInv, AtNodeInv, TypeOK
<1>3. Current(c) = nodes[pos[c]]
  BY <1>2 DEF Current
<1> DEFINE row == [Current(c) EXCEPT !.ready = TRUE]
<1>4. row.status = "running" /\ row.started
  BY <1>2, <1>3 DEF NodeRow
<1>5. /\ nodes' = [nodes EXCEPT ![pos[c]] = row]
      /\ at' = [at EXCEPT ![c] = "refreshing"]
      /\ UNCHANGED <<run, claim, pos, jobs, link, thread, snap, asked, service, requeued>>
  BY DEF LinkJobs, WriteNode, Goto
<1> HIDE DEF row
<1>6. NodesInv' /\ JobsInv'
  BY <1>2, <1>4, <1>5, WriteNodeKeeps
<1>7. CallInv(c)'
  BY <1>2, <1>5 DEF CallInv, Reading, Advancing
<1>8. OneCaller' /\ \A d \in Callers : CallInv(d)'
  BY <1>2, <1>5, <1>7, OthersIdle, OneCalls
<1> QED BY <1>1, <1>5, <1>6, <1>8 DEF RunnerInv, FreshStart

LEMMA EndNodeKeeps == ASSUME RunnerInv, NEW c \in Callers, EndNode(c) PROVE RunnerInv'
<1> USE DEF jobVars, threadVars, procVars
<1>1. TypeInv'
  BY TypeNext DEF RunnerInv, Next, Process
<1>2. /\ at[c] = "ending" /\ pos[c] \in Nodes /\ claim = c /\ run = "running"
      /\ at \in [Callers -> Places] /\ nodes \in [Nodes -> NodeRow]
      /\ view \in [Callers -> [Nodes -> NodeRow]]
      /\ view[c] = nodes /\ nodes[pos[c]].status = "running" /\ nodes[pos[c]].started
      /\ \A m \in Nodes : m < pos[c] => nodes[m].status = "completed"
      /\ result[c] \in NodeEnds /\ (result[c] \in {"completed", "partial"} => Settled(pos[c]))
      /\ service = IF c = Recoverer THEN "resuming" ELSE "up"
      /\ pos \in [Callers -> 1..MaxNodes + 1]
  BY DEF EndNode, RunnerInv, OneCaller, CallInv, Advancing, Reading, AtNode,
         TypeInv, AtNodeInv, TypeOK
<1>3. Current(c) = nodes[pos[c]]
  BY <1>2 DEF Current
<1> DEFINE row == [Current(c) EXCEPT !.status = result[c]]
<1>4. row.status = result[c] /\ row.started
  BY <1>2, <1>3 DEF NodeRow
<1>5. /\ nodes' = [nodes EXCEPT ![pos[c]] = row] /\ view' = [view EXCEPT ![c][pos[c]] = row]
      /\ UNCHANGED <<run, claim, result, jobs, link, thread, snap, asked, service, requeued>>
  BY DEF EndNode, WriteNode
<1> HIDE DEF row
<1>6. NodesInv' /\ JobsInv'
  BY <1>2, <1>4, <1>5, WriteNodeKeeps DEF NodeEnds
<1>7. CallInv(c)'
  <2>1. CASE result[c] = "completed"
    <3>1. at' = [at EXCEPT ![c] = "deciding"] /\ pos'[c] = pos[c] + 1
      BY <1>2, <2>1 DEF EndNode, Continues, Goto
    <3>2. \A m \in Nodes : m < pos[c] + 1 => m < pos[c] \/ m = pos[c]
      BY <1>2 DEF Nodes
    <3>3. view'[c] = nodes'
      BY <1>2, <1>5
    <3> QED BY <1>2, <1>4, <1>5, <2>1, <3>1, <3>2, <3>3 DEF CallInv, Reading, Advancing
  <2>2. CASE result[c] # "completed"
    <3>1. at' = [at EXCEPT ![c] = "stopping"] /\ pos' = pos
      BY <2>2 DEF EndNode, Continues, Goto
    <3>2. \A m \in Nodes : m < pos[c] => m # pos[c]
      BY <1>2 DEF Nodes
    <3> QED BY <1>2, <1>4, <1>5, <2>2, <3>1, <3>2 DEF CallInv, Reading, Advancing
  <2> QED BY <2>1, <2>2
<1>8. \A d \in Callers \ {c} : at'[d] = "idle"
  BY <1>2, OthersIdle DEF EndNode, Goto
<1>9. OneCaller' /\ \A d \in Callers : CallInv(d)'
  BY <1>2, <1>5, <1>7, <1>8, OneCalls
<1> QED BY <1>1, <1>5, <1>6, <1>9 DEF RunnerInv, FreshStart

LEMMA StopDownstreamKeeps ==
  ASSUME RunnerInv, NEW c \in Callers, StopDownstream(c) PROVE RunnerInv'
<1> USE DEF jobVars, threadVars, procVars
<1>1. TypeInv'
  BY TypeNext DEF RunnerInv, Next, Process
<1>2. /\ at[c] = "stopping" /\ pos[c] \in Nodes /\ claim = c /\ run = "running"
      /\ at \in [Callers -> Places] /\ nodes \in [Nodes -> NodeRow]
      /\ nodes[pos[c]].status \in NodeEnds \ {"completed"}
      /\ \A m \in Nodes : m < pos[c] => nodes[m].status = "completed"
      /\ service = IF c = Recoverer THEN "resuming" ELSE "up"
      /\ NodesInv /\ JobsInv /\ FreshStart
  BY DEF StopDownstream, RunnerInv, OneCaller, CallInv, Advancing, Reading, AtNode,
         TypeInv, AtNodeInv, TypeOK
<1>3. UNCHANGED <<run, claim, pos, jobs, link, thread, snap, asked, service, requeued>>
  BY DEF StopDownstream
<1>4. \A d \in Callers \ {c} : at'[d] = "idle"
  BY <1>2, OthersIdle DEF StopDownstream, Goto
<1>5. CASE Downstream(pos[c]) = {}
  <2>1. at'[c] = "refreshing" /\ nodes' = nodes
    BY <1>2, <1>5 DEF StopDownstream, Goto
  <2>2. CallInv(c)'
    BY <1>2, <1>3, <2>1 DEF CallInv, Reading, Advancing
  <2>3. run # "none"
    BY <1>2
  <2> QED BY <1>1, <1>2, <1>3, <1>4, <2>1, <2>2, <2>3, MoveKeeps
<1>6. CASE Downstream(pos[c]) # {}
  <2>1. PICK k \in Downstream(pos[c]) : nodes' = [nodes EXCEPT ![k].status = "skipped"]
    BY <1>6 DEF StopDownstream
  <2>2. k \in Nodes /\ pos[c] < k /\ nodes[k].status = "pending"
    BY DEF Downstream
  <2>3. /\ nodes'[k].status = "skipped" /\ nodes'[k].started = nodes[k].started
        /\ \A m \in Nodes \ {k} : nodes'[m] = nodes[m]
    <3>1. [nodes[k] EXCEPT !.status = "skipped"].status = "skipped"
          /\ [nodes[k] EXCEPT !.status = "skipped"].started = nodes[k].started
      <4>1. \A row \in NodeRow : /\ [row EXCEPT !.status = "skipped"].status = "skipped"
                                 /\ [row EXCEPT !.status = "skipped"].started = row.started
        BY DEF NodeRow
      <4> QED BY <1>2, <2>2, <4>1
    <3>2. nodes' = [nodes EXCEPT ![k] = [nodes[k] EXCEPT !.status = "skipped"]]
      BY <2>1
    <3> QED BY <1>2, <2>2, <3>1, <3>2
  <2>4. pos[c] \in Int /\ Nodes \subseteq Int /\ pos[c] # k
    BY <1>2, <2>2 DEF Nodes
  <2>5. NodesInOrder' /\ SkippedBehindStop'
    BY <1>2, <2>2, <2>3, <2>4 DEF NodesInv, NodesInOrder, SkippedBehindStop, NodeEnds
  <2>6. NodesInv'
    BY <1>2, <1>3, <2>2, <2>3, <2>5 DEF NodesInv
  <2>7. \A j \in Jobs : link[j] # NoLink => link[j].node # k
    BY <1>2, <2>2 DEF JobsInv, LinkInv, NodesInv
  <2>8. LinkInv' /\ ResultsAreFinal'
    BY <1>2, <1>3, <2>3, <2>7 DEF JobsInv, LinkInv, ResultsAreFinal
  <2>9. RunningHasThread'
    BY <1>2, <1>3, <2>2, <2>3, <2>7 DEF JobsInv, LinkInv, RunningHasThread
  <2>10. JobsInv'
    BY <1>2, <1>3, <2>8, <2>9 DEF JobsInv, OneJobPerTarget, ThreadInv
  <2>11. at' = at
    BY <1>6 DEF StopDownstream
  <2>12. CallInv(c)'
    BY <1>2, <1>3, <2>2, <2>3, <2>4, <2>11 DEF CallInv, Reading, Advancing
  <2>13. OneCaller' /\ \A d \in Callers : CallInv(d)'
    BY <1>2, <1>3, <1>4, <2>12, OneCalls
  <2> QED BY <1>1, <1>2, <1>3, <2>6, <2>10, <2>13 DEF RunnerInv, FreshStart
<1> QED BY <1>5, <1>6

\* The job an earlier attempt created for a target is taken; otherwise the new one
\* is the only one of its target.
LEMMA CreateJobKeeps == ASSUME RunnerInv, NEW c \in Callers, CreateJob(c) PROVE RunnerInv'
<1> USE DEF runVars, jobVars, threadVars, procVars
<1>1. TypeInv'
  BY TypeNext DEF RunnerInv, Next, Process
<1>2. /\ at[c] = "executing" /\ pos[c] \in Nodes /\ claim = c /\ run = "running"
      /\ at \in [Callers -> Places] /\ nodes \in [Nodes -> NodeRow]
      /\ next \in [Callers -> Nat \ {0}] /\ next[c] <= TargetsOf[pos[c]]
      /\ TargetsOf[pos[c]] \in Nat
      /\ nodes[pos[c]].status = "running" /\ nodes[pos[c]].started
      /\ jobs \in [Jobs -> Row]
      /\ DOMAIN link = Jobs
      /\ service = IF c = Recoverer THEN "resuming" ELSE "up"
      /\ NodesInv /\ JobsInv /\ FreshStart
  BY WorkflowRunnerAssumption
  DEF CreateJob, RunnerInv, OneCaller, CallInv, Advancing, Reading, AtNode,
      TypeInv, AtNodeInv, TypeOK
<1>3. /\ UNCHANGED <<run, nodes, claim, at, view, pos, result, thread, snap, asked, service,
                     requeued>>
  BY DEF CreateJob
<1>4. \A d \in Callers \ {c} : at'[d] = "idle"
  BY <1>2, <1>3, OthersIdle
<1>5. NodesInv' /\ FreshStart'
  BY <1>2, <1>3 DEF NodesInv, NodesInOrder, SkippedBehindStop, FreshStart
<1>6. CallInv(c)'
  BY <1>2, <1>3 DEF RunnerInv, CallInv, Reading, Advancing
<1>7. OneCaller' /\ \A d \in Callers : CallInv(d)'
  BY <1>2, <1>3, <1>4, <1>6, OneCalls
<1>8. JobsInv'
  <2>1. CASE UNCHANGED <<jobs, link>>
    BY <1>2, <1>3, <2>1
    DEF JobsInv, LinkInv, OneJobPerTarget, ThreadInv, ResultsAreFinal, RunningHasThread
  <2>2. CASE Reusable(pos[c], next[c]) = {}
    <3>1. PICK j \in Jobs :
            /\ IsNextNew(jobs, j)
            /\ jobs' = [jobs EXCEPT ![j] = [jobs[j] EXCEPT !.status = CreationStatus(jobs)]]
            /\ link' = [link EXCEPT ![j] = [node |-> pos[c], target |-> next[c]]]
      BY <2>2 DEF CreateJob
    <3> DEFINE row == [jobs[j] EXCEPT !.status = CreationStatus(jobs)]
    <3>2. row.status \in {"queued", "inactive"}
      <4>1. CreationStatus(jobs) \in {"queued", "inactive"}
        BY DEF CreationStatus
      <4>2. \A r \in Row : [r EXCEPT !.status = CreationStatus(jobs)].status = CreationStatus(jobs)
        BY DEF Row
      <4> QED BY <1>2, <4>1, <4>2
    <3> HIDE DEF row
    <3>3. /\ jobs'[j] = row /\ link'[j] = [node |-> pos[c], target |-> next[c]]
          /\ \A i \in Jobs \ {j} : jobs'[i] = jobs[i] /\ link'[i] = link[i]
      BY <1>2, <3>1 DEF row
    <3>4. jobs[j].status = "absent" /\ link[j] = NoLink
      BY <1>2, <3>1 DEF IsNextNew, WithStatus, JobsInv, LinkInv
    <3>5. link'[j] # NoLink /\ link'[j].node = pos[c] /\ link'[j].target \in 1..TargetsOf[pos[c]]
      BY <1>2, <3>3 DEF NoLink, Nodes
    <3>6. LinkInv'
      BY <1>2, <1>3, <3>2, <3>3, <3>5 DEF JobsInv, LinkInv
    <3>7. \A i \in Jobs \ {j} : link[i] # link'[j]
      BY <2>2, <3>3 DEF Reusable
    <3>8. OneJobPerTarget'
      BY <1>2, <3>3, <3>7 DEF JobsInv, OneJobPerTarget
    <3>9. \A i \in Jobs : ThreadInv(i)'
      BY <1>2, <1>3, <3>2, <3>3, <3>4 DEF JobsInv, ThreadInv
    <3>10. ResultsAreFinal'
      BY <1>2, <1>3, <3>3, <3>5 DEF JobsInv, ResultsAreFinal
    <3>11. RunningHasThread'
      BY <1>2, <1>3, <3>2, <3>3 DEF JobsInv, RunningHasThread
    <3> QED BY <3>6, <3>8, <3>9, <3>10, <3>11 DEF JobsInv
  <2> QED BY <2>1, <2>2 DEF CreateJob
<1> QED BY <1>1, <1>5, <1>7, <1>8 DEF RunnerInv

\* A run that is over has no node left to do.
LEMMA RefreshRunKeeps == ASSUME RunnerInv, NEW c \in Callers, RefreshRun(c) PROVE RunnerInv'
<1> USE DEF jobVars, threadVars, procVars
<1>1. TypeInv'
  BY TypeNext DEF RunnerInv, Next, Process
<1>2. /\ at[c] = "refreshing" /\ claim = c /\ at \in [Callers -> Places]
      /\ service = IF c = Recoverer THEN "resuming" ELSE "up"
      /\ NodesInv /\ JobsInv /\ FreshStart
  BY DEF RefreshRun, RunnerInv, OneCaller, TypeInv, TypeOK
<1>3. /\ UNCHANGED <<nodes, claim, jobs, link, thread, snap, asked, service, requeued>>
      /\ at' = [at EXCEPT ![c] = "releasing"] /\ run' = RunStatus
  BY DEF RefreshRun, Goto
<1>4. \A d \in Callers \ {c} : at'[d] = "idle"
  BY <1>2, <1>3, OthersIdle
<1>5. RunStatus # "none" /\ (RunStatus # "running" => ~Have({"pending", "running"}))
  BY DEF RunStatus
<1>6. NodesInv'
  BY <1>2, <1>3, <1>5 DEF NodesInv, NodesInOrder, SkippedBehindStop, Have
<1>7. JobsInv' /\ FreshStart'
  BY <1>2, <1>3
  DEF JobsInv, LinkInv, OneJobPerTarget, ThreadInv, ResultsAreFinal, RunningHasThread, FreshStart
<1>8. CallInv(c)'
  BY <1>2, <1>3 DEF CallInv, Reading, Advancing
<1>9. OneCaller' /\ \A d \in Callers : CallInv(d)'
  BY <1>2, <1>3, <1>4, <1>5, <1>8, OneCalls
<1> QED BY <1>1, <1>6, <1>7, <1>9 DEF RunnerInv

LEMMA ReleaseKeeps == ASSUME RunnerInv, NEW c \in Callers, Release(c) PROVE RunnerInv'
<1>1. TypeInv'
  BY TypeNext DEF RunnerInv, Next, Process
<1> QED BY <1>1, LeaveKeeps DEF Release

-----------------------------------------------------------------------------
(* The steps of the executor and of the requests. *)

\* What a step of the executor or of a request may do to the jobs: none appears,
\* what is over stays over, and a job is left running only with a thread.
JobStep ==
  /\ UNCHANGED <<run, nodes, claim, link, at, view, pos, next, result, service, requeued>>
  /\ \A j \in Jobs :
       /\ jobs'[j].status = "absent" <=> jobs[j].status = "absent"
       /\ jobs[j].status \in TerminalStatuses /\ thread[j] = "none" =>
            jobs'[j].status \in TerminalStatuses /\ thread'[j] = "none"
       /\ jobs'[j].status = "running" /\ thread'[j] = "none" =>
            jobs[j].status = "running" /\ thread[j] = "none"
       /\ ThreadInv(j)'
       /\ service # "up" => thread'[j] = "none" /\ asked'[j] = NoRow

LEMMA JobStepKeeps == ASSUME RunnerInv, TypeInv', JobStep PROVE RunnerInv'
<1>1. OneCaller' /\ FreshStart' /\ NodesInv'
  BY DEF RunnerInv, OneCaller, FreshStart, NodesInv, NodesInOrder, SkippedBehindStop, JobStep
<1>2. ASSUME NEW c \in Callers PROVE CallInv(c)'
  BY DEF RunnerInv, CallInv, JobStep, Settled
<1>3. LinkInv' /\ OneJobPerTarget' /\ ResultsAreFinal' /\ \A j \in Jobs : ThreadInv(j)'
  BY DEF RunnerInv, JobsInv, LinkInv, OneJobPerTarget, ResultsAreFinal, JobStep
<1>4. RunningHasThread'
  BY DEF RunnerInv, JobsInv, RunningHasThread, JobStep
<1> QED BY <1>1, <1>2, <1>3, <1>4 DEF RunnerInv, JobsInv

\* One job changes, the others stay.
LEMMA OneJobStep ==
  ASSUME RunnerInv, NEW j \in Jobs,
         UNCHANGED <<runVars, link, callVars, service, requeued>>,
         \A i \in Jobs \ {j} : /\ jobs'[i] = jobs[i] /\ thread'[i] = thread[i]
                               /\ snap'[i] = snap[i] /\ asked'[i] = asked[i],
         jobs'[j].status = "absent" <=> jobs[j].status = "absent",
         jobs[j].status \in TerminalStatuses /\ thread[j] = "none" =>
            jobs'[j].status \in TerminalStatuses /\ thread'[j] = "none",
         jobs'[j].status = "running" /\ thread'[j] = "none" =>
            jobs[j].status = "running" /\ thread[j] = "none",
         ThreadInv(j)',
         service = "up"
  PROVE  JobStep
<1>1. ASSUME NEW i \in Jobs \ {j} PROVE ThreadInv(i)'
  BY DEF RunnerInv, JobsInv, ThreadInv
<1> QED BY <1>1 DEF JobStep, runVars, callVars

\* The fields of the rows the statements write.
LEMMA RowFields ==
  ASSUME NEW row \in Row, NEW copy \in Row
  PROVE  /\ Update(row, copy).status \in {copy.status, "cancelled"}
         /\ copy.status # "completed" => Update(row, copy).status = copy.status
         /\ RequestCancel(row).status = row.status
         /\ Cancelled(copy).status = "cancelled" /\ Failed(copy).status = "failed"
         /\ row.status = "running" => Requeue(row).status = "queued"
         /\ row.status # "running" => Requeue(row) = row
         /\ \A s \in ActiveStatuses \cup TerminalStatuses : [row EXCEPT !.status = s].status = s
  BY DEF Row, Update, RequestCancel, Cancelled, Failed, Requeue

LEMMA ActivateKeeps == ASSUME RunnerInv, Activate PROVE RunnerInv'
<1> USE DEF runVars, callVars, threadVars, procVars
<1>1. TypeInv'
  BY TypeNext DEF RunnerInv, Next
<1>2. PICK promoted \in SUBSET Jobs :
        OldestInactive(jobs, promoted) /\ jobs' = Activated(jobs, promoted)
  BY DEF Activate
<1>3. \A j \in promoted : jobs[j].status = "inactive"
  BY <1>2 DEF OldestInactive, WithStatus
<1>4. \A j \in Jobs : [jobs[j] EXCEPT !.status = "queued"].status = "queued"
  BY RowFields DEF RunnerInv, TypeInv, TypeOK, ActiveStatuses, WaitingStatuses
<1>5. \A j \in Jobs : jobs'[j].status = IF j \in promoted THEN "queued" ELSE jobs[j].status
  BY <1>2, <1>4 DEF Activated
<1>6. UNCHANGED <<run, nodes, claim, link, at, view, pos, next, result, thread, snap, asked,
                  service, requeued>> /\ service = "up"
  BY DEF Activate
<1>7. ASSUME NEW j \in Jobs PROVE ThreadInv(j)'
  BY <1>3, <1>5, <1>6 DEF RunnerInv, JobsInv, ThreadInv
<1>8. JobStep
  BY <1>3, <1>5, <1>6, <1>7 DEF JobStep, TerminalStatuses
<1> QED BY <1>1, <1>8, JobStepKeeps

LEMMA ThreadStepKeeps ==
  ASSUME RunnerInv, NEW j \in Jobs, Begin(j) \/ Execute(j)
  PROVE  RunnerInv'
<1> USE DEF procVars
<1>1. TypeInv'
  BY TypeNext DEF RunnerInv, Next
<1>2. /\ jobs \in [Jobs -> Row] /\ snap \in [Jobs -> Row] /\ asked \in [Jobs -> Row]
      /\ thread \in [Jobs -> {"none", "starting", "working", "finishing"}]
      /\ ThreadInv(j) /\ jobs[j] \in Row /\ snap[j] \in Row
  BY DEF RunnerInv, JobsInv, TypeInv, TypeOK
<1>3. service = "up"
  BY DEF RunnerInv, FreshStart, Begin, Execute, Started, Finish, Finished
<1>4. CASE Begin(j)
  <2> DEFINE row == [jobs[j] EXCEPT !.status = "running"]
  <2>1. row.status = "running"
    BY <1>2, RowFields DEF ActiveStatuses
  <2> HIDE DEF row
  <2>2. /\ jobs' = [jobs EXCEPT ![j] = row] /\ snap' = [snap EXCEPT ![j] = row]
        /\ thread' = [thread EXCEPT ![j] = "starting"] /\ asked' = asked
        /\ jobs[j].status = "queued"
        /\ UNCHANGED <<runVars, link, callVars, service, requeued>>
    BY <1>4 DEF Begin, row
  <2>3. ThreadInv(j)'
    BY <1>2, <2>1, <2>2 DEF ThreadInv
  <2>4. JobStep
    BY <1>2, <1>3, <2>1, <2>2, <2>3, OneJobStep DEF TerminalStatuses
  <2> QED BY <1>1, <2>4, JobStepKeeps
<1>5. CASE Started(j)
  <2> DEFINE row == Update(jobs[j], snap[j])
  <2>1. row.status = "running" /\ thread[j] = "starting"
    BY <1>2, <1>5, RowFields DEF ThreadInv, Started
  <2> HIDE DEF row
  <2>2. /\ jobs' = [jobs EXCEPT ![j] = row] /\ snap' = [snap EXCEPT ![j] = NoRow]
        /\ thread' = [thread EXCEPT ![j] = "working"] /\ asked' = asked
        /\ UNCHANGED <<runVars, link, callVars, service, requeued>>
    BY <1>5 DEF Started, Store, row
  <2>3. ThreadInv(j)'
    BY <1>2, <2>1, <2>2 DEF ThreadInv
  <2>4. JobStep
    BY <1>2, <1>3, <2>1, <2>2, <2>3, OneJobStep DEF ThreadInv
  <2> QED BY <1>1, <2>4, JobStepKeeps
<1>6. CASE Finish(j)
  <2>1. /\ [jobs[j] EXCEPT !.status = "completed"].status = "completed"
        /\ Failed(jobs[j]).status = "failed" /\ Cancelled(jobs[j]).status = "cancelled"
    BY <1>2, RowFields DEF TerminalStatuses
  <2>2. /\ snap'[j].status \in TerminalStatuses /\ thread[j] = "working"
        /\ \A i \in Jobs \ {j} : snap'[i] = snap[i]
        /\ jobs' = jobs /\ thread' = [thread EXCEPT ![j] = "finishing"] /\ asked' = asked
        /\ UNCHANGED <<runVars, link, callVars, service, requeued>>
    BY <1>2, <1>6, <2>1 DEF Finish, TerminalStatuses, jobVars
  <2>3. ThreadInv(j)'
    BY <1>2, <2>2 DEF ThreadInv
  <2>4. JobStep
    BY <1>2, <1>3, <2>2, <2>3, OneJobStep
  <2> QED BY <1>1, <2>4, JobStepKeeps
<1>7. CASE Finished(j)
  <2> DEFINE row == Update(jobs[j], snap[j])
  <2>1. row.status \in TerminalStatuses /\ thread[j] = "finishing"
    BY <1>2, <1>7, RowFields DEF ThreadInv, Finished, TerminalStatuses
  <2> HIDE DEF row
  <2>2. /\ jobs' = [jobs EXCEPT ![j] = row] /\ snap' = [snap EXCEPT ![j] = NoRow]
        /\ thread' = [thread EXCEPT ![j] = "none"] /\ asked' = asked
        /\ UNCHANGED <<runVars, link, callVars, service, requeued>>
    BY <1>7 DEF Finished, Store, row
  <2>3. ThreadInv(j)'
    BY <1>2, <2>1, <2>2 DEF ThreadInv, TerminalStatuses
  <2>4. JobStep
    BY <1>2, <1>3, <2>1, <2>2, <2>3, OneJobStep DEF ThreadInv, TerminalStatuses
  <2> QED BY <1>1, <2>4, JobStepKeeps
<1> QED BY <1>4, <1>5, <1>6, <1>7 DEF Execute

LEMMA CancelKeeps ==
  ASSUME RunnerInv, NEW j \in Jobs, CancelRead(j) \/ CancelWrite(j)
  PROVE  RunnerInv'
<1> USE DEF procVars, jobVars
<1>1. TypeInv'
  BY TypeNext DEF RunnerInv, Next
<1>2. /\ jobs \in [Jobs -> Row] /\ asked \in [Jobs -> Row]
      /\ ThreadInv(j) /\ jobs[j] \in Row /\ asked[j] \in Row
  BY DEF RunnerInv, JobsInv, TypeInv, TypeOK
<1>3. service = "up"
  BY DEF RunnerInv, FreshStart, CancelRead, CancelWrite
<1>4. CASE CancelRead(j)
  <2>1. /\ UNCHANGED <<jobs, thread, snap, runVars, link, callVars, service, requeued>>
        /\ asked' = [asked EXCEPT ![j] = jobs[j]] /\ jobs[j].status \in ActiveStatuses
    BY <1>4 DEF CancelRead
  <2>2. ThreadInv(j)'
    BY <1>2, <2>1 DEF ThreadInv, ActiveStatuses, WaitingStatuses
  <2>3. JobStep
    BY <1>2, <1>3, <2>1, <2>2, OneJobStep
  <2> QED BY <1>1, <2>3, JobStepKeeps
<1>5. CASE CancelWrite(j)
  <2> DEFINE row == IF asked[j].status \in WaitingStatuses
                    THEN Update(jobs[j], Cancelled(asked[j])) ELSE RequestCancel(jobs[j])
  <2>1. row.status \in {"cancelled", jobs[j].status}
    <3>1. Cancelled(asked[j]) \in Row /\ Cancelled(asked[j]).status = "cancelled"
      BY <1>2, RowType, RowFields
    <3>2. Update(jobs[j], Cancelled(asked[j])).status = "cancelled"
      BY <1>2, <3>1, RowFields
    <3>3. RequestCancel(jobs[j]).status = jobs[j].status
      BY <1>2, RowFields
    <3> QED BY <3>2, <3>3
  <2> HIDE DEF row
  <2>2. /\ jobs' = [jobs EXCEPT ![j] = row] /\ asked' = [asked EXCEPT ![j] = NoRow]
        /\ UNCHANGED <<thread, snap, runVars, link, callVars, service, requeued>>
        /\ asked[j] # NoRow
    BY <1>5 DEF CancelWrite, row
  <2>3. jobs[j].status # "absent"
    BY <1>2, <2>2 DEF RunnerInv, JobsInv, ThreadInv
  <2>4. ThreadInv(j)'
    BY <1>2, <2>1, <2>2 DEF ThreadInv
  <2>5. JobStep
    BY <1>2, <1>3, <2>1, <2>2, <2>3, <2>4, OneJobStep DEF TerminalStatuses
  <2> QED BY <1>1, <2>5, JobStepKeeps
<1> QED BY <1>4, <1>5

-----------------------------------------------------------------------------
(* The process. *)

LEMMA CrashKeeps == ASSUME RunnerInv, Crash PROVE RunnerInv'
<1> USE DEF runVars, jobVars
<1>1. TypeInv'
  BY TypeNext DEF RunnerInv, Next
<1>2. /\ \A c \in Callers : at'[c] = "idle"
      /\ \A j \in Jobs : thread'[j] = "none" /\ asked'[j] = NoRow
      /\ service' = "down" /\ requeued' = FALSE
      /\ UNCHANGED <<run, nodes, jobs, link>>
  BY DEF Crash
<1>3. OneCaller' /\ FreshStart' /\ \A c \in Callers : CallInv(c)'
  BY <1>2 DEF OneCaller, FreshStart, CallInv, Reading, Advancing
<1>4. NodesInv'
  BY <1>2 DEF RunnerInv, NodesInv, NodesInOrder, SkippedBehindStop
<1>5. JobsInv'
  BY <1>2
  DEF RunnerInv, JobsInv, LinkInv, OneJobPerTarget, ThreadInv, ResultsAreFinal, RunningHasThread
<1> QED BY <1>1, <1>3, <1>4, <1>5 DEF RunnerInv

\* A job that is still marked running when a run is over belongs to a node that
\* failed or was cancelled: the recovery may leave it alone.
LEMMA LeftRunning ==
  ASSUME RunnerInv, run # "running", NEW j \in Jobs, jobs[j].status = "running"
  PROVE  nodes[link[j].node].status \in {"failed", "cancelled"}
<1>1. link[j] # NoLink /\ link[j].node \in Nodes /\ nodes[link[j].node].started
  BY DEF RunnerInv, JobsInv, LinkInv
<1>2. nodes[link[j].node].status \in NodeStatuses
  BY <1>1 DEF RunnerInv, TypeInv, TypeOK, NodeRow
<1>3. nodes[link[j].node].status \notin {"pending", "skipped"}
  BY <1>1 DEF RunnerInv, NodesInv
<1>4. nodes[link[j].node].status # "running"
  BY <1>1 DEF RunnerInv, NodesInv
<1>5. nodes[link[j].node].status \notin {"completed", "partial"}
  BY <1>1 DEF RunnerInv, JobsInv, ResultsAreFinal, TerminalStatuses
<1> QED BY <1>2, <1>3, <1>4, <1>5 DEF NodeStatuses

LEMMA RequeueKeeps == ASSUME RunnerInv, RequeueJobs PROVE RunnerInv'
<1> USE DEF runVars, callVars, threadVars
<1>1. TypeInv'
  BY TypeNext DEF RunnerInv, Next
<1>2. /\ service = "requeueing" /\ requeued' = TRUE /\ service' \in {"resuming", "up"}
      /\ \A j \in Jobs : thread[j] = "none" /\ asked[j] = NoRow
      /\ UNCHANGED <<run, nodes, claim, link, at, view, pos, next, result, thread, snap, asked>>
      /\ \A j \in Jobs : jobs[j] \in Row
  BY DEF RequeueJobs, RunnerInv, FreshStart, TypeInv, TypeOK
<1>3. ASSUME NEW j \in Jobs
      PROVE  jobs'[j].status = IF j \in Interrupted /\ jobs[j].status = "running"
                               THEN "queued" ELSE jobs[j].status
  BY <1>2, RowFields DEF RequeueJobs
<1>4. \A c \in Callers : at[c] = "idle"
  BY <1>2 DEF RunnerInv, OneCaller
<1>5. OneCaller' /\ FreshStart' /\ \A c \in Callers : CallInv(c)'
  BY <1>2, <1>4 DEF OneCaller, FreshStart, CallInv, Reading, Advancing
<1>6. NodesInv'
  BY <1>2 DEF RunnerInv, NodesInv, NodesInOrder, SkippedBehindStop
<1>7. LinkInv' /\ OneJobPerTarget' /\ ResultsAreFinal' /\ \A j \in Jobs : ThreadInv(j)'
  BY <1>2, <1>3
  DEF RunnerInv, JobsInv, LinkInv, OneJobPerTarget, ThreadInv, ResultsAreFinal, TerminalStatuses
<1>8. RunningHasThread'
  <2> SUFFICES ASSUME NEW j \in Jobs, jobs'[j].status = "running"
               PROVE  nodes[link[j].node].status \in {"failed", "cancelled"}
    BY <1>2 DEF RunningHasThread
  <2>1. jobs[j].status = "running" /\ j \notin Interrupted
    BY <1>3
  <2>2. run # "running"
    BY <2>1 DEF Interrupted, RunnerInv, JobsInv, LinkInv
  <2> QED BY <2>1, <2>2, LeftRunning
<1> QED BY <1>1, <1>5, <1>6, <1>7, <1>8 DEF RunnerInv, JobsInv

LEMMA StartupKeeps ==
  ASSUME RunnerInv, CreateRun \/ Boot \/ RecoveryFault
  PROVE  RunnerInv'
<1> USE DEF runVars, jobVars, callVars, threadVars, procVars
<1>1. TypeInv'
  BY TypeNext DEF RunnerInv, Next
<1>2. /\ UNCHANGED <<nodes, jobs, link, at, view, pos, next, result, thread, snap, asked, requeued>>
      /\ run' = run \/ (run = "none" /\ run' = "running" /\ service' = service)
      /\ service' = service \/ (service \in {"down", "requeueing"} /\ run' = run)
  BY DEF CreateRun, Boot, RecoveryFault
<1>3. \A c \in Callers : at[c] = "idle"
  BY DEF CreateRun, Boot, RecoveryFault, RunnerInv, OneCaller
<1>4. OneCaller' /\ \A c \in Callers : CallInv(c)'
  BY <1>2, <1>3 DEF OneCaller, CallInv, Reading, Advancing
<1>5. FreshStart'
  BY <1>2 DEF RunnerInv, FreshStart, CreateRun, Boot, RecoveryFault
<1>6. NodesInv'
  BY <1>2 DEF RunnerInv, NodesInv, NodesInOrder, SkippedBehindStop
<1>7. JobsInv'
  BY <1>2
  DEF RunnerInv, FreshStart, JobsInv, LinkInv, OneJobPerTarget, ThreadInv, ResultsAreFinal,
      RunningHasThread
<1> QED BY <1>1, <1>4, <1>5, <1>6, <1>7 DEF RunnerInv

LEMMA StutterKeeps == ASSUME RunnerInv, UNCHANGED vars PROVE RunnerInv'
<1> USE DEF vars, runVars, jobVars, callVars, threadVars, procVars
<1>1. TypeInv'
  BY TypeNext DEF RunnerInv
<1>2. OneCaller' /\ FreshStart' /\ \A c \in Callers : CallInv(c)'
  BY DEF RunnerInv, OneCaller, FreshStart, CallInv, Settled
<1>3. NodesInv' /\ JobsInv'
  BY DEF RunnerInv, NodesInv, NodesInOrder, SkippedBehindStop, JobsInv, LinkInv,
         OneJobPerTarget, ThreadInv, ResultsAreFinal, RunningHasThread
<1> QED BY <1>1, <1>2, <1>3 DEF RunnerInv

LEMMA RunnerNext == RunnerInv /\ [Next]_vars => RunnerInv'
<1> SUFFICES ASSUME RunnerInv, [Next]_vars PROVE RunnerInv'
  OBVIOUS
<1>1. ASSUME NEW c \in Callers, Process(c) PROVE RunnerInv'
  BY <1>1, LoadKeeps, DecideKeeps, NoMoreNodesKeeps, StartNodeKeeps, CreateJobKeeps,
     ExecutedKeeps, LinkJobsKeeps, EndNodeKeeps, StopDownstreamKeeps, RefreshRunKeeps,
     ReleaseKeeps
  DEF Process
<1>2. ASSUME NEW c \in Callers, Call(c) \/ Fault(c) PROVE RunnerInv'
  BY <1>2, CallKeeps, FaultKeeps
<1>3. ASSUME NEW j \in Jobs, Begin(j) \/ Execute(j) \/ CancelRead(j) \/ CancelWrite(j)
      PROVE  RunnerInv'
  BY <1>3, ThreadStepKeeps, CancelKeeps
<1>4. CASE CreateRun \/ Activate \/ Crash \/ Boot \/ RequeueJobs \/ RecoveryFault
  BY <1>4, ActivateKeeps, CrashKeeps, RequeueKeeps, StartupKeeps
<1>5. CASE UNCHANGED vars
  BY <1>5, StutterKeeps
<1> QED BY <1>1, <1>2, <1>3, <1>4, <1>5 DEF Next

LEMMA RunnerInvariance == Spec => []RunnerInv
  BY RunnerInit, RunnerNext, PTL DEF Spec

-----------------------------------------------------------------------------
(* What a run guarantees. *)

\* However often the execution of a node is cut short and repeated, by whichever
\* caller, no target of it gets two jobs.
THEOREM TargetsAreDownloadedOnce == Spec => []OneJobPerTarget
<1>1. RunnerInv => OneJobPerTarget
  BY DEF RunnerInv, JobsInv
<1> QED BY <1>1, RunnerInvariance, PTL

\* What the next nodes build on does not change any more: the jobs of a node that
\* counts as completed or partial are over, whatever stale copies are stored.
THEOREM NodesWaitForTheirJobs == Spec => []ResultsAreFinal
<1>1. RunnerInv => ResultsAreFinal
  BY DEF RunnerInv, JobsInv
<1> QED BY <1>1, RunnerInvariance, PTL

\* No job exists for a node before every node above it has completed, whatever
\* errors, crashes and repeated calls come between.
THEOREM PredecessorsComeFirst == Spec => []JobsFollowPredecessors
<1>1. RunnerInv => JobsFollowPredecessors
  <2> SUFFICES ASSUME RunnerInv, NEW j \in Jobs, NEW n \in Nodes, n < link[j].node
               PROVE  nodes[n].status = "completed"
    BY DEF JobsFollowPredecessors
  <2>1. link[j] # NoLink
    BY DEF NoLink, Nodes
  <2>2. link[j].node \in Nodes /\ nodes[link[j].node].status \notin {"pending", "skipped"}
    BY <2>1 DEF RunnerInv, JobsInv, LinkInv, NodesInv
  <2> QED BY <2>2 DEF RunnerInv, NodesInv, NodesInOrder
<1> QED BY <1>1, RunnerInvariance, PTL

\* After a recovery that did its work every job marked running is executed or
\* belongs to a node that was given up.
THEOREM RecoveryLeavesNoJob == Spec => []NoJobLeftBehind
<1>1. RunnerInv => NoJobLeftBehind
  BY DEF RunnerInv, JobsInv, RunningHasThread, NoJobLeftBehind
<1> QED BY <1>1, RunnerInvariance, PTL

-----------------------------------------------------------------------------
(* The pipeline. *)

NodeFn == [n \in Nodes |-> nodes[n].status]

LEMMA PipelineInit == Init => Pipeline!Init
  BY DEF Init, Pipeline!Init, NewNode

\* A step that writes neither the status of the run nor that of a node stutters.
LEMMA PipelineStutter ==
  ASSUME run' = run, \A n \in Nodes : nodes'[n].status = nodes[n].status
  PROVE  run' = run /\ NodeFn' = NodeFn
  BY DEF NodeFn

\* advanced_run_status sums the finished nodes up.
LEMMA RunStatusIsSummary ==
  ASSUME RunnerInv, ~Have({"pending", "running"})
  PROVE  RunStatus = Pipeline!Summary /\ ~Pipeline!Some(Pipeline!Unfinished)
<1>1. \A n \in Nodes : NodeFn[n] = nodes[n].status
  BY DEF NodeFn
<1>2. \A S : Pipeline!Some(S) = Have(S)
  BY <1>1 DEF Pipeline!Some, Have, NodeFn
<1>3. ~Pipeline!Some(Pipeline!Unfinished)
  BY <1>2 DEF Pipeline!Unfinished
<1>4. RunStatus = Pipeline!Summary
  BY <1>2 DEF RunStatus, Pipeline!Summary
<1> QED BY <1>3, <1>4

LEMMA WriteNodeRefines ==
  ASSUME RunnerInv, NEW c \in Callers, StartNode(c) \/ LinkJobs(c) \/ EndNode(c)
  PROVE  Pipeline!Next \/ (run' = run /\ NodeFn' = NodeFn)
<1>1. /\ pos[c] \in Nodes /\ run = "running" /\ run' = run
      /\ nodes \in [Nodes -> NodeRow] /\ Current(c) = nodes[pos[c]]
      /\ \A m \in Nodes : m < pos[c] => nodes[m].status = "completed"
  BY DEF StartNode, LinkJobs, EndNode, WriteNode, RunnerInv, CallInv, Advancing, Reading, AtNode,
         TypeInv, AtNodeInv, TypeOK, Current
<1>0. PICK n \in Nodes : n = pos[c]
  BY <1>1
<1>2. CASE StartNode(c)
  <2> DEFINE row == [Current(c) EXCEPT !.status = "running", !.started = TRUE]
  <2>1. row.status = "running" /\ nodes[pos[c]].status \in {"pending", "running"}
    BY <1>1, <1>2 DEF NodeRow, StartNode, RunnerInv, CallInv
  <2>2. nodes' = [nodes EXCEPT ![n] = row]
    BY <1>0, <1>2 DEF StartNode, WriteNode
  <2> HIDE DEF row
  <2>3. CASE nodes[pos[c]].status = "running"
    <3>1. \A m \in Nodes : nodes'[m].status = nodes[m].status
      BY <1>0, <1>1, <2>1, <2>2, <2>3
    <3> QED BY <1>1, <3>1, PipelineStutter
  <2>4. CASE nodes[pos[c]].status = "pending"
    <3>1. /\ NodeFn' = [NodeFn EXCEPT ![n] = "running"]
          /\ \A m \in Nodes : NodeFn[m] = nodes[m].status
      BY <1>1, <2>1, <2>2 DEF NodeFn
    <3>2. Pipeline!Begin(n)
      BY <1>0, <1>1, <2>4, <3>1 DEF Pipeline!Begin, NodeFn
    <3> QED BY <3>2 DEF Pipeline!Next
  <2> QED BY <2>1, <2>3, <2>4
<1>3. CASE LinkJobs(c)
  <2> DEFINE row == [Current(c) EXCEPT !.ready = TRUE]
  <2>1. row.status = nodes[pos[c]].status
    BY <1>1 DEF NodeRow
  <2>2. nodes' = [nodes EXCEPT ![pos[c]] = row]
    BY <1>3 DEF LinkJobs, WriteNode
  <2> HIDE DEF row
  <2>3. \A m \in Nodes : nodes'[m].status = nodes[m].status
    BY <1>1, <2>1, <2>2
  <2> QED BY <1>1, <2>3, PipelineStutter
<1>4. CASE EndNode(c)
  <2> DEFINE row == [Current(c) EXCEPT !.status = result[c]]
  <2>1. row.status = result[c] /\ result[c] \in NodeEnds /\ nodes[pos[c]].status = "running"
    BY <1>1, <1>4 DEF NodeRow, EndNode, RunnerInv, CallInv
  <2>2. nodes' = [nodes EXCEPT ![n] = row]
    BY <1>0, <1>4 DEF EndNode, WriteNode
  <2> HIDE DEF row
  <2>3. /\ NodeFn' = [NodeFn EXCEPT ![n] = result[c]]
        /\ \A m \in Nodes : NodeFn[m] = nodes[m].status
    BY <1>1, <2>1, <2>2 DEF NodeFn
  <2>4. Pipeline!End(n)
    BY <1>0, <1>1, <2>1, <2>3 DEF Pipeline!End, Pipeline!NodeResults, NodeFn, NodeEnds
  <2> QED BY <2>4 DEF Pipeline!Next
<1> QED BY <1>2, <1>3, <1>4

LEMMA StopDownstreamRefines ==
  ASSUME RunnerInv, NEW c \in Callers, StopDownstream(c)
  PROVE  Pipeline!Next \/ (run' = run /\ NodeFn' = NodeFn)
<1>1. /\ pos[c] \in Nodes /\ run = "running" /\ run' = run
      /\ nodes \in [Nodes -> NodeRow]
      /\ nodes[pos[c]].status \in NodeEnds \ {"completed"}
  BY DEF StopDownstream, RunnerInv, CallInv, Advancing, Reading, AtNode, TypeInv, AtNodeInv, TypeOK
<1>2. CASE Downstream(pos[c]) = {}
  BY <1>1, <1>2, PipelineStutter DEF StopDownstream
<1>3. CASE Downstream(pos[c]) # {}
  <2>1. PICK k \in Downstream(pos[c]) : nodes' = [nodes EXCEPT ![k].status = "skipped"]
    BY <1>3 DEF StopDownstream
  <2>2. k \in Nodes /\ pos[c] < k /\ nodes[k].status = "pending"
    BY DEF Downstream
  <2> DEFINE row == [nodes[k] EXCEPT !.status = "skipped"]
  <2>3. row.status = "skipped"
    <3>1. \A r \in NodeRow : [r EXCEPT !.status = "skipped"].status = "skipped"
      BY DEF NodeRow
    <3> QED BY <1>1, <2>2, <3>1
  <2>4. nodes' = [nodes EXCEPT ![k] = row]
    BY <2>1
  <2> HIDE DEF row
  <2>5. NodeFn' = [NodeFn EXCEPT ![k] = "skipped"]
    BY <1>1, <2>3, <2>4 DEF NodeFn
  <2>6. Pipeline!Skip(k)
    BY <1>1, <2>2, <2>5 DEF Pipeline!Skip, Pipeline!NodeResults, NodeFn, NodeEnds
  <2> QED BY <2>2, <2>6 DEF Pipeline!Next
<1> QED BY <1>2, <1>3

LEMMA RefreshRunRefines ==
  ASSUME RunnerInv, NEW c \in Callers, RefreshRun(c)
  PROVE  Pipeline!Next \/ (run' = run /\ NodeFn' = NodeFn)
<1>1. run = "running" /\ run' = RunStatus /\ nodes' = nodes
  BY DEF RefreshRun, RunnerInv, CallInv
<1>2. CASE Have({"pending", "running"})
  <2>1. run' = run
    BY <1>1, <1>2 DEF RunStatus
  <2> QED BY <1>1, <2>1, PipelineStutter
<1>3. CASE ~Have({"pending", "running"})
  <2>1. Pipeline!Settle
    BY <1>1, <1>3, RunStatusIsSummary DEF Pipeline!Settle, NodeFn
  <2> QED BY <2>1 DEF Pipeline!Next
<1> QED BY <1>2, <1>3

LEMMA PipelineNext ==
  RunnerInv /\ [Next]_vars => Pipeline!Next \/ (run' = run /\ NodeFn' = NodeFn)
<1> SUFFICES ASSUME RunnerInv, [Next]_vars
             PROVE  Pipeline!Next \/ (run' = run /\ NodeFn' = NodeFn)
  OBVIOUS
<1> USE DEF runVars, jobVars, callVars, threadVars, procVars
<1>1. CASE UNCHANGED <<run, nodes>>
  BY <1>1, PipelineStutter
<1>2. CASE CreateRun
  <2>1. Pipeline!Create
    BY <1>2 DEF CreateRun, Pipeline!Create, NodeFn
  <2> QED BY <2>1 DEF Pipeline!Next
<1>3. ASSUME NEW c \in Callers, Call(c) \/ Process(c) \/ Fault(c)
      PROVE  Pipeline!Next \/ (run' = run /\ NodeFn' = NodeFn)
  <2>1. CASE \/ Call(c) \/ Load(c) \/ Decide(c) \/ NoMoreNodes(c) \/ CreateJob(c)
             \/ ExecuteRaises(c) \/ Executed(c) \/ Release(c) \/ Fault(c)
    <3>1. UNCHANGED <<run, nodes>>
      BY <2>1
      DEF Call, Load, Decide, NoMoreNodes, CreateJob, ExecuteRaises, Executed, Release, Leave, Fault
    <3> QED BY <1>1, <3>1
  <2> QED
    BY <1>3, <2>1, WriteNodeRefines, StopDownstreamRefines, RefreshRunRefines DEF Process
<1>4. ASSUME NEW j \in Jobs, Begin(j) \/ Execute(j) \/ CancelRead(j) \/ CancelWrite(j)
      PROVE  UNCHANGED <<run, nodes>>
  BY <1>4 DEF Begin, Execute, Started, Finish, Finished, Store, CancelRead, CancelWrite
<1>5. CASE Activate \/ Crash \/ Boot \/ RequeueJobs \/ RecoveryFault \/ UNCHANGED vars
  BY <1>1, <1>5 DEF Activate, Crash, Boot, RequeueJobs, RecoveryFault, vars
<1> QED BY <1>1, <1>2, <1>3, <1>4, <1>5 DEF Next

\* All the calls together, wherever errors and crashes cut them off, make one pass
\* over the nodes: in their order, with one result each, and one end of the run.
THEOREM PipelineRefinement == Spec => ImplementsPipeline
<1>1. RunnerInv /\ [Next]_vars => [Pipeline!Next]_<<run, NodeFn>>
  BY PipelineNext
<1> QED
  BY <1>1, PipelineInit, RunnerInvariance, PTL
  DEF Spec, ImplementsPipeline, Pipeline!Spec, NodeFn

-----------------------------------------------------------------------------
(* The jobs of a run keep the life cycle of JobQueue. *)

PhaseFn == [j \in Jobs |-> PhaseOf(j)]

\* The phases a job may go through in one step of the life cycle.
Moves == {<<"none", "waiting">>, <<"waiting", "working">>, <<"working", "over">>,
          <<"working", "waiting">>, <<"waiting", "over">>}

\* A step that moves one job is a step of the life cycle or a stutter.
LEMMA OnePhase ==
  ASSUME NEW j \in Jobs,
         PhaseOf(j)' = PhaseOf(j) \/ <<PhaseOf(j), PhaseOf(j)'>> \in Moves,
         \A k \in Jobs \ {j} : jobs'[k] = jobs[k] /\ thread'[k] = thread[k]
  PROVE  PhaseFn' = PhaseFn \/ Lifecycle!Next
<1>1. \A k \in Jobs \ {j} : PhaseOf(k)' = PhaseOf(k)
  BY DEF PhaseOf
<1>2. CASE PhaseOf(j)' = PhaseOf(j)
  BY <1>1, <1>2 DEF PhaseFn
<1>3. CASE <<PhaseOf(j), PhaseOf(j)'>> \in Moves
  <2>1. PhaseFn' = [PhaseFn EXCEPT ![j] = PhaseOf(j)'] /\ PhaseFn[j] = PhaseOf(j)
    BY <1>1 DEF PhaseFn
  <2>2. \E from, to : Lifecycle!Move(j, from, to) /\ <<from, to>> \in Moves
    <3> WITNESS PhaseOf(j), PhaseOf(j)'
    <3> QED BY <1>3, <2>1 DEF Lifecycle!Move, PhaseFn
  <2> QED
    BY <2>2 DEF Moves, Lifecycle!Next, Lifecycle!Submit, Lifecycle!Begin,
                Lifecycle!Finish, Lifecycle!Abandon, Lifecycle!CancelWaiting
<1> QED BY <1>2, <1>3

\* A step that leaves the threads alone, and every status among those of a job
\* that waits or as it was, moves no job.
LEMMA WaitingStays ==
  ASSUME UNCHANGED thread,
         \A j \in Jobs : \/ jobs'[j].status = jobs[j].status
                         \/ /\ jobs[j].status \in {"inactive", "queued", "running"}
                            /\ jobs'[j].status \in {"inactive", "queued", "running"}
  PROVE  PhaseFn' = PhaseFn
<1>1. ASSUME NEW j \in Jobs PROVE PhaseOf(j)' = PhaseOf(j)
  BY <1>1 DEF PhaseOf, TerminalStatuses
<1> QED BY <1>1 DEF PhaseFn

\* The job a node creates is new: it takes no row an earlier job has left.
LEMMA CreateJobMoves ==
  ASSUME RunnerInv, NEW c \in Callers, CreateJob(c)
  PROVE  PhaseFn' = PhaseFn \/ Lifecycle!Next
<1> USE DEF threadVars
<1>1. CASE UNCHANGED jobs
  BY <1>1, WaitingStays DEF CreateJob
<1>2. CASE ~UNCHANGED jobs
  <2>1. PICK j \in Jobs : /\ IsNextNew(jobs, j)
                          /\ jobs' = [jobs EXCEPT ![j].status = CreationStatus(jobs)]
    BY <1>2 DEF CreateJob, jobVars
  <2>2. jobs \in [Jobs -> Row] /\ ThreadInv(j)
    BY DEF RunnerInv, JobsInv, TypeInv, TypeOK
  <2>3. jobs[j].status = "absent" /\ jobs'[j].status \in {"queued", "inactive"}
    BY <2>1, <2>2 DEF IsNextNew, WithStatus, CreationStatus, Row
  <2>4. thread' = thread /\ \A k \in Jobs \ {j} : jobs'[k] = jobs[k]
    BY <2>1, <2>2 DEF CreateJob
  <2>5. PhaseOf(j) = "none" /\ PhaseOf(j)' = "waiting"
    BY <2>2, <2>3, <2>4 DEF PhaseOf, ThreadInv, TerminalStatuses
  <2> QED BY <2>4, <2>5, OnePhase DEF Moves
<1> QED BY <1>1, <1>2

\* A thread takes a job that waits and leaves one that is over.
LEMMA ThreadMoves ==
  ASSUME RunnerInv, NEW j \in Jobs, Begin(j) \/ Execute(j)
  PROVE  PhaseFn' = PhaseFn \/ Lifecycle!Next
<1>1. /\ jobs \in [Jobs -> Row] /\ snap \in [Jobs -> Row]
      /\ DOMAIN thread = Jobs /\ ThreadInv(j) /\ jobs[j] \in Row /\ snap[j] \in Row
  BY DEF RunnerInv, JobsInv, TypeInv, TypeOK
<1>2. \A k \in Jobs \ {j} : jobs'[k] = jobs[k] /\ thread'[k] = thread[k]
  BY <1>1 DEF Begin, Execute, Started, Finish, Finished, Store, jobVars
<1>3. CASE Begin(j)
  <2>1. PhaseOf(j) = "waiting" /\ PhaseOf(j)' = "working"
    BY <1>1, <1>3 DEF Begin, PhaseOf, TerminalStatuses
  <2> QED BY <1>2, <2>1, OnePhase DEF Moves
<1>4. CASE Started(j) \/ Finish(j)
  <2>1. PhaseOf(j)' = PhaseOf(j)
    BY <1>1, <1>4 DEF Started, Finish, Store, PhaseOf
  <2> QED BY <1>2, <2>1, OnePhase
<1>5. CASE Finished(j)
  <2>1. thread[j] = "finishing" /\ thread'[j] = "none" /\ jobs'[j] = Update(jobs[j], snap[j])
    BY <1>1, <1>5 DEF Finished, Store
  <2>2. snap[j].status \in TerminalStatuses
    BY <1>1, <2>1 DEF ThreadInv
  <2>3. jobs'[j].status \in TerminalStatuses
    BY <1>1, <2>1, <2>2, RowFields DEF TerminalStatuses
  <2>4. PhaseOf(j) = "working" /\ PhaseOf(j)' = "over"
    BY <2>1, <2>3 DEF PhaseOf, TerminalStatuses
  <2> QED BY <1>2, <2>4, OnePhase DEF Moves
<1> QED BY <1>3, <1>4, <1>5 DEF Execute

\* A stale copy of a cancelling request ends a job that waits and disturbs neither
\* one that is executed nor one that is over.
LEMMA CancelMoves ==
  ASSUME RunnerInv, NEW j \in Jobs, CancelWrite(j)
  PROVE  PhaseFn' = PhaseFn \/ Lifecycle!Next
<1>1. /\ jobs \in [Jobs -> Row] /\ jobs[j] \in Row /\ asked[j] \in Row
      /\ jobs[j].status # "absent" /\ asked[j] # NoRow
  BY DEF RunnerInv, JobsInv, ThreadInv, TypeInv, TypeOK, CancelWrite
<1>2. thread' = thread /\ \A k \in Jobs \ {j} : jobs'[k] = jobs[k]
  BY <1>1 DEF CancelWrite
<1>3. Cancelled(asked[j]) \in Row /\ Cancelled(asked[j]).status = "cancelled"
  BY <1>1, RowType, RowFields
<1>4. /\ Update(jobs[j], Cancelled(asked[j])).status = "cancelled"
      /\ RequestCancel(jobs[j]).status = jobs[j].status
  BY <1>1, <1>3, RowFields
<1>5. jobs'[j].status \in {"cancelled", jobs[j].status}
  BY <1>1, <1>4 DEF CancelWrite
<1>6. PhaseOf(j)' = PhaseOf(j) \/ <<PhaseOf(j), PhaseOf(j)'>> = <<"waiting", "over">>
  BY <1>1, <1>2, <1>5 DEF PhaseOf, TerminalStatuses
<1> QED BY <1>2, <1>6, OnePhase DEF Moves

\* A crash ends every execution at once: the job is over if a request had ended
\* its row, otherwise it waits for the recovery.
LEMMA CrashMoves == ASSUME RunnerInv, Crash PROVE Lifecycle!Die
<1>1. jobs' = jobs /\ \A j \in Jobs : thread'[j] = "none"
  BY DEF Crash, jobVars
<1>2. PhaseFn' \in [Jobs -> Lifecycle!Phases]
  BY DEF PhaseFn, Lifecycle!Phases, PhaseOf
<1>3. ASSUME NEW j \in Jobs
      PROVE  \/ PhaseFn[j] = "working" /\ PhaseFn'[j] \in {"waiting", "over"}
             \/ PhaseFn[j] # "working" /\ PhaseFn'[j] = PhaseFn[j]
  <2>1. ThreadInv(j)
    BY DEF RunnerInv, JobsInv
  <2> QED BY <1>1, <2>1 DEF PhaseFn, PhaseOf, ThreadInv, TerminalStatuses
<1> QED BY <1>2, <1>3 DEF Lifecycle!Die, PhaseFn

\* Every step of a run, of its jobs and of the process is a step of the life cycle
\* of one job, the death of all executions, or a stutter.
LEMMA LifecycleNext ==
  RunnerInv /\ [Next]_vars => PhaseFn' = PhaseFn \/ Lifecycle!Next
<1> SUFFICES ASSUME RunnerInv, [Next]_vars PROVE PhaseFn' = PhaseFn \/ Lifecycle!Next
  OBVIOUS
<1> USE DEF jobVars, threadVars
<1>1. CASE UNCHANGED <<jobs, thread>>
  BY <1>1, WaitingStays
<1>2. \A j \in Jobs : jobs[j] \in Row
  BY DEF RunnerInv, TypeInv, TypeOK
<1>3. ASSUME NEW c \in Callers, Call(c) \/ Process(c) \/ Fault(c)
      PROVE  PhaseFn' = PhaseFn \/ Lifecycle!Next
  <2>1. CASE CreateJob(c)
    BY <2>1, CreateJobMoves
  <2>2. CASE \/ Call(c) \/ Load(c) \/ Decide(c) \/ NoMoreNodes(c) \/ StartNode(c)
             \/ ExecuteRaises(c) \/ Executed(c) \/ LinkJobs(c) \/ EndNode(c)
             \/ StopDownstream(c) \/ RefreshRun(c) \/ Release(c) \/ Fault(c)
    <3>1. UNCHANGED <<jobs, thread>>
      BY <2>2
      DEF Call, Load, Decide, NoMoreNodes, StartNode, ExecuteRaises, Executed, LinkJobs,
          EndNode, StopDownstream, RefreshRun, Release, Leave, Fault
    <3> QED BY <1>1, <3>1
  <2> QED BY <1>3, <2>1, <2>2 DEF Process
<1>4. ASSUME NEW j \in Jobs, Begin(j) \/ Execute(j) \/ CancelRead(j) \/ CancelWrite(j)
      PROVE  PhaseFn' = PhaseFn \/ Lifecycle!Next
  <2>1. CancelRead(j) => UNCHANGED <<jobs, thread>>
    BY DEF CancelRead
  <2> QED BY <1>1, <1>4, <2>1, ThreadMoves, CancelMoves
<1>5. CASE Activate
  <2>1. ASSUME NEW j \in Jobs
        PROVE  \/ jobs'[j].status = jobs[j].status
               \/ jobs[j].status = "inactive" /\ jobs'[j].status = "queued"
    <3>1. [jobs[j] EXCEPT !.status = "queued"].status = "queued"
      BY <1>2 DEF Row
    <3> QED BY <1>5, <3>1 DEF Activate, OldestInactive, WithStatus, Activated
  <2> QED BY <1>5, <2>1, WaitingStays DEF Activate
<1>6. CASE RequeueJobs
  <2>1. ASSUME NEW j \in Jobs
        PROVE  \/ jobs'[j].status = jobs[j].status
               \/ jobs[j].status = "running" /\ jobs'[j].status = "queued"
    BY <1>2, <1>6, RowFields DEF RequeueJobs
  <2> QED BY <1>6, <2>1, WaitingStays DEF RequeueJobs
<1>7. CASE Crash
  BY <1>7, CrashMoves DEF Lifecycle!Next
<1>8. CASE CreateRun \/ Boot \/ RecoveryFault \/ UNCHANGED vars
  BY <1>1, <1>8 DEF CreateRun, Boot, RecoveryFault, vars
<1> QED BY <1>3, <1>4, <1>5, <1>6, <1>7, <1>8 DEF Next

\* The jobs of a run keep the life cycle the executor promises: no call, stale
\* cancellation, crash or recovery revives a job that is over, or has one executed
\* twice at a time.
THEOREM LifecycleRefinement == Spec => ImplementsLifecycle
<1>1. Init => Lifecycle!Init
  BY DEF Init, NoThreads, Lifecycle!Init, PhaseOf, NoRow
<1>2. RunnerInv /\ [Next]_vars => [Lifecycle!Next]_PhaseFn
  BY LifecycleNext
<1> QED
  BY <1>1, <1>2, RunnerInvariance, PTL
  DEF Spec, ImplementsLifecycle, Lifecycle!Spec, PhaseFn

-----------------------------------------------------------------------------
(* The claim. *)

\* A step of a call keeps its claim in use until the call gives it back; only a
\* database error has the call end with the claim.
LEMMA CallClaims ==
  ASSUME RunnerInv, RunnerInv', ClaimIsUsed, NEW c \in Callers,
         Call(c) \/ Process(c) \/ Fault(c)
  PROVE  ClaimIsUsed'
<1> USE DEF runVars, jobVars, callVars, threadVars, procVars
<1>1. /\ DOMAIN at = Callers /\ faults \in Nat
      /\ at[c] # "idle" => claim = c
  BY WorkflowRunnerAssumption DEF RunnerInv, TypeInv, TypeOK, OneCaller
<1>2. CASE Fault(c)
  <2>1. faults' > 0
    BY <1>1, <1>2 DEF Fault
  <2> QED BY <2>1 DEF ClaimIsUsed
<1>3. CASE Release(c)
  <2>1. claim' = Nobody
    BY <1>1, <1>3 DEF Release
  <2> QED BY <2>1 DEF ClaimIsUsed
<1>4. CASE \/ Call(c) \/ Load(c) \/ Decide(c) \/ NoMoreNodes(c) \/ StartNode(c) \/ CreateJob(c)
           \/ ExecuteRaises(c) \/ Executed(c) \/ LinkJobs(c) \/ EndNode(c)
           \/ StopDownstream(c) \/ RefreshRun(c)
  <2>1. claim' = c /\ at'[c] # "idle"
    BY <1>1, <1>4
    DEF Call, Load, Decide, NoMoreNodes, StartNode, CreateJob, ExecuteRaises, Executed,
        LinkJobs, EndNode, StopDownstream, RefreshRun, WriteNode, Goto
  <2> QED BY <2>1 DEF ClaimIsUsed
<1> QED BY <1>2, <1>3, <1>4 DEF Process

LEMMA ClaimsNext ==
  RunnerInv /\ RunnerInv' /\ ClaimIsUsed /\ [Next]_vars => ClaimIsUsed'
<1> SUFFICES ASSUME RunnerInv, RunnerInv', ClaimIsUsed, [Next]_vars PROVE ClaimIsUsed'
  OBVIOUS
<1> USE DEF runVars, jobVars, callVars, threadVars, procVars
<1>1. faults \in Nat
  BY WorkflowRunnerAssumption DEF RunnerInv, TypeInv, TypeOK
<1>2. CASE Crash
  BY <1>2 DEF Crash, ClaimIsUsed
<1>3. CASE Boot
  BY <1>3 DEF Boot, ClaimAfterBoot, ClaimIsUsed
<1>4. CASE RecoveryFault
  <2>1. faults' > 0
    BY <1>1, <1>4 DEF RecoveryFault
  <2> QED BY <2>1 DEF ClaimIsUsed
<1>5. CASE \/ CreateRun \/ Activate \/ RequeueJobs \/ UNCHANGED vars
           \/ \E j \in Jobs : Begin(j) \/ Execute(j) \/ CancelRead(j) \/ CancelWrite(j)
  <2>1. UNCHANGED <<claim, at, faults>> /\ (service' = "down" <=> service = "down")
    BY <1>5
    DEF CreateRun, Activate, RequeueJobs, vars, Begin, Execute, Started, Finish, Finished,
        Store, CancelRead, CancelWrite
  <2> QED BY <2>1 DEF ClaimIsUsed
<1> QED BY <1>2, <1>3, <1>4, <1>5, CallClaims DEF Next

\* Without a database error the run is never held by a call that has ended, so
\* that the polling loop can always take it up again.
THEOREM ClaimsComeBack == Spec => []ClaimIsUsed
<1>1. Init => ClaimIsUsed
  BY DEF Init, ClaimIsUsed
<1>2. RunnerInv /\ RunnerInv' /\ ClaimIsUsed /\ [Next]_vars => ClaimIsUsed'
  BY ClaimsNext
<1> QED BY <1>1, <1>2, RunnerInvariance, PTL DEF Spec
=============================================================================
