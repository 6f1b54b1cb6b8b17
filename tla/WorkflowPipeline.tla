-------------------------- MODULE WorkflowPipeline --------------------------
(***************************************************************************)
(* What a workflow run promises: its nodes are worked on in their order,   *)
(* each has one result, a node whose predecessor did not complete is       *)
(* skipped, and the run ends once, with a status that sums up its nodes,   *)
(* when none of them is left to do.                                        *)
(***************************************************************************)
EXTENDS Naturals

CONSTANT Nodes   \* 1..n, in the order of their position

VARIABLES run,   \* "none" until the run exists, then its status
          node   \* [Nodes -> NodeStatuses]

NodeResults  == {"completed", "failed", "partial", "cancelled"}
NodeStatuses == NodeResults \cup {"pending", "running", "skipped"}

Unfinished == {"pending", "running"}

Some(S) == \E n \in Nodes : node[n] \in S

\* the status of a run whose nodes are all finished
Summary ==
  IF Some({"cancelled"}) THEN "cancelled"
  ELSE IF Some({"partial"}) \/ (Some({"failed"}) /\ Some({"completed"})) THEN "partial"
  ELSE IF Some({"failed"}) THEN "failed"
  ELSE IF Some({"skipped"}) /\ ~Some({"completed"}) THEN "skipped"
  ELSE "completed"

Init == /\ run = "none"
        /\ node = [n \in Nodes |-> "pending"]

Create == /\ run = "none"
          /\ run' = "running"
          /\ UNCHANGED node

Begin(n) == /\ run = "running"
            /\ node[n] = "pending"
            /\ \A m \in Nodes : m < n => node[m] = "completed"
            /\ node' = [node EXCEPT ![n] = "running"]
            /\ UNCHANGED run

End(n) == /\ run = "running"
          /\ node[n] = "running"
          /\ \E result \in NodeResults : node' = [node EXCEPT ![n] = result]
          /\ UNCHANGED run

Skip(n) == /\ run = "running"
           /\ node[n] = "pending"
           /\ \E m \in Nodes : m < n /\ node[m] \in NodeResults \ {"completed"}
           /\ node' = [node EXCEPT ![n] = "skipped"]
           /\ UNCHANGED run

Settle == /\ run = "running"
          /\ ~Some(Unfinished)
          /\ run' = Summary
          /\ UNCHANGED node

Next == Create \/ Settle \/ \E n \in Nodes : Begin(n) \/ End(n) \/ Skip(n)

Spec == Init /\ [][Next]_<<run, node>>
=============================================================================
