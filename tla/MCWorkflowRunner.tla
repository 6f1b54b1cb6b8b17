-------------------------- MODULE MCWorkflowRunner --------------------------
(* Small instances of WorkflowRunner for TLC. *)
EXTENDS WorkflowRunner, TLC

\* a node with two jobs before one with a single job; a node without jobs between
TwoThenOne == <<2, 1>>
OneNoneOne == <<1, 0, 1>>
JustTwo == <<2>>
=============================================================================
