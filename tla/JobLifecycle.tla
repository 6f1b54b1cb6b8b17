---------------------------- MODULE JobLifecycle ----------------------------
(***************************************************************************)
(* What the job executor promises about one job, whatever happens to its   *)
(* row in between: a job waits, is executed by one worker, and is over     *)
(* once; an execution that is interrupted makes it wait again; a job that  *)
(* waits can be cancelled.  Nothing brings back a job that is over.        *)
(***************************************************************************)
CONSTANT Jobs

VARIABLE phase   \* [Jobs -> Phases]

Phases == {"none", "waiting", "working", "over"}

Init == phase = [j \in Jobs |-> "none"]

Move(j, from, to) == /\ phase[j] = from
                     /\ phase' = [phase EXCEPT ![j] = to]

Submit(j) == Move(j, "none", "waiting")
Begin(j)  == Move(j, "waiting", "working")
Finish(j) == Move(j, "working", "over")
Abandon(j) == Move(j, "working", "waiting")
CancelWaiting(j) == Move(j, "waiting", "over")

\* The process dies: every execution stops.
Die ==
  /\ phase' \in [Jobs -> Phases]
  /\ \A j \in Jobs :
       \/ phase[j] = "working" /\ phase'[j] \in {"waiting", "over"}
       \/ phase[j] # "working" /\ phase'[j] = phase[j]

Next ==
  \/ \E j \in Jobs : \/ Submit(j) \/ Begin(j) \/ Finish(j)
                     \/ Abandon(j) \/ CancelWaiting(j)
  \/ Die

Spec == Init /\ [][Next]_phase
=============================================================================
