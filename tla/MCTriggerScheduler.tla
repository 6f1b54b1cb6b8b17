------------------------- MODULE MCTriggerScheduler -------------------------
(* Small instances of TriggerScheduler for TLC. *)
EXTENDS TriggerScheduler, TLC

\* one trigger, or two, due at every tick
EveryTick == <<1>>
BothEveryTick == <<1, 1>>
=============================================================================
