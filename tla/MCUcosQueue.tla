----------------------------- MODULE MCUcosQueue ------------------------------
(***************************************************************************)
(* The instance of UcosQueue that TLC checks: two application tasks, the   *)
(* idle task and one queue of two messages.                                *)
(***************************************************************************)
EXTENDS UcosQueue, TLC

MCIdle == 9
MCTasks == {1, 2, MCIdle}
MCApp == {1, 2}
MCBoth == {"tick", "irq"}
=============================================================================
