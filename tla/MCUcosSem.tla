------------------------------ MODULE MCUcosSem -------------------------------
(***************************************************************************)
(* The instances of UcosSem that TLC checks: two application tasks and the *)
(* idle task.                                                              *)
(***************************************************************************)
EXTENDS UcosSem, TLC

MCIdle == 9
MCTasks == {1, 2, MCIdle}
MCApp == {1, 2}
MCSecond == {2}
MCNone == {}
MCTick == {"tick"}
MCBoth == {"tick", "irq"}

\* The event control blocks are interchangeable where the handler posts all.
MCSymmetry == Permutations(Events)
=============================================================================
