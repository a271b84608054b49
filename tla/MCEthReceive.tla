----------------------------- MODULE MCEthReceive -----------------------------
(* EthReceive with model values for the frames, which are interchangeable.  *)
EXTENDS EthReceive, TLC

MCSymmetry == Permutations(Frames)
=============================================================================
