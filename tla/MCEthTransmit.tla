---------------------------- MODULE MCEthTransmit -----------------------------
(* EthTransmit with the priorities that the threads have in the firmware.   *)
EXTENDS EthTransmit

MCFlyEthernet == {9}
MCBoth == {6, 9}
=============================================================================
