------------------------------- MODULE MCEthArp -------------------------------
(* EthArp with two entries for a gateway, a host that answers and one that  *)
(* is switched off.                                                         *)
EXTENDS EthArp
=============================================================================
