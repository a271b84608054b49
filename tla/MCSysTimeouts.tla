----------------------------- MODULE MCSysTimeouts ----------------------------
(***************************************************************************)
(* The instances of SysTimeouts that TLC checks.                           *)
(***************************************************************************)
EXTENDS SysTimeouts

Equal == [timer \in Timers |-> 3]
Mixed ==
  [timer \in Timers |-> CASE timer = "tcp" -> 2 [] timer = "ip" -> 3
                         [] timer = "arp" -> 5]

\* As the firmware uses them: the three intervals are equal (1000 ms) and
\* FlyEthernetTask registers the connections.
Firmware == [interval |-> Equal, maxMsgs |-> 0, registrars |-> {"input"}]

\* As lwIP means them to be used: tcpip_thread alone, messages come in
\* between, and the order in which the timers are put in the list matters.
Intended == [interval |-> Mixed, maxMsgs |-> 1, registrars |-> {"tcpip"}]

\* FlyEthernetTask again, with the intervals that lwIP comes with.
Race == [interval |-> Mixed, maxMsgs |-> 0, registrars |-> {"input"}]

MCBoth == {Firmware, Intended}
MCFirmware == {Firmware}
MCRace == {Race}
=============================================================================
