----------------------------- MODULE MCMainLoop -----------------------------
(***************************************************************************)
(* Two keys, and the four deadlines with intervals in the order of the     *)
(* program's: TCP 250 ms, DHCP 500 ms and 60 s, ARP 5 s.                   *)
(***************************************************************************)
EXTENDS MainLoop

TimersDef == <<"TCP", "ARP", "DHCPfine", "DHCPcoarse">>
IntervalDef == [TCP |-> 1, ARP |-> 3, DHCPfine |-> 2, DHCPcoarse |-> 4]
KeysDef == <<"KEY0", "WK_UP">>
=============================================================================
