------------------------------- MODULE StartUp ------------------------------
(***************************************************************************)
(* main() from reset to tcp_udp_test: Boot, until lwip_comm_init comes to  *)
(* dhcp_start, and from there on Dhcp.  The board listens to the network   *)
(* from the moment the PHY is started; before dhcp_start nobody has        *)
(* anything to answer to.                                                  *)
(***************************************************************************)
EXTENDS Boot, Dhcp

startVars == <<vars, dhcpVars>>

StartInit == Init /\ DhcpInit

Booting == Next /\ UNCHANGED dhcpVars

Networking == pc = "done" /\ DhcpNext /\ UNCHANGED vars

StartNext == Booting \/ Networking

\* main runs on; request_timeout counts down every 500 ms.
StartSpec ==
  /\ StartInit /\ [][StartNext]_startVars
  /\ WF_startVars(main /\ UNCHANGED dhcpVars)
  /\ WF_startVars(Networking /\ (Running \/ Periodic))
  /\ SF_startVars(Networking /\ FineTimeout)

-----------------------------------------------------------------------------
StartTypeOK == BootTypeOK /\ DhcpTypeOK

\* The wait in main() ends: with the cable in place, once the server stays
\* silent, however far it had come and in the middle of whatever the main
\* loop was at, the board has a lease or its static address.  (It does not
\* end when an OFFER without server identifier has stopped the client, or
\* the main loop has crashed.)
StartUpEnds ==
  []cable /\ <>[][~DhcpIrq]_startVars =>
    <>(dev.status \in {"2", "0XFF"} \/ odd \cap {"noServerId", "assert"} # {})
=============================================================================
