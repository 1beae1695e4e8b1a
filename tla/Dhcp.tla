-------------------------------- MODULE Dhcp --------------------------------
(***************************************************************************)
(* How the board gets its address: lwIP's DHCP client (dhcp.c),            *)
(* lwip_dhcp_process_handle and the calls of the DHCP timers in            *)
(* lwip_periodic_handle of lwip_comm.c, and the wait in main().            *)
(*                                                                         *)
(* The timers run in the main loop, the server's answers (dhcp_recv) and   *)
(* ARP replies (dhcp_arp_reply) in the Ethernet interrupt, and both change *)
(* the same struct dhcp.  The interrupt's part is one step; the main       *)
(* loop's is taken step by step, and between any two the interrupt can     *)
(* come.                                                                   *)
(*                                                                         *)
(* Left out: the contents of messages but for the address, subnet mask and *)
(* gateway, which go with it, and REBOOTING, which only                    *)
(* dhcp_network_changed enters; nothing calls it.  A message that cannot   *)
(* be allocated is a message lost: the client only looks at tries and      *)
(* request_timeout.  (dhcp_start, which gives up when it cannot allocate   *)
(* its first message, runs before anything else uses the heap.)  How long  *)
(* a timer runs is left open.                                              *)
(***************************************************************************)
EXTENDS Naturals

CONSTANTS Leases,      \* addresses a server may offer
          STATIC,      \* lwip_comm_default_ip_set: 192.168.1.30
          ZERO,        \* IP_ADDR_ANY
          MaxDhcpTries \* LWIP_MAX_DHCP_TRIES

ASSUME DhcpAssumption ==
  /\ STATIC \notin Leases /\ ZERO \notin Leases \cup {STATIC}
  /\ MaxDhcpTries \in Nat

VARIABLES
  dhcp,   \* netif->dhcp: state, tries, request_timeout # 0, offered_ip_addr,
          \* and whether dhcp_bind has set t1_timeout and t2_timeout
  p_out,  \* dhcp->p_out # NULL
  sent,   \* a message with the current dhcp->xid is on its way or was
  ip,     \* lwip_netif.ip_addr
  up,     \* NETIF_FLAG_UP: without it IP neither takes nor routes packets,
          \* those of DHCP apart
  dev,    \* lwipdev: dhcpstatus and ip
  op,     \* the client's operation that the main loop is in, or "none"
  todo,   \* ... the main loop's next step, or "none"
  then,   \* ... and what it does after the operation
  seen,   \* the address lwip_dhcp_process_handle has read
  odd,    \* history: what has happened that a quiet network never shows
  declined \* history: leases declined and not acknowledged since

place == <<op, todo, then, seen>>
dhcpVars == <<dhcp, p_out, sent, ip, up, dev, place, odd, declined>>

Addresses == Leases \cup {STATIC, ZERO}

\* dhcp->tries is a u8; what it is compared with is less than Many.
Many == 9

\* Mutant of tries++: the counter never comes round.
CountOn(n) == {n + 1}

\* tries++: above Many it counts on, and comes to 0 again after 256.
Count(n) == IF n < Many THEN {n + 1} ELSE {Many, 0}

DhcpStates == {"OFF", "SELECTING", "REQUESTING", "CHECKING", "BOUND",
               "RENEWING", "REBINDING", "BACKING_OFF"}

Steps == {"reset", "noOffer", "set", "create", "send", "count", "down", "zero",
          "addr", "up"}

Operations == {"start", "discover", "select", "renew", "rebind", "release",
               "check", "bind"}

DhcpTypeOK ==
  /\ dhcp \in [state : DhcpStates, tries : 0 .. Many, timer : BOOLEAN,
               offered : Addresses, lease : BOOLEAN]
  /\ p_out \in BOOLEAN /\ sent \in BOOLEAN
  /\ ip \in Addresses /\ up \in BOOLEAN
  /\ dev \in [status : {"0", "1", "2", "0XFF"}, ip : Addresses]
  /\ op \in Operations \cup {"none"}
  /\ todo \in Steps \cup {"none", "timeout", "process", "branch", "static", "wait"}
  /\ then \in {"none", "process", "wait", "up"}
  /\ seen \in Addresses
  /\ odd \subseteq {"overlap", "noServerId", "assert"}
  /\ declined \subseteq Leases

-----------------------------------------------------------------------------
(* The client's operations, for the main loop: the state each sets (to)    *)
(* and what follows each of its steps.                                     *)

\* create is dhcp_create_msg, send udp_sendto_if and dhcp_delete_msg, count
\* tries++ and the new request_timeout, addr and zero netif_set_ipaddr, up
\* and down netif_set_up and netif_set_down.
dhcp_discover == [to |-> "SELECTING", begin |-> "noOffer", noOffer |-> "set",
                  set |-> "create", create |-> "send", send |-> "count",
                  count |-> "end"]

\* What the three requests have in common.
request(s) == [to |-> s, begin |-> "set", set |-> "create",
               create |-> "send", send |-> "count", count |-> "end"]

dhcp_select == request("REQUESTING")
dhcp_renew == request("RENEWING")
dhcp_rebind == request("REBINDING")

dhcp_release == [to |-> "OFF", begin |-> "set", set |-> "noOffer",
                 noOffer |-> "create", create |-> "send", send |-> "count",
                 count |-> "down", down |-> "zero", zero |-> "end"]

dhcp_check == [to |-> "CHECKING", begin |-> "set", set |-> "count", count |-> "end"]

dhcp_bind == [to |-> "BOUND", begin |-> "addr", addr |-> "up", up |-> "set",
              set |-> "end"]

dhcp_start == [to |-> "SELECTING", begin |-> "reset", reset |-> "noOffer",
               noOffer |-> "set", set |-> "create", create |-> "send",
               send |-> "count", count |-> "end"]

body == [start |-> dhcp_start, discover |-> dhcp_discover,
         select |-> dhcp_select, renew |-> dhcp_renew, rebind |-> dhcp_rebind,
         release |-> dhcp_release, check |-> dhcp_check, bind |-> dhcp_bind]

\* Mutant of dhcp_timeout: that no OFFER has come is not noticed.
TimeoutNotSelecting(d) ==
  CASE d.state = "BACKING_OFF" -> "discover"
    [] d.state = "REQUESTING" -> IF d.tries <= 5 THEN "select" ELSE "release"
    [] d.state = "CHECKING" -> IF d.tries <= 1 THEN "check" ELSE "bind"
    [] OTHER -> "none"

\* dhcp_timeout: the operation it comes to; dhcp_release is followed by
\* dhcp_discover.
dhcp_timeout(d) ==
  CASE d.state \in {"BACKING_OFF", "SELECTING"} -> "discover"
    [] d.state = "REQUESTING" -> IF d.tries <= 5 THEN "select" ELSE "release"
    [] d.state = "CHECKING" -> IF d.tries <= 1 THEN "check" ELSE "bind"
    [] d.state = "RENEWING" -> "renew"
    [] d.state = "REBINDING" -> IF d.tries <= 8 THEN "rebind" ELSE "release"
    [] OTHER -> "none"

\* The main loop enters an operation,
Call(o) == op' = o /\ todo' = body[o].begin

\* ... goes on after it,
Leave == op' = "none" /\ todo' = then /\ then' = "none"

\* ... and from step to step in it.
Done ==
  /\ LET s == body[op][todo]
     IN  IF s # "end" THEN todo' = s /\ UNCHANGED <<op, then>>
         ELSE IF op = "release" THEN Call("discover") /\ UNCHANGED then
         ELSE Leave
  /\ UNCHANGED seen

\* dhcp_set_state.
dhcp_set_state(d, s) ==
  IF s = d.state THEN d
  ELSE [d EXCEPT !.state = s, !.tries = 0, !.timer = FALSE]

\* memset(dhcp, 0, sizeof(struct dhcp)).
Cleared == [state |-> "OFF", tries |-> 0, timer |-> FALSE, offered |-> ZERO,
            lease |-> FALSE]

\* After lwip_init and netif_add, lwip_comm_init starts the client for the
\* first time and then brings the interface up; dhcpstatus is 0 then.
DhcpInit ==
  /\ dhcp = Cleared
  /\ p_out = FALSE /\ sent = FALSE
  /\ ip = ZERO /\ up = FALSE
  /\ dev = [status |-> "0", ip |-> STATIC]
  /\ op = "start" /\ todo = body["start"].begin /\ then = "up" /\ seen = ZERO
  /\ odd = {} /\ declined = {}

-----------------------------------------------------------------------------
(* lwip_periodic_handle.                                                   *)

\* lwip_dhcp_process_handle is called after dhcp_fine_tmr until the address
\* is settled.
process == IF dev.status \in {"2", "0XFF"} THEN "none" ELSE "process"

\* dhcp_fine_tmr: request_timeout runs out ...
FineTimeout ==
  /\ todo = "none" /\ dhcp.timer
  /\ dhcp' = [dhcp EXCEPT !.timer = FALSE]
  /\ todo' = "timeout" /\ then' = process
  /\ UNCHANGED <<p_out, sent, ip, up, dev, op, seen, odd, declined>>

\* ... or not yet.
FineTick ==
  /\ todo = "none"
  /\ todo' = process
  /\ UNCHANGED <<dhcp, p_out, sent, ip, up, dev, op, then, seen, odd, declined>>

\* dhcp_t1_timeout and dhcp_t2_timeout.
dhcp_t_timeouts(d) ==
  IF d.state \in {"REQUESTING", "BOUND", "RENEWING"}
  THEN {"renew", "rebind"} ELSE {}

\* dhcp_coarse_tmr: t1 or t2.  The two counters are decremented when they
\* are 0 as well and stay as they are when the lease is lost, so once set
\* they come to 1 in any state.  (One that was never set does so after 65535
\* minutes, which the model leaves out.)
CoarseTimeout ==
  /\ todo = "none" /\ dhcp.lease
  /\ \E o \in dhcp_t_timeouts(dhcp) : Call(o)
  /\ UNCHANGED <<dhcp, p_out, sent, ip, up, dev, then, seen, odd, declined>>

\* lwip_dhcp_process_handle: case 0 restarts the client, case 1 reads the
\* address.
dhcp_process ==
  IF dev.status = "0" THEN Call("start") /\ then' = "wait" /\ UNCHANGED seen
  ELSE todo' = "branch" /\ seen' = ip /\ UNCHANGED <<op, then>>

\* ... and goes on with what it read: a lease is recorded in lwipdev; after
\* too many tries it falls back on the static address.
Settle(a) ==
  IF a # ZERO THEN dev' = [status |-> "2", ip |-> a] /\ Leave
  ELSE IF dhcp.tries > MaxDhcpTries
  THEN dev' = [dev EXCEPT !.status = "0XFF"] /\ todo' = "static" /\ UNCHANGED <<op, then>>
  ELSE UNCHANGED dev /\ Leave

-----------------------------------------------------------------------------
(* The steps of the main loop.                                             *)

\* dhcp_timeout, lwip_dhcp_process_handle: on to what they decide to do.
Decide ==
  /\ \/ /\ todo = "timeout"
        /\ LET o == dhcp_timeout(dhcp)
           IN  IF o = "none" THEN Leave ELSE Call(o) /\ UNCHANGED then
        /\ UNCHANGED seen
     \/ todo = "process" /\ dhcp_process
  /\ UNCHANGED <<dhcp, p_out, sent, ip, up, dev, odd, declined>>

\* dhcp_start: the pcb is removed, the struct cleared, a new pcb made.
Reset ==
  /\ todo = "reset" /\ Done
  /\ dhcp' = Cleared
  /\ sent' = FALSE
  /\ UNCHANGED <<p_out, ip, up, dev, odd, declined>>

Change ==
  /\ \/ todo = "set" /\ dhcp' = dhcp_set_state(dhcp, body[op].to)
     \/ todo = "noOffer" /\ dhcp' = [dhcp EXCEPT !.offered = ZERO]
     \/ todo = "count" /\ \E n \in Count(dhcp.tries) :
                           dhcp' = [dhcp EXCEPT !.tries = n, !.timer = TRUE]
  /\ Done
  /\ UNCHANGED <<p_out, sent, ip, up, dev, odd, declined>>

\* dhcp_create_msg: the first try of a request has a new xid.
Create ==
  /\ todo = "create" /\ Done
  /\ p_out' = TRUE
  /\ sent' = (sent /\ dhcp.tries # 0)
  /\ UNCHANGED <<dhcp, ip, up, dev, odd, declined>>

\* udp_sendto_if, dhcp_delete_msg.
Send ==
  /\ todo = "send" /\ Done
  /\ p_out' = FALSE /\ sent' = TRUE
  /\ UNCHANGED <<dhcp, ip, up, dev, odd, declined>>

\* netif_set_ipaddr: dhcp_bind, with its two timers, or dhcp_release.
SetAddress ==
  /\ \/ todo = "addr" /\ ip' = dhcp.offered /\ dhcp' = [dhcp EXCEPT !.lease = TRUE]
     \/ todo = "zero" /\ ip' = ZERO /\ UNCHANGED dhcp
  /\ Done
  /\ UNCHANGED <<p_out, sent, up, dev, odd, declined>>

\* netif_set_up in dhcp_bind and at the end of lwip_comm_init, and
\* netif_set_down in dhcp_release.
SetFlag ==
  /\ \/ todo = "up" /\ up' = TRUE
     \/ todo = "down" /\ up' = FALSE
  /\ IF op = "none" THEN Leave /\ UNCHANGED seen ELSE Done
  /\ UNCHANGED <<dhcp, p_out, sent, ip, dev, odd, declined>>

\* lwip_dhcp_process_handle: dhcpstatus = 1, or the second half of case 1.
Process ==
  /\ \/ todo = "wait" /\ dev' = [dev EXCEPT !.status = "1"] /\ Leave
     \/ todo = "branch" /\ Settle(seen)
  /\ seen' = ZERO
  /\ UNCHANGED <<dhcp, p_out, sent, ip, up, odd, declined>>

\* The static address is written to the interface itself, not with
\* netif_set_ipaddr, and the interface is left up or down as it is.
Static ==
  /\ todo = "static" /\ Leave
  /\ ip' = dev.ip
  /\ UNCHANGED <<dhcp, p_out, sent, up, dev, seen, odd, declined>>

Running ==
  \/ Decide \/ Reset \/ Change \/ Create \/ Send
  \/ SetAddress \/ SetFlag \/ Process \/ Static

Periodic == FineTimeout \/ FineTick \/ CoarseTimeout

-----------------------------------------------------------------------------
(* The Ethernet interrupt.                                                 *)

\* The main loop is inside an operation of the client.
Inside == op # "none" \/ todo = "timeout"

\* An event in the interrupt; msg says that it sends a message, which
\* asserts that none is being made, and overwrites p_out if one is.
Event(msg) ==
  odd' = odd \cup (IF Inside THEN {"overlap"} ELSE {})
             \cup (IF msg /\ p_out THEN {"assert"} ELSE {})

\* dhcp_set_state to a new state, a first try and its time-out.
Enter(s, a) == dhcp' = [dhcp EXCEPT !.state = s, !.tries = 1, !.timer = TRUE,
                                    !.offered = a]

\* dhcp_recv with an OFFER: dhcp_handle_offer.
Offer(a) ==
  /\ sent /\ dhcp.state = "SELECTING"
  /\ Event(TRUE)
  /\ Enter("REQUESTING", a)
  /\ UNCHANGED <<p_out, sent, ip, up, dev, place, declined>>

\* ... when it names no server: nothing is sent, but request_timeout has
\* been cleared.
OfferNoServerId ==
  /\ sent /\ dhcp.state = "SELECTING"
  /\ dhcp' = [dhcp EXCEPT !.timer = FALSE]
  /\ odd' = odd \cup {"noServerId"} \cup (IF Inside THEN {"overlap"} ELSE {})
  /\ UNCHANGED <<p_out, sent, ip, up, dev, place, declined>>

\* Mutant of dhcp_recv: bound without a check, as if DHCP_DOES_ARP_CHECK
\* were 0, and without a look at what was declined.
AckBinds(a) ==
  /\ sent /\ dhcp.state = "REQUESTING"
  /\ Event(FALSE)
  /\ dhcp' = [dhcp_set_state(dhcp, "BOUND") EXCEPT !.offered = a]
  /\ UNCHANGED <<p_out, sent, ip, up, dev, place, declined>>

\* dhcp_recv with an ACK of a request: dhcp_handle_ack, dhcp_check.
Ack(a) ==
  /\ sent /\ dhcp.state = "REQUESTING"
  /\ Event(FALSE)
  /\ Enter("CHECKING", a)
  /\ declined' = declined \ {a}
  /\ UNCHANGED <<p_out, sent, ip, up, dev, place>>

\* ... of a renewal: dhcp_bind.
AckRenewal ==
  /\ sent /\ dhcp.state \in {"RENEWING", "REBINDING"}
  /\ Event(FALSE)
  /\ ip' = dhcp.offered /\ up' = TRUE
  /\ dhcp' = [dhcp_set_state(dhcp, "BOUND") EXCEPT !.lease = TRUE]
  /\ declined' = declined \ {dhcp.offered}
  /\ UNCHANGED <<p_out, sent, dev, place>>

\* dhcp_recv with a NAK: dhcp_handle_nak, dhcp_discover.
Nak ==
  /\ sent /\ dhcp.state \in {"REQUESTING", "RENEWING", "REBINDING"}
  /\ Event(TRUE)
  /\ ip' = ZERO /\ up' = FALSE
  /\ Enter("SELECTING", ZERO)
  /\ UNCHANGED <<p_out, sent, dev, place, declined>>

\* Mutant of dhcp_arp_reply: the state is not changed.
ArpReplyIgnored ==
  /\ dhcp.state = "CHECKING" /\ dhcp.offered \in Leases
  /\ Event(TRUE)
  /\ declined' = declined \cup {dhcp.offered}
  /\ UNCHANGED <<dhcp, p_out, sent, ip, up, dev, place>>

\* dhcp_arp_reply: another host has the address; dhcp_decline.
ArpReply ==
  /\ dhcp.state = "CHECKING" /\ dhcp.offered \in Leases
  /\ Event(TRUE)
  /\ Enter("BACKING_OFF", dhcp.offered)
  /\ declined' = declined \cup {dhcp.offered}
  /\ UNCHANGED <<p_out, sent, ip, up, dev, place>>

DhcpIrq ==
  \/ \E a \in Leases : Offer(a) \/ Ack(a)
  \/ OfferNoServerId \/ AckRenewal \/ Nak \/ ArpReply

\* After the assertion in dhcp_create_msg has failed the main loop goes on
\* with a message that is not there; the model follows it no further.
DhcpNext == "assert" \notin odd /\ (Running \/ Periodic \/ DhcpIrq)

-----------------------------------------------------------------------------
\* A lease that is bound is on the interface and the interface is up: what
\* the OFFER promised, the ACK confirmed and the check found free is what
\* the board answers to, though NAKs and releases have taken address and
\* interface away, dhcp_start has run twice and the fall-back has written
\* the static address without asking.  No answer may have come in the middle
\* of an operation of the client in the main loop.
BoundIsConfigured ==
  "overlap" \notin odd /\ dhcp.state = "BOUND" => ip = dhcp.offered /\ ip # ZERO /\ up

\* An address for which another host has answered is not taken into use
\* before the server has acknowledged it again, with the same exception.
DeclinedNotUsed == "overlap" \notin odd => ip \notin declined

\* lwip_comm.c:250, "DHCP timed out, using the static IP address": from
\* then on the board has an address.
StaticStays == dev.status = "0XFF" /\ todo # "static" => ip # ZERO
=============================================================================
