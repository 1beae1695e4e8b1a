---------------------------- MODULE StartUpProofs ---------------------------
(***************************************************************************)
(* For any pool, any buffer sizes and any set of leases: start-up keeps    *)
(* its types, the buffers handed to the DMA are there, and, as long as no  *)
(* answer comes in the middle of an operation of the main loop, a bound    *)
(* lease is on the interface and a declined address is not used.           *)
(***************************************************************************)
EXTENDS StartUp, TLAPS

-----------------------------------------------------------------------------
(* The DHCP client.                                                        *)

\* States in which the client has no lease of its own to lose.
Unbound == {"OFF", "SELECTING", "REQUESTING", "CHECKING", "BACKING_OFF"}

\* States in which offered_ip_addr is what a server offered.
Granted == {"REQUESTING", "CHECKING", "BOUND", "RENEWING", "REBINDING"}

Lost == {"OFF", "SELECTING", "BACKING_OFF"}

\* The main loop is in one operation at a time, at one of its steps.
PlaceOK ==
  /\ op = "none" =>
       todo \in {"none", "timeout", "process", "branch", "static", "wait", "up"}
  /\ op = "start" => todo \in {"reset", "noOffer", "set", "create", "send", "count"}
  /\ op = "discover" => todo \in {"noOffer", "set", "create", "send", "count"}
  /\ op \in {"select", "renew", "rebind"} => todo \in {"set", "create", "send", "count"}
  /\ op = "release" => todo \in {"set", "noOffer", "create", "send", "count", "down", "zero"}
  /\ op = "check" => todo \in {"set", "count"}
  /\ op = "bind" => todo \in {"addr", "up", "set"}
  /\ op = "none" /\ todo # "timeout" => then = "none"

\* lwip_dhcp_process_handle runs until the address is settled, and restarts
\* the client only at its first call.
DevOK ==
  /\ dev.status # "2" => dev.ip = STATIC
  /\ todo \in {"process", "branch"} \/ then = "process" => dev.status \in {"0", "1"}
  /\ todo = "branch" => dev.status = "1"
  /\ todo = "static" => dev.status = "0XFF"
  /\ op = "start" \/ todo = "wait" \/ then \in {"wait", "up"} => dev.status = "0"

\* The state in which an operation sets its own.
OpOK ==
  /\ todo \in {"create", "send", "count", "down", "zero"} => dhcp.state = body[op].to
  /\ todo \in {"noOffer", "set"} /\ op \in {"start", "discover"} => dhcp.state \in Lost
  /\ todo = "noOffer" /\ op = "release" => dhcp.state = "OFF"
  /\ todo = "set" /\ op = "select" => dhcp.state = "REQUESTING"
  /\ todo = "set" /\ op \in {"renew", "rebind"} => dhcp.state \in Granted
  /\ op \in {"check", "bind"} => dhcp.state = "CHECKING"

\* Which address may be where, and when the interface is up.
LeaseOK ==
  /\ dhcp.state \in Granted => dhcp.offered \in Leases
  /\ dhcp.state = "BOUND" => ip = dhcp.offered /\ up
  /\ op = "bind" /\ todo \in {"up", "set"} => ip = dhcp.offered
  /\ op = "bind" /\ todo = "set" => up
  /\ dhcp.state \in Unbound /\ op # "release" /\ ~(op = "bind" /\ todo \in {"up", "set"})
       => ip \notin Leases
  /\ dhcp.state = "CHECKING" => dhcp.offered \notin declined
  /\ ip \notin declined

\* Before lwip_dhcp_process_handle has restarted it the client comes no
\* further than the first ARP check.
FirstRound ==
  dev.status = "0" =>
    /\ ~dhcp.lease /\ ip = ZERO
    /\ op \notin {"renew", "rebind", "bind"}
    /\ dhcp.state \notin {"BOUND", "RENEWING", "REBINDING"}
    /\ dhcp.state = "CHECKING" /\ dhcp.tries > 1 => todo \in {"process", "reset"}
    /\ op = "check" \/ todo = "timeout" => then = "process"

\* A lease that is bound while lwip_dhcp_process_handle waits for one is
\* what it sees next, so that it does not fall back on the static address.
Waiting ==
  /\ dev.status = "1" =>
       /\ op \notin {"renew", "rebind"} /\ dhcp.state \notin {"RENEWING", "REBINDING"}
       /\ op = "bind" \/ todo = "timeout" => then = "process"
       /\ dhcp.lease \/ dhcp.state = "BOUND" =>
            op = "bind" \/ (todo \in {"process", "branch"} /\ dhcp.state = "BOUND")
       /\ todo = "branch" /\ dhcp.state = "BOUND" => seen # ZERO
  /\ todo = "static" =>
       ~dhcp.lease /\ dhcp.state \notin {"BOUND", "RENEWING", "REBINDING"}

DhcpInv ==
  /\ DhcpTypeOK /\ PlaceOK /\ DevOK
  /\ "overlap" \notin odd => OpOK /\ LeaseOK /\ FirstRound /\ Waiting


\* What the operations are made of.
LEMMA BodyIs ==
  /\ \A o \in {"discover", "start"} :
       /\ body[o].to = "SELECTING"
       /\ body[o]["noOffer"] = "set"
  /\ body["start"].begin = "reset" /\ body["start"]["reset"] = "noOffer"
  /\ body["discover"].begin = "noOffer"
  /\ body["select"].to = "REQUESTING" /\ body["renew"].to = "RENEWING"
  /\ body["rebind"].to = "REBINDING"
  /\ \A o \in {"select", "renew", "rebind"} : body[o].begin = "set"
  /\ \A o \in {"start", "discover", "select", "renew", "rebind"} :
       /\ body[o]["set"] = "create" /\ body[o]["create"] = "send"
       /\ body[o]["send"] = "count" /\ body[o]["count"] = "end"
  /\ body["release"].to = "OFF" /\ body["release"].begin = "set"
  /\ body["release"]["set"] = "noOffer" /\ body["release"]["noOffer"] = "create"
  /\ body["release"]["create"] = "send" /\ body["release"]["send"] = "count"
  /\ body["release"]["count"] = "down" /\ body["release"]["down"] = "zero"
  /\ body["release"]["zero"] = "end"
  /\ body["check"].to = "CHECKING" /\ body["check"].begin = "set"
  /\ body["check"]["set"] = "count" /\ body["check"]["count"] = "end"
  /\ body["bind"].to = "BOUND" /\ body["bind"].begin = "addr"
  /\ body["bind"]["addr"] = "up" /\ body["bind"]["up"] = "set"
  /\ body["bind"]["set"] = "end"
<1>1. /\ \A o \in {"discover", "start"} :
           /\ body[o].to = "SELECTING"
           /\ body[o]["noOffer"] = "set"
      /\ body["start"].begin = "reset" /\ body["start"]["reset"] = "noOffer"
      /\ body["discover"].begin = "noOffer"
  BY DEF body, dhcp_start, dhcp_discover
<1>2. /\ body["select"].to = "REQUESTING" /\ body["renew"].to = "RENEWING"
      /\ body["rebind"].to = "REBINDING"
      /\ \A o \in {"select", "renew", "rebind"} : body[o].begin = "set"
  BY DEF body, dhcp_select, dhcp_renew, dhcp_rebind, request
<1>3. \A o \in {"start", "discover"} :
        /\ body[o]["set"] = "create" /\ body[o]["create"] = "send"
        /\ body[o]["send"] = "count" /\ body[o]["count"] = "end"
  BY DEF body, dhcp_start, dhcp_discover
<1>4. \A o \in {"select", "renew", "rebind"} :
        /\ body[o]["set"] = "create" /\ body[o]["create"] = "send"
        /\ body[o]["send"] = "count" /\ body[o]["count"] = "end"
  BY DEF body, dhcp_select, dhcp_renew, dhcp_rebind, request
<1>5. /\ body["release"].to = "OFF" /\ body["release"].begin = "set"
      /\ body["release"]["set"] = "noOffer" /\ body["release"]["noOffer"] = "create"
      /\ body["release"]["create"] = "send" /\ body["release"]["send"] = "count"
      /\ body["release"]["count"] = "down" /\ body["release"]["down"] = "zero"
      /\ body["release"]["zero"] = "end"
  BY DEF body, dhcp_release
<1>6. /\ body["check"].to = "CHECKING" /\ body["check"].begin = "set"
      /\ body["check"]["set"] = "count" /\ body["check"]["count"] = "end"
      /\ body["bind"].to = "BOUND" /\ body["bind"].begin = "addr"
      /\ body["bind"]["addr"] = "up" /\ body["bind"]["up"] = "set"
      /\ body["bind"]["set"] = "end"
  BY DEF body, dhcp_check, dhcp_bind
<1> QED BY <1>1, <1>2, <1>3, <1>4, <1>5, <1>6

\* The main loop stays in its operation and comes to step s.
StaysAt(s) == op' = op /\ todo' = s /\ then' = then

\* Where the main loop is after each step.
LEMMA DoneIs ==
  ASSUME DhcpTypeOK, PlaceOK, todo \in Steps, op # "none", Done
  PROVE  /\ seen' = seen
         /\ todo = "reset" => op = "start" /\ StaysAt("noOffer")
         /\ todo = "noOffer" =>
              \/ op = "release" /\ StaysAt("create")
              \/ op \in {"start", "discover"} /\ StaysAt("set")
         /\ todo = "set" =>
              \/ op \in {"start", "discover", "select", "renew", "rebind"} /\ StaysAt("create")
              \/ op = "release" /\ StaysAt("noOffer")
              \/ op = "check" /\ StaysAt("count")
              \/ op = "bind" /\ Leave
         /\ todo = "create" =>
              /\ op \in {"start", "discover", "select", "renew", "rebind", "release"}
              /\ StaysAt("send")
         /\ todo = "send" =>
              /\ op \in {"start", "discover", "select", "renew", "rebind", "release"}
              /\ StaysAt("count")
         /\ todo = "count" =>
              \/ op = "release" /\ StaysAt("down")
              \/ /\ op \in {"start", "discover", "select", "renew", "rebind", "check"}
                 /\ Leave
         /\ todo = "down" => op = "release" /\ StaysAt("zero")
         /\ todo = "zero" =>
              op = "release" /\ op' = "discover" /\ todo' = "noOffer" /\ then' = then
         /\ todo = "addr" => op = "bind" /\ StaysAt("up")
         /\ todo = "up" => op = "bind" /\ StaysAt("set")
<1>1. op \in Operations
  BY DEF DhcpTypeOK, PlaceOK, Steps, Operations
<1>2. body["discover"].begin = "noOffer"
  BY BodyIs
<1>3. /\ seen' = seen
      /\ body[op][todo] # "end" => StaysAt(body[op][todo])
      /\ body[op][todo] = "end" /\ op # "release" => Leave
      /\ body[op][todo] = "end" /\ op = "release" =>
           op' = "discover" /\ todo' = "noOffer" /\ then' = then
  BY <1>2 DEF Done, Call, StaysAt
<1>4. CASE op = "start"
  BY <1>3, <1>4, BodyIs DEF PlaceOK
<1>5. CASE op = "discover"
  BY <1>3, <1>5, BodyIs DEF PlaceOK
<1>6. CASE op \in {"select", "renew", "rebind"}
  BY <1>3, <1>6, BodyIs DEF PlaceOK
<1>7. CASE op = "release"
  BY <1>3, <1>7, BodyIs DEF PlaceOK
<1>8. CASE op = "check"
  BY <1>3, <1>8, BodyIs DEF PlaceOK
<1>9. CASE op = "bind"
  BY <1>3, <1>9, BodyIs DEF PlaceOK
<1> QED BY <1>1, <1>4, <1>5, <1>6, <1>7, <1>8, <1>9 DEF Operations

\* The first round of dhcp_start.
LEMMA DhcpInitially == DhcpInit => DhcpInv
<1> SUFFICES ASSUME DhcpInit PROVE DhcpInv
  OBVIOUS
<1>1. /\ dhcp = Cleared /\ p_out = FALSE /\ sent = FALSE /\ ip = ZERO /\ up = FALSE
      /\ dev = [status |-> "0", ip |-> STATIC] /\ op = "start" /\ todo = "reset"
      /\ then = "up" /\ seen = ZERO /\ odd = {} /\ declined = {}
  BY BodyIs DEF DhcpInit
<1>2. DhcpTypeOK
  <2>1. ZERO \in Addresses /\ STATIC \in Addresses /\ "OFF" \in DhcpStates
    BY DEF Addresses, DhcpStates
  <2>2. dhcp \in [state : DhcpStates, tries : 0 .. Many, timer : BOOLEAN,
                  offered : Addresses, lease : BOOLEAN]
    BY <1>1, <2>1 DEF Cleared, Many
  <2>3. dev \in [status : {"0", "1", "2", "0XFF"}, ip : Addresses]
    BY <1>1, <2>1
  <2> QED BY <1>1, <2>1, <2>2, <2>3 DEF DhcpTypeOK, Operations, Steps
<1>3. PlaceOK /\ DevOK
  BY <1>1 DEF PlaceOK, DevOK
<1>4. OpOK /\ LeaseOK /\ FirstRound /\ Waiting
  BY <1>1, DhcpAssumption 
  DEF OpOK, LeaseOK, FirstRound, Waiting, Cleared, Granted, Unbound
<1> QED BY <1>2, <1>3, <1>4 DEF DhcpInv

-----------------------------------------------------------------------------
(* The main loop.                                                          *)

\* lwip_periodic_handle.
LEMMA PeriodicKeeps ==
  ASSUME DhcpInv, Periodic
  PROVE  DhcpInv'
<1>1. DhcpTypeOK /\ PlaceOK /\ DevOK /\ ("overlap" \notin odd => OpOK /\ LeaseOK /\ FirstRound /\ Waiting)
  BY DEF DhcpInv
<1>2. /\ UNCHANGED <<p_out, sent, ip, up, dev, seen, odd, declined>>
      /\ todo = "none" /\ op = "none"
  BY <1>1 DEF Periodic, FineTimeout, FineTick, CoarseTimeout, PlaceOK, DhcpTypeOK, Operations
<1>3. /\ process = "process" => dev.status \in {"0", "1"}
      /\ process \in {"none", "process"}
      /\ dev.status \in {"0", "1"} => process = "process"
  BY <1>1 DEF process, DhcpTypeOK
<1>4. CASE FineTimeout
  <2>1. /\ dhcp' = [dhcp EXCEPT !.timer = FALSE] /\ op' = "none"
        /\ todo' = "timeout" /\ then' = process
    BY <1>2, <1>4 DEF FineTimeout
  <2>2. DhcpTypeOK' /\ PlaceOK' /\ DevOK'
    BY <1>1, <1>2, <1>3, <2>1 DEF DhcpTypeOK, PlaceOK, DevOK
  <2>3. "overlap" \notin odd' => OpOK' /\ LeaseOK' /\ FirstRound' /\ Waiting'
    BY <1>1, <1>2, <1>3, <2>1 DEF DhcpTypeOK, OpOK, LeaseOK, FirstRound, Waiting
  <2> QED BY <2>2, <2>3 DEF DhcpInv
<1>5. CASE FineTick
  <2>1. dhcp' = dhcp /\ op' = "none" /\ todo' = process /\ then' = then
    BY <1>2, <1>5 DEF FineTick
  <2>2. DhcpTypeOK' /\ PlaceOK' /\ DevOK'
    BY <1>1, <1>2, <1>3, <2>1 DEF DhcpTypeOK, PlaceOK, DevOK
  <2>3. "overlap" \notin odd' => OpOK' /\ LeaseOK' /\ FirstRound' /\ Waiting'
    BY <1>1, <1>2, <1>3, <2>1 DEF OpOK, LeaseOK, FirstRound, Waiting
  <2> QED BY <2>2, <2>3 DEF DhcpInv
<1>6. CASE CoarseTimeout
  <2>1. /\ dhcp' = dhcp /\ then' = then /\ dhcp.lease
        /\ op' \in {"renew", "rebind"} /\ todo' = "set"
        /\ dhcp.state \in {"REQUESTING", "BOUND", "RENEWING"}
    BY <1>6, BodyIs DEF CoarseTimeout, dhcp_t_timeouts, Call
  <2>2. DhcpTypeOK' /\ PlaceOK' /\ DevOK'
    BY <1>1, <1>2, <2>1 DEF DhcpTypeOK, PlaceOK, DevOK, Operations, Steps
  <2>3. "overlap" \notin odd' => OpOK' /\ LeaseOK' /\ FirstRound' /\ Waiting'
    BY <1>1, <1>2, <2>1 DEF OpOK, LeaseOK, FirstRound, Waiting, Granted, Unbound
  <2> QED BY <2>2, <2>3 DEF DhcpInv
<1> QED BY <1>4, <1>5, <1>6 DEF Periodic

\* dhcp_timeout and lwip_dhcp_process_handle decide.
LEMMA DecideKeeps ==
  ASSUME DhcpInv, Decide
  PROVE  DhcpInv'
<1>1. DhcpTypeOK /\ PlaceOK /\ DevOK /\ ("overlap" \notin odd => OpOK /\ LeaseOK /\ FirstRound /\ Waiting)
  BY DEF DhcpInv
<1>2. UNCHANGED <<dhcp, p_out, sent, ip, up, dev, odd, declined>> /\ op = "none"
  BY <1>1 DEF Decide, PlaceOK, DhcpTypeOK, Operations
<1>3. CASE todo = "process" /\ dhcp_process
  <2>1. \/ /\ dev.status = "0" /\ op' = "start" /\ todo' = "reset"
           /\ then' = "wait" /\ seen' = seen
        \/ /\ dev.status = "1" /\ op' = "none" /\ todo' = "branch" /\ seen' = ip
           /\ then' = then
    BY <1>1, <1>2, <1>3, BodyIs DEF dhcp_process, Call, DevOK
  <2>2. DhcpTypeOK' /\ PlaceOK' /\ DevOK'
    BY <1>1, <1>2, <1>3, <2>1 DEF DhcpTypeOK, PlaceOK, DevOK, Operations, Steps
  <2>3. "overlap" \notin odd' => OpOK' /\ LeaseOK' /\ FirstRound' /\ Waiting'
    BY <1>1, <1>2, <1>3, <2>1, DhcpAssumption
    DEF OpOK, LeaseOK, FirstRound, Waiting, Granted
  <2> QED BY <2>2, <2>3 DEF DhcpInv
<1>4. CASE todo = "timeout" /\ dhcp_timeout(dhcp) = "none"
  <2>1. op' = "none" /\ todo' = then /\ then' = "none" /\ seen' = seen
    BY <1>2, <1>4 DEF Decide, Leave
  <2>2. DhcpTypeOK' /\ PlaceOK' /\ DevOK'
    BY <1>1, <1>2, <1>4, <2>1 DEF DhcpTypeOK, PlaceOK, DevOK, Operations, Steps
  <2>3. "overlap" \notin odd' => OpOK' /\ LeaseOK' /\ FirstRound' /\ Waiting'
    BY <1>1, <1>2, <1>4, <2>1 DEF OpOK, LeaseOK, FirstRound, Waiting, DhcpTypeOK
  <2> QED BY <2>2, <2>3 DEF DhcpInv
<1>5. CASE todo = "timeout" /\ dhcp_timeout(dhcp) # "none"
  <2>1. /\ op' = dhcp_timeout(dhcp) /\ todo' = body[op'].begin
        /\ then' = then /\ seen' = seen
    BY <1>2, <1>5 DEF Decide, Call
  <2>2. \/ op' = "discover" /\ dhcp.state \in Lost /\ todo' = "noOffer"
        \/ op' = "select" /\ dhcp.state = "REQUESTING" /\ todo' = "set"
        \/ op' = "release" /\ dhcp.state \in {"REQUESTING", "REBINDING"} /\ todo' = "set"
        \/ op' = "check" /\ dhcp.state = "CHECKING" /\ todo' = "set"
        \/ op' = "bind" /\ dhcp.state = "CHECKING" /\ dhcp.tries > 1 /\ todo' = "addr"
        \/ op' = "renew" /\ dhcp.state = "RENEWING" /\ todo' = "set"
        \/ op' = "rebind" /\ dhcp.state = "REBINDING" /\ todo' = "set"
    <3>1. dhcp.tries \in Nat
      BY <1>1 DEF DhcpTypeOK, Many
    <3>2. \/ op' = "discover" /\ dhcp.state \in Lost
          \/ op' = "select" /\ dhcp.state = "REQUESTING"
          \/ op' = "release" /\ dhcp.state \in {"REQUESTING", "REBINDING"}
          \/ op' = "check" /\ dhcp.state = "CHECKING"
          \/ op' = "bind" /\ dhcp.state = "CHECKING" /\ dhcp.tries > 1
          \/ op' = "renew" /\ dhcp.state = "RENEWING"
          \/ op' = "rebind" /\ dhcp.state = "REBINDING"
      BY <1>5, <2>1, <3>1 DEF dhcp_timeout, Lost
    <3> QED BY <2>1, <3>2, BodyIs
  <2>3. DhcpTypeOK' /\ PlaceOK' /\ DevOK'
    BY <1>1, <1>2, <1>5, <2>1, <2>2 DEF DhcpTypeOK, PlaceOK, DevOK, Operations, Steps
  <2>4. "overlap" \notin odd' => OpOK' /\ LeaseOK' /\ FirstRound' /\ Waiting'
    <3> SUFFICES ASSUME "overlap" \notin odd' PROVE OpOK' /\ LeaseOK' /\ FirstRound' /\ Waiting'
      OBVIOUS
    <3>1. OpOK' /\ LeaseOK'
      BY <1>1, <1>2, <1>5, <2>1, <2>2 DEF OpOK, LeaseOK, Granted, Unbound, Lost
    <3>2. FirstRound' /\ Waiting'
      BY <1>1, <1>2, <1>5, <2>1, <2>2 DEF FirstRound, Waiting
    <3> QED BY <3>1, <3>2
  <2> QED BY <2>3, <2>4 DEF DhcpInv
<1> QED BY <1>3, <1>4, <1>5 DEF Decide

\* Reset, Create and Send.
LEMMA MessageKeeps ==
  ASSUME DhcpInv, Reset \/ Create \/ Send
  PROVE  DhcpInv'
<1>1. DhcpTypeOK /\ PlaceOK /\ DevOK /\ ("overlap" \notin odd => OpOK /\ LeaseOK /\ FirstRound /\ Waiting)
  BY DEF DhcpInv
<1>2. /\ UNCHANGED <<ip, up, dev, odd, declined>> /\ Done /\ op # "none"
      /\ todo \in {"reset", "create", "send"} /\ todo \in Steps
  BY <1>1 DEF Reset, Create, Send, Steps, PlaceOK
<1>3. p_out' \in BOOLEAN /\ sent' \in BOOLEAN
  BY <1>1 DEF Reset, Create, Send, DhcpTypeOK
<1>4. CASE Reset
  <2>1. /\ dhcp' = Cleared /\ op = "start" /\ op' = op /\ todo' = "noOffer"
        /\ then' = then /\ seen' = seen /\ todo = "reset"
    BY <1>1, <1>2, <1>4, DoneIs DEF Reset, StaysAt
  <2>2. DhcpTypeOK'
    <3>1. ZERO \in Addresses /\ "OFF" \in DhcpStates
      BY DEF Addresses, DhcpStates
    <3>2. dhcp' \in [state : DhcpStates, tries : 0 .. Many, timer : BOOLEAN,
                     offered : Addresses, lease : BOOLEAN]
      BY <2>1, <3>1 DEF Cleared, Many
    <3> QED BY <1>1, <1>2, <1>3, <2>1, <3>2 DEF DhcpTypeOK, Operations, Steps
  <2>3. PlaceOK' /\ DevOK'
    BY <1>1, <1>2, <2>1 DEF PlaceOK, DevOK
  <2>4. /\ dhcp'.state = "OFF" /\ dhcp'.lease = FALSE
    BY <2>1 DEF Cleared
  <2>5. "overlap" \notin odd' => OpOK' /\ LeaseOK' /\ FirstRound' /\ Waiting'
    <3> SUFFICES ASSUME "overlap" \notin odd PROVE OpOK' /\ LeaseOK' /\ FirstRound' /\ Waiting'
      BY <1>2
    <3>1. dev.status = "0" /\ ip = ZERO /\ ip \notin Leases
      BY <1>1, <2>1, DhcpAssumption DEF DevOK, FirstRound
    <3>2. OpOK' /\ FirstRound' /\ Waiting'
      BY <1>1, <1>2, <2>1, <2>4, <3>1 DEF OpOK, FirstRound, Waiting, Lost
    <3>3. LeaseOK'
      BY <1>1, <1>2, <2>1, <2>4, <3>1 DEF LeaseOK, Granted
    <3> QED BY <3>2, <3>3
  <2> QED BY <2>2, <2>3, <2>5 DEF DhcpInv
<1>5. CASE Create \/ Send
  <2>1. /\ dhcp' = dhcp /\ op' = op /\ then' = then /\ seen' = seen
        /\ todo \in {"create", "send"} /\ todo' \in {"send", "count"}
        /\ op \in {"start", "discover", "select", "renew", "rebind", "release"}
    BY <1>1, <1>2, <1>5, DoneIs DEF Create, Send, StaysAt
  <2>2. DhcpTypeOK' /\ PlaceOK' /\ DevOK'
    BY <1>1, <1>2, <1>3, <2>1 DEF DhcpTypeOK, PlaceOK, DevOK, Operations, Steps
  <2>3. "overlap" \notin odd' => OpOK' /\ LeaseOK' /\ FirstRound' /\ Waiting'
    BY <1>1, <1>2, <2>1 DEF OpOK, LeaseOK, FirstRound, Waiting
  <2> QED BY <2>2, <2>3 DEF DhcpInv
<1> QED BY <1>4, <1>5

\* dhcp_set_state, in the main loop.
LEMMA SetKeeps ==
  ASSUME DhcpInv, Change, todo = "set"
  PROVE  DhcpInv'
<1>1. DhcpTypeOK /\ PlaceOK /\ DevOK /\ ("overlap" \notin odd => OpOK /\ LeaseOK /\ FirstRound /\ Waiting)
  BY DEF DhcpInv
<1>2. /\ UNCHANGED <<p_out, sent, ip, up, dev, odd, declined>> /\ Done /\ op # "none"
      /\ dhcp' = dhcp_set_state(dhcp, body[op].to) /\ todo \in Steps
  BY <1>1 DEF Change, Steps, PlaceOK
<1>3. /\ seen' = seen /\ op \in Operations
      /\ \/ op \in {"start", "discover", "select", "renew", "rebind"} /\ StaysAt("create")
         \/ op = "release" /\ StaysAt("noOffer")
         \/ op = "check" /\ StaysAt("count")
         \/ op = "bind" /\ Leave
  BY <1>1, <1>2, DoneIs DEF Operations
<1>4. /\ op \in {"start", "discover"} => body[op].to = "SELECTING"
      /\ op = "select" => body[op].to = "REQUESTING"
      /\ op = "renew" => body[op].to = "RENEWING"
      /\ op = "rebind" => body[op].to = "REBINDING"
      /\ op = "release" => body[op].to = "OFF"
      /\ op = "check" => body[op].to = "CHECKING"
      /\ op = "bind" => body[op].to = "BOUND"
      /\ body[op].to \in DhcpStates
  <2>1. /\ op \in {"start", "discover"} => body[op].to = "SELECTING"
        /\ op = "select" => body[op].to = "REQUESTING"
        /\ op = "renew" => body[op].to = "RENEWING"
        /\ op = "rebind" => body[op].to = "REBINDING"
        /\ op = "release" => body[op].to = "OFF"
        /\ op = "check" => body[op].to = "CHECKING"
        /\ op = "bind" => body[op].to = "BOUND"
    BY BodyIs
  <2> QED BY <1>3, <2>1 DEF Operations, DhcpStates
<1> DEFINE to == body[op].to
<1>5. /\ dhcp'.state = to /\ dhcp'.offered = dhcp.offered /\ dhcp'.lease = dhcp.lease
      /\ dhcp'.tries = IF to = dhcp.state THEN dhcp.tries ELSE 0
      /\ dhcp' \in [state : DhcpStates, tries : 0 .. Many, timer : BOOLEAN,
                    offered : Addresses, lease : BOOLEAN]
  <2> HIDE DEF to
  <2>1. to \in DhcpStates
    BY <1>4 DEF to
  <2>2. dhcp' = IF to = dhcp.state THEN dhcp
                ELSE [dhcp EXCEPT !.state = to, !.tries = 0, !.timer = FALSE]
    BY <1>2 DEF dhcp_set_state, to
  <2>3. /\ dhcp \in [state : DhcpStates, tries : 0 .. Many, timer : BOOLEAN,
                     offered : Addresses, lease : BOOLEAN]
        /\ 0 \in 0 .. Many /\ FALSE \in BOOLEAN
    BY <1>1 DEF DhcpTypeOK, Many
  <2>4. CASE to = dhcp.state
    BY <2>2, <2>3, <2>4
  <2>5. CASE to # dhcp.state
    <3>1. dhcp' = [dhcp EXCEPT !.state = to, !.tries = 0, !.timer = FALSE]
      BY <2>2, <2>5
    <3> QED BY <2>1, <2>3, <2>5, <3>1
  <2> QED BY <2>4, <2>5
<1> HIDE DEF to
<1>6. DhcpTypeOK' /\ PlaceOK' /\ DevOK'
  BY <1>1, <1>2, <1>3, <1>5 DEF DhcpTypeOK, PlaceOK, DevOK, Leave, StaysAt, Operations, Steps
<1>7. ASSUME "overlap" \notin odd PROVE OpOK' /\ LeaseOK' /\ FirstRound' /\ Waiting'
  <2>1. OpOK /\ LeaseOK /\ FirstRound /\ Waiting
    BY <1>1, <1>7
  <2>2. CASE op \in {"start", "discover"}
    <3>1. /\ StaysAt("create") /\ to = "SELECTING" /\ dhcp.state \in Lost
      BY <1>3, <1>4, <2>1, <2>2 DEF OpOK, to
    <3>2. OpOK'
      BY <1>4, <3>1, <1>5, <2>2 DEF OpOK, StaysAt, to
    <3>3. LeaseOK'
      BY <1>2, <1>5, <2>1, <2>2, <3>1 DEF LeaseOK, StaysAt, Granted, Unbound, Lost
    <3>4. FirstRound' /\ Waiting'
      BY <1>2, <1>5, <2>1, <2>2, <3>1 DEF FirstRound, Waiting, StaysAt, Lost
    <3> QED BY <3>2, <3>3, <3>4
  <2>3. CASE op \in {"select", "renew", "rebind"}
    <3>1. /\ StaysAt("create") /\ to \in {"REQUESTING", "RENEWING", "REBINDING"}
          /\ dhcp.state \in Granted /\ (op = "select" => to = "REQUESTING")
      BY <1>3, <1>4, <2>1, <2>3 DEF OpOK, to, Granted
    <3>2. OpOK'
      BY <1>4, <3>1, <1>5, <2>3 DEF OpOK, StaysAt, to
    <3>3. op = "select" => dhcp.state \in Unbound
      BY <2>1, <2>3 DEF OpOK, Unbound
    <3>4. LeaseOK'
      BY <1>2, <1>4, <1>5, <2>1, <2>3, <3>1, <3>3 DEF LeaseOK, StaysAt, Granted, Unbound, to
    <3>5. FirstRound' /\ Waiting'
      BY <1>2, <1>4, <1>5, <2>1, <2>3, <3>1 DEF FirstRound, Waiting, StaysAt
    <3> QED BY <3>2, <3>4, <3>5
  <2>4. CASE op = "release"
    <3>1. StaysAt("noOffer") /\ to = "OFF"
      BY <1>3, <1>4, <2>4 DEF to
    <3>2. OpOK' /\ FirstRound' /\ Waiting'
      BY <1>2, <3>1, <1>5, <2>1, <2>4 DEF OpOK, FirstRound, Waiting, StaysAt
    <3>3. LeaseOK'
      BY <1>2, <1>5, <2>1, <2>4, <3>1 DEF LeaseOK, StaysAt, Granted
    <3> QED BY <3>2, <3>3
  <2>5. CASE op = "check"
    <3>1. StaysAt("count") /\ to = "CHECKING" /\ dhcp.state = "CHECKING"
      BY <1>3, <1>4, <2>1, <2>5 DEF to, OpOK
    <3>2. OpOK'
      BY <1>4, <3>1, <1>5, <2>1, <2>5 DEF OpOK, StaysAt, to
    <3>3. LeaseOK' /\ FirstRound' /\ Waiting'
      BY <1>2, <1>5, <2>1, <2>5, <3>1 DEF LeaseOK, FirstRound, Waiting, StaysAt
    <3> QED BY <3>2, <3>3
  <2>6. CASE op = "bind"
    <3>1. Leave /\ to = "BOUND" /\ dhcp.state = "CHECKING"
      BY <1>3, <1>4, <2>1, <2>6 DEF to, OpOK
    <3>2. then \in {"none", "process", "wait", "up"} /\ op' = "none" /\ todo' = then
          /\ then' = "none"
      BY <1>1, <3>1 DEF Leave, DhcpTypeOK
    <3>3. OpOK' /\ FirstRound' /\ Waiting'
      BY <1>2, <3>1, <3>2, <1>5, <2>1, <2>6 DEF OpOK, FirstRound, Waiting
    <3>4. LeaseOK'
      BY <1>2, <1>5, <2>1, <2>6, <3>1, <3>2 DEF LeaseOK, Granted, Unbound
    <3> QED BY <3>3, <3>4
  <2> QED BY <1>3, <2>2, <2>3, <2>4, <2>5, <2>6 DEF Operations
<1> QED BY <1>2, <1>6, <1>7 DEF DhcpInv

\* The offer is forgotten, or a try counted.
LEMMA CountKeeps ==
  ASSUME DhcpInv, Change, todo \in {"noOffer", "count"}
  PROVE  DhcpInv'
<1>1. DhcpTypeOK /\ PlaceOK /\ DevOK /\ ("overlap" \notin odd => OpOK /\ LeaseOK /\ FirstRound /\ Waiting)
  BY DEF DhcpInv
<1>2. UNCHANGED <<p_out, sent, ip, up, dev, odd, declined>> /\ Done /\ todo \in Steps
      /\ op # "none"
  BY <1>1 DEF Change, Steps, PlaceOK
<1>3. CASE todo = "noOffer"
  <2>1. dhcp' = [dhcp EXCEPT !.offered = ZERO] /\ ZERO \in Addresses
    BY <1>3 DEF Change, Addresses
  <2>2. /\ seen' = seen /\ op' = op /\ then' = then
        /\ \/ op = "release" /\ todo' = "create"
           \/ op \in {"start", "discover"} /\ todo' = "set"
    BY <1>1, <1>2, <1>3, DoneIs DEF StaysAt
  <2>3. DhcpTypeOK' /\ PlaceOK' /\ DevOK'
    BY <1>1, <1>2, <1>3, <2>1, <2>2 DEF DhcpTypeOK, PlaceOK, DevOK, Operations, Steps
  <2>4. ASSUME "overlap" \notin odd PROVE OpOK' /\ LeaseOK' /\ FirstRound' /\ Waiting'
    <3>1. OpOK /\ LeaseOK /\ FirstRound /\ Waiting
      BY <1>1, <2>4
    <3>2. /\ dhcp'.state = dhcp.state /\ dhcp'.tries = dhcp.tries
          /\ dhcp'.lease = dhcp.lease /\ dhcp.state \in Lost
          /\ (op = "release" => dhcp.state = "OFF")
      BY <1>1, <1>3, <2>1, <2>2, <3>1 DEF DhcpTypeOK, OpOK, Lost
    <3>3. OpOK'
      BY <1>3, <2>2, <3>1, <3>2, BodyIs DEF OpOK
    <3>4. LeaseOK'
      BY <1>2, <1>3, <2>2, <3>1, <3>2 DEF LeaseOK, Lost, Granted
    <3>5. FirstRound' /\ Waiting'
      BY <1>2, <1>3, <2>2, <3>1, <3>2 DEF FirstRound, Waiting, Lost
    <3> QED BY <3>3, <3>4, <3>5
  <2> QED BY <1>2, <2>3, <2>4 DEF DhcpInv
<1>4. CASE todo = "count"
  <2>1. PICK n \in Count(dhcp.tries) : dhcp' = [dhcp EXCEPT !.tries = n, !.timer = TRUE]
    BY <1>4 DEF Change
  <2>2. n \in 0 .. Many /\ (dhcp.tries <= 1 => n <= 2)
    BY <1>1, <2>1 DEF Count, Many, DhcpTypeOK
  <2>3. /\ dhcp'.state = dhcp.state /\ dhcp'.offered = dhcp.offered
        /\ dhcp'.lease = dhcp.lease
        /\ dhcp' \in [state : DhcpStates, tries : 0 .. Many, timer : BOOLEAN,
                      offered : Addresses, lease : BOOLEAN]
    BY <1>1, <2>1, <2>2 DEF DhcpTypeOK
  <2>4. /\ seen' = seen
        /\ \/ op = "release" /\ StaysAt("down")
           \/ /\ op \in {"start", "discover", "select", "renew", "rebind", "check"}
              /\ Leave
    BY <1>1, <1>2, <1>4, DoneIs
  <2>5. DhcpTypeOK' /\ PlaceOK' /\ DevOK'
    BY <1>1, <1>2, <1>4, <2>3, <2>4
    DEF DhcpTypeOK, PlaceOK, DevOK, Operations, Steps, StaysAt, Leave
  <2>6. ASSUME "overlap" \notin odd PROVE OpOK' /\ LeaseOK' /\ FirstRound' /\ Waiting'
    <3>1. OpOK /\ LeaseOK /\ FirstRound /\ Waiting
      BY <1>1, <2>6
    <3>2. dhcp.state = body[op].to /\ dhcp.state # "BOUND"
      BY <1>4, <2>4, <3>1, BodyIs DEF OpOK
    <3>3. then \in {"none", "process", "wait", "up"}
      BY <1>1 DEF DhcpTypeOK
    <3>4. OpOK'
      BY <1>4, <2>3, <2>4, <3>2, <3>3 DEF OpOK, StaysAt, Leave
    <3>5. LeaseOK'
      BY <1>2, <1>4, <2>3, <2>4, <3>1, <3>2, <3>3 DEF LeaseOK, StaysAt, Leave
    <3>6. FirstRound'
      <4> SUFFICES ASSUME dev.status = "0" PROVE FirstRound'
        BY <1>2 DEF FirstRound
      <4>1. op # "check" => dhcp.state # "CHECKING"
        BY <2>4, <3>2, BodyIs
      <4>2. op = "check" => then = "process" /\ todo' = "process"
        BY <2>4, <3>1 DEF FirstRound, Leave
      <4> QED BY <1>2, <1>4, <2>3, <2>4, <3>1, <3>3, <4>1, <4>2 DEF FirstRound, StaysAt, Leave
    <3>7. Waiting'
      BY <1>2, <1>4, <2>3, <2>4, <3>1, <3>2, <3>3 DEF Waiting, StaysAt, Leave
    <3> QED BY <3>4, <3>5, <3>6, <3>7
  <2> QED BY <1>2, <2>5, <2>6 DEF DhcpInv
<1> QED BY <1>3, <1>4

\* netif_set_ipaddr, in the main loop.
LEMMA AddressKeeps ==
  ASSUME DhcpInv, SetAddress
  PROVE  DhcpInv'
<1>1. DhcpTypeOK /\ PlaceOK /\ DevOK /\ ("overlap" \notin odd => OpOK /\ LeaseOK /\ FirstRound /\ Waiting)
  BY DEF DhcpInv
<1>2. /\ UNCHANGED <<p_out, sent, up, dev, odd, declined>> /\ Done /\ todo \in Steps
      /\ op # "none"
  BY <1>1 DEF SetAddress, Steps, PlaceOK
<1>3. CASE todo = "addr"
  <2>1. ip' = dhcp.offered /\ dhcp' = [dhcp EXCEPT !.lease = TRUE]
    BY <1>3 DEF SetAddress
  <2>2. /\ seen' = seen /\ op = "bind" /\ op' = op /\ todo' = "up" /\ then' = then
    BY <1>1, <1>2, <1>3, DoneIs DEF StaysAt
  <2>3. DhcpTypeOK' /\ PlaceOK' /\ DevOK'
    BY <1>1, <1>2, <1>3, <2>1, <2>2 DEF DhcpTypeOK, PlaceOK, DevOK, Operations, Steps
  <2>4. ASSUME "overlap" \notin odd PROVE OpOK' /\ LeaseOK' /\ FirstRound' /\ Waiting'
    <3>1. OpOK /\ LeaseOK /\ FirstRound /\ Waiting
      BY <1>1, <2>4
    <3>2. /\ dhcp'.state = dhcp.state /\ dhcp'.offered = dhcp.offered
          /\ dhcp.state = "CHECKING"
      BY <1>1, <2>1, <2>2, <3>1 DEF DhcpTypeOK, OpOK
    <3>3. OpOK'
      BY <2>2, <3>2 DEF OpOK
    <3>4. LeaseOK'
      BY <1>2, <2>1, <2>2, <3>1, <3>2 DEF LeaseOK, Granted
    <3>5. FirstRound' /\ Waiting'
      BY <1>2, <2>2, <3>1, <3>2 DEF FirstRound, Waiting
    <3> QED BY <3>3, <3>4, <3>5
  <2> QED BY <1>2, <2>3, <2>4 DEF DhcpInv
<1>4. CASE todo = "zero"
  <2>1. ip' = ZERO /\ dhcp' = dhcp /\ ZERO \in Addresses
    BY <1>4 DEF SetAddress, Addresses
  <2>2. /\ seen' = seen /\ op = "release" /\ op' = "discover" /\ todo' = "noOffer"
        /\ then' = then
    BY <1>1, <1>2, <1>4, DoneIs
  <2>3. DhcpTypeOK' /\ PlaceOK' /\ DevOK'
    BY <1>1, <1>2, <1>4, <2>1, <2>2 DEF DhcpTypeOK, PlaceOK, DevOK, Operations, Steps
  <2>4. ASSUME "overlap" \notin odd PROVE OpOK' /\ LeaseOK' /\ FirstRound' /\ Waiting'
    <3>1. OpOK /\ LeaseOK /\ FirstRound /\ Waiting
      BY <1>1, <2>4
    <3>2. dhcp.state = "OFF"
      BY <1>4, <2>2, <3>1, BodyIs DEF OpOK
    <3>3. OpOK' /\ FirstRound' /\ Waiting'
      BY <1>2, <1>4, <2>1, <2>2, <3>1, <3>2 DEF OpOK, FirstRound, Waiting, Lost
    <3>4. ZERO \notin Leases /\ ZERO \notin declined
      BY <1>1, DhcpAssumption DEF DhcpTypeOK
    <3>5. LeaseOK'
      BY <1>2, <2>1, <2>2, <3>2, <3>4 DEF LeaseOK, Granted
    <3> QED BY <3>3, <3>5
  <2> QED BY <1>2, <2>3, <2>4 DEF DhcpInv
<1> QED BY <1>3, <1>4 DEF SetAddress

\* netif_set_up and netif_set_down, in the main loop.
LEMMA FlagKeeps ==
  ASSUME DhcpInv, SetFlag
  PROVE  DhcpInv'
<1>1. DhcpTypeOK /\ PlaceOK /\ DevOK /\ ("overlap" \notin odd => OpOK /\ LeaseOK /\ FirstRound /\ Waiting)
  BY DEF DhcpInv
<1>2. /\ UNCHANGED <<dhcp, p_out, sent, ip, dev, odd, declined>> /\ todo \in Steps
      /\ up' \in BOOLEAN
  BY DEF SetFlag, Steps
<1>3. \/ /\ op = "bind" /\ todo = "up" /\ up' = TRUE
         /\ seen' = seen /\ op' = op /\ todo' = "set" /\ then' = then
      \/ /\ op = "release" /\ todo = "down"
         /\ seen' = seen /\ op' = op /\ todo' = "zero" /\ then' = then
      \/ /\ op = "none" /\ todo = "up" /\ up' = TRUE /\ then = "none"
         /\ seen' = seen /\ op' = "none" /\ todo' = "none" /\ then' = "none"
  <2>1. CASE op = "none"
    BY <1>1, <2>1 DEF SetFlag, Leave, PlaceOK
  <2>2. CASE op # "none"
    BY <1>1, <1>2, <2>2, DoneIs DEF SetFlag, StaysAt
  <2> QED BY <2>1, <2>2
<1>4. DhcpTypeOK' /\ PlaceOK' /\ DevOK'
  BY <1>1, <1>2, <1>3 DEF DhcpTypeOK, PlaceOK, DevOK, Operations, Steps
<1>5. ASSUME "overlap" \notin odd PROVE OpOK' /\ LeaseOK' /\ FirstRound' /\ Waiting'
  <2>1. OpOK /\ LeaseOK /\ FirstRound /\ Waiting
    BY <1>1, <1>5
  <2>2. op = "release" => dhcp.state = "OFF"
    BY <1>3, <2>1, BodyIs DEF OpOK
  <2>3. OpOK'
    BY <1>2, <1>3, <2>1, <2>2, BodyIs DEF OpOK
  <2>4. LeaseOK'
    BY <1>2, <1>3, <2>1, <2>2 DEF LeaseOK
  <2>5. FirstRound' /\ Waiting'
    BY <1>2, <1>3, <2>1 DEF FirstRound, Waiting
  <2> QED BY <2>3, <2>4, <2>5
<1> QED BY <1>2, <1>4, <1>5 DEF DhcpInv

\* lwip_dhcp_process_handle goes on.
LEMMA ProcessKeeps ==
  ASSUME DhcpInv, Process
  PROVE  DhcpInv'
<1>1. DhcpTypeOK /\ PlaceOK /\ DevOK /\ ("overlap" \notin odd => OpOK /\ LeaseOK /\ FirstRound /\ Waiting)
  BY DEF DhcpInv
<1>2. /\ UNCHANGED <<dhcp, p_out, sent, ip, up, odd, declined>>
      /\ todo \in {"wait", "branch"} /\ op = "none" /\ then = "none" /\ seen' = ZERO
      /\ ZERO \in Addresses /\ STATIC \in Addresses
  BY <1>1 DEF Process, DhcpTypeOK, PlaceOK, Operations, Addresses
<1>3. op' = "none" /\ then' = "none" /\ todo' \in {"none", "static"}
  BY <1>2 DEF Process, Settle, Leave
<1>4. CASE todo = "wait"
  <2>1. dev' = [dev EXCEPT !.status = "1"] /\ todo' = "none"
    BY <1>2, <1>4 DEF Process, Leave
  <2>2. dev'.status = "1" /\ dev.status = "0"
    BY <1>1, <1>4, <2>1 DEF DhcpTypeOK, DevOK
  <2>3. DhcpTypeOK' /\ PlaceOK' /\ DevOK'
    BY <1>1, <1>2, <1>3, <1>4, <2>1 DEF DhcpTypeOK, PlaceOK, DevOK, Operations, Steps
  <2>4. "overlap" \notin odd' => OpOK' /\ LeaseOK' /\ FirstRound' /\ Waiting'
    BY <1>1, <1>2, <1>3, <1>4, <2>1, <2>2 DEF OpOK, LeaseOK, FirstRound, Waiting
  <2> QED BY <2>3, <2>4 DEF DhcpInv
<1>5. CASE todo = "branch"
  <2>1. \/ seen # ZERO /\ dev' = [status |-> "2", ip |-> seen] /\ todo' = "none"
        \/ seen = ZERO /\ dev' = [dev EXCEPT !.status = "0XFF"] /\ todo' = "static"
        \/ seen = ZERO /\ dev' = dev /\ todo' = "none"
    BY <1>2, <1>5 DEF Process, Settle, Leave
  <2>2. /\ dev' \in [status : {"0", "1", "2", "0XFF"}, ip : Addresses]
        /\ dev.status = "1" /\ dev'.status # "0"
        /\ todo' = "static" => dev'.status = "0XFF"
        /\ dev'.status = "1" => seen = ZERO
        /\ dev'.status # "2" => dev'.ip = STATIC
    BY <1>1, <1>2, <1>5, <2>1 DEF DhcpTypeOK, DevOK
  <2>3. DhcpTypeOK' /\ PlaceOK' /\ DevOK'
    BY <1>1, <1>2, <1>3, <2>2 DEF DhcpTypeOK, PlaceOK, DevOK, Operations, Steps
  <2>4. ASSUME "overlap" \notin odd PROVE OpOK' /\ LeaseOK' /\ FirstRound' /\ Waiting'
    <3>1. OpOK /\ LeaseOK /\ FirstRound /\ Waiting
      BY <1>1, <2>4
    <3>2. seen = ZERO => ~dhcp.lease /\ dhcp.state # "BOUND"
      BY <1>2, <1>5, <2>2, <3>1 DEF Waiting
    <3>3. OpOK' /\ LeaseOK' /\ FirstRound'
      BY <1>2, <1>3, <2>2, <3>1 DEF OpOK, LeaseOK, FirstRound
    <3>4. Waiting'
      BY <1>2, <1>3, <2>1, <2>2, <3>1, <3>2 DEF Waiting
    <3> QED BY <3>3, <3>4
  <2> QED BY <1>2, <2>3, <2>4 DEF DhcpInv
<1> QED BY <1>2, <1>4, <1>5

\* The static address is written: no lease is bound that it could replace.
LEMMA StaticKeeps ==
  ASSUME DhcpInv, Static
  PROVE  DhcpInv'
<1>1. DhcpTypeOK /\ PlaceOK /\ DevOK /\ ("overlap" \notin odd => OpOK /\ LeaseOK /\ FirstRound /\ Waiting)
  BY DEF DhcpInv
<1>2. /\ UNCHANGED <<dhcp, p_out, sent, up, dev, seen, odd, declined>>
      /\ todo = "static" /\ op = "none" /\ then = "none"
      /\ op' = "none" /\ todo' = "none" /\ then' = "none"
      /\ dev.status = "0XFF" /\ ip' = STATIC /\ STATIC \in Addresses
  BY <1>1 DEF Static, Leave, DhcpTypeOK, PlaceOK, DevOK, Operations, Addresses
<1>3. DhcpTypeOK' /\ PlaceOK' /\ DevOK'
  BY <1>1, <1>2 DEF DhcpTypeOK, PlaceOK, DevOK, Operations, Steps
<1>4. ASSUME "overlap" \notin odd PROVE OpOK' /\ LeaseOK' /\ FirstRound' /\ Waiting'
  <2>1. OpOK /\ LeaseOK /\ FirstRound /\ Waiting
    BY <1>1, <1>4
  <2>2. STATIC \notin Leases /\ STATIC \notin declined
    BY <1>1, DhcpAssumption DEF DhcpTypeOK
  <2>3. dhcp.state # "BOUND"
    BY <1>2, <2>1 DEF Waiting
  <2>4. LeaseOK'
    BY <1>2, <2>1, <2>2, <2>3 DEF LeaseOK
  <2>5. OpOK' /\ FirstRound' /\ Waiting'
    BY <1>2 DEF OpOK, FirstRound, Waiting
  <2> QED BY <2>4, <2>5
<1> QED BY <1>2, <1>3, <1>4 DEF DhcpInv

-----------------------------------------------------------------------------
(* The interrupt.                                                          *)

\* It leaves the main loop where it is; if no answer has met one, outside
\* every operation of the client.
LEMMA IrqKeeps ==
  ASSUME DhcpInv, DhcpIrq
  PROVE  DhcpInv'
<1>1. DhcpTypeOK /\ PlaceOK /\ DevOK /\ ("overlap" \notin odd => OpOK /\ LeaseOK /\ FirstRound /\ Waiting)
  BY DEF DhcpInv
<1>2. UNCHANGED <<p_out, sent, dev, op, todo, then, seen>>
  BY DEF DhcpIrq, Offer, Ack, OfferNoServerId, AckRenewal, Nak, ArpReply, place
<1>3. odd' \subseteq {"overlap", "noServerId", "assert"}
  BY <1>1 DEF DhcpTypeOK, DhcpIrq, Offer, Ack, OfferNoServerId, AckRenewal, Nak,
              ArpReply, Event
<1>4. "overlap" \notin odd' => "overlap" \notin odd /\ op = "none" /\ todo # "timeout"
  BY DEF DhcpIrq, Offer, Ack, OfferNoServerId, AckRenewal, Nak, ArpReply, Event, Inside
<1>5. PlaceOK' /\ DevOK'
  BY <1>1, <1>2 DEF PlaceOK, DevOK
<1>6. /\ {"SELECTING", "REQUESTING", "CHECKING", "BOUND", "BACKING_OFF"} \subseteq DhcpStates
      /\ Leases \subseteq Addresses /\ ZERO \in Addresses
      /\ 0 \in 0 .. Many /\ 1 \in 0 .. Many
      /\ dhcp \in [state : DhcpStates, tries : 0 .. Many, timer : BOOLEAN,
                   offered : Addresses, lease : BOOLEAN]
      /\ ip \in Addresses /\ up \in BOOLEAN /\ declined \subseteq Leases
  BY <1>1 DEF DhcpStates, Addresses, Many, DhcpTypeOK
<1>7. ASSUME /\ dhcp' \in [state : DhcpStates, tries : 0 .. Many, timer : BOOLEAN,
                           offered : Addresses, lease : BOOLEAN]
             /\ ip' \in Addresses /\ up' \in BOOLEAN /\ declined' \subseteq Leases
      PROVE  DhcpTypeOK'
  BY <1>1, <1>2, <1>3, <1>7 DEF DhcpTypeOK
<1>8. ASSUME "overlap" \notin odd', dhcp'.state # "CHECKING" \/ dhcp'.tries = 1 \/ dhcp' = dhcp,
             dhcp'.lease = dhcp.lease \/ dev.status # "0",
             ip' \in {ip, ZERO} \/ dev.status # "0",
             dhcp'.state \notin {"BOUND", "RENEWING", "REBINDING"} \/ dev.status # "0"
      PROVE  OpOK' /\ FirstRound'
  <2>1. OpOK /\ FirstRound /\ op = "none"
        /\ todo \in {"none", "process", "branch", "static", "wait", "up"}
    BY <1>1, <1>4, <1>8 DEF PlaceOK
  <2> QED BY <1>2, <1>8, <2>1 DEF OpOK, FirstRound
<1>9. ASSUME "overlap" \notin odd' PROVE OpOK /\ LeaseOK /\ FirstRound /\ Waiting /\ op = "none"
  BY <1>1, <1>4, <1>9
<1>9a. ASSUME "overlap" \notin odd', dhcp'.lease = dhcp.lease,
              dhcp.state \notin {"BOUND", "RENEWING", "REBINDING"},
              dhcp'.state \notin {"BOUND", "RENEWING", "REBINDING"}
       PROVE  Waiting'
  BY <1>2, <1>4, <1>9, <1>9a DEF Waiting
<1>10. ASSUME NEW a \in Leases, Offer(a) \/ Ack(a) PROVE DhcpInv'
  <2>1. PICK st \in {"REQUESTING", "CHECKING"} :
          /\ dhcp' = [dhcp EXCEPT !.state = st, !.tries = 1, !.timer = TRUE, !.offered = a]
          /\ dhcp.state \in {"SELECTING", "REQUESTING"} /\ ip' = ip /\ up' = up
          /\ declined' \subseteq declined /\ (st = "CHECKING" => a \notin declined')
    BY <1>10 DEF Offer, Ack, Enter
  <2>2. /\ dhcp'.state = st /\ dhcp'.tries = 1 /\ dhcp'.offered = a
        /\ dhcp'.lease = dhcp.lease
        /\ dhcp' \in [state : DhcpStates, tries : 0 .. Many, timer : BOOLEAN,
                      offered : Addresses, lease : BOOLEAN]
    BY <1>6, <2>1
  <2>3. DhcpTypeOK'
    BY <1>6, <1>7, <2>1, <2>2
  <2>4. ASSUME "overlap" \notin odd' PROVE OpOK' /\ LeaseOK' /\ FirstRound' /\ Waiting'
    <3>1. OpOK' /\ FirstRound'
      BY <1>8, <2>1, <2>2, <2>4
    <3>2. LeaseOK'
      BY <1>2, <1>9, <2>1, <2>2, <2>4 DEF LeaseOK, Granted, Unbound
    <3>3. Waiting'
      BY <1>9a, <2>1, <2>2, <2>4
    <3> QED BY <3>1, <3>2, <3>3
  <2> QED BY <1>5, <2>3, <2>4 DEF DhcpInv
<1>11. CASE OfferNoServerId
  <2>1. /\ dhcp' = [dhcp EXCEPT !.timer = FALSE] /\ ip' = ip /\ up' = up /\ declined' = declined
        /\ dhcp.state = "SELECTING"
    BY <1>11 DEF OfferNoServerId
  <2>2. DhcpTypeOK'
    BY <1>6, <1>7, <2>1
  <2>3. /\ dhcp'.state = "SELECTING" /\ dhcp'.offered = dhcp.offered
        /\ dhcp'.lease = dhcp.lease
    BY <1>6, <2>1
  <2>4. ASSUME "overlap" \notin odd' PROVE OpOK' /\ LeaseOK' /\ FirstRound' /\ Waiting'
    <3>1. OpOK' /\ FirstRound'
      BY <1>8, <2>1, <2>3, <2>4
    <3>2. LeaseOK'
      BY <1>2, <1>9, <2>1, <2>3, <2>4 DEF LeaseOK, Granted
    <3>3. Waiting'
      BY <1>9a, <2>1, <2>3, <2>4
    <3> QED BY <3>1, <3>2, <3>3
  <2> QED BY <1>5, <2>2, <2>4 DEF DhcpInv
<1>12. CASE AckRenewal
  <2>1. /\ dhcp.state \in {"RENEWING", "REBINDING"} /\ ip' = dhcp.offered /\ up' = TRUE
        /\ dhcp' = [dhcp_set_state(dhcp, "BOUND") EXCEPT !.lease = TRUE]
        /\ declined' = declined \ {dhcp.offered}
    BY <1>12 DEF AckRenewal
  <2>2. dhcp_set_state(dhcp, "BOUND") = [dhcp EXCEPT !.state = "BOUND", !.tries = 0, !.timer = FALSE]
    BY <2>1 DEF dhcp_set_state
  <2>3. /\ dhcp'.state = "BOUND" /\ dhcp'.tries = 0 /\ dhcp'.offered = dhcp.offered
        /\ dhcp' \in [state : DhcpStates, tries : 0 .. Many, timer : BOOLEAN,
                      offered : Addresses, lease : BOOLEAN]
    BY <1>6, <2>1, <2>2
  <2>4. DhcpTypeOK'
    BY <1>6, <1>7, <2>1, <2>3
  <2>5. ASSUME "overlap" \notin odd' PROVE OpOK' /\ LeaseOK' /\ FirstRound' /\ Waiting'
    <3>1. dev.status \notin {"0", "1"} /\ todo # "static"
      BY <1>9, <2>1, <2>5 DEF FirstRound, Waiting
    <3>2. OpOK' /\ FirstRound'
      BY <1>8, <2>3, <2>5, <3>1
    <3>3. LeaseOK'
      BY <1>2, <1>9, <2>1, <2>3, <2>5 DEF LeaseOK, Granted, Unbound
    <3>4. Waiting'
      BY <1>2, <3>1 DEF Waiting
    <3> QED BY <3>2, <3>3, <3>4
  <2> QED BY <1>5, <2>4, <2>5 DEF DhcpInv
<1>13. CASE Nak
  <2>1. /\ dhcp' = [dhcp EXCEPT !.state = "SELECTING", !.tries = 1, !.timer = TRUE,
                                !.offered = ZERO]
        /\ ip' = ZERO /\ up' = FALSE /\ declined' = declined
        /\ dhcp.state \in {"REQUESTING", "RENEWING", "REBINDING"}
    BY <1>13 DEF Nak, Enter
  <2>2. /\ dhcp'.state = "SELECTING" /\ dhcp'.lease = dhcp.lease
        /\ dhcp' \in [state : DhcpStates, tries : 0 .. Many, timer : BOOLEAN,
                      offered : Addresses, lease : BOOLEAN]
    BY <1>6, <2>1
  <2>3. DhcpTypeOK'
    BY <1>6, <1>7, <2>1, <2>2
  <2>4. ASSUME "overlap" \notin odd' PROVE OpOK' /\ LeaseOK' /\ FirstRound' /\ Waiting'
    <3>1. OpOK' /\ FirstRound'
      BY <1>8, <2>1, <2>2, <2>4
    <3>2. ZERO \notin Leases /\ ZERO \notin declined
      BY <1>6, DhcpAssumption
    <3>3. LeaseOK'
      BY <1>2, <1>9, <2>1, <2>2, <2>4, <3>2 DEF LeaseOK, Granted
    <3>4. Waiting'
      BY <1>2, <1>4, <1>9, <2>1, <2>2, <2>4 DEF Waiting
    <3> QED BY <3>1, <3>3, <3>4
  <2> QED BY <1>5, <2>3, <2>4 DEF DhcpInv
<1>14. CASE ArpReply
  <2>1. /\ dhcp.state = "CHECKING" /\ dhcp.offered \in Leases
        /\ dhcp' = [dhcp EXCEPT !.state = "BACKING_OFF", !.tries = 1, !.timer = TRUE,
                                !.offered = dhcp.offered]
        /\ ip' = ip /\ up' = up /\ declined' = declined \cup {dhcp.offered}
    BY <1>14 DEF ArpReply, Enter
  <2>2. /\ dhcp'.state = "BACKING_OFF" /\ dhcp'.lease = dhcp.lease
        /\ dhcp' \in [state : DhcpStates, tries : 0 .. Many, timer : BOOLEAN,
                      offered : Addresses, lease : BOOLEAN]
    BY <1>6, <2>1
  <2>3. DhcpTypeOK'
    BY <1>6, <1>7, <2>1, <2>2
  <2>4. ASSUME "overlap" \notin odd' PROVE OpOK' /\ LeaseOK' /\ FirstRound' /\ Waiting'
    <3>1. OpOK' /\ FirstRound'
      BY <1>8, <2>1, <2>2, <2>4
    <3>2. LeaseOK'
      BY <1>2, <1>9, <2>1, <2>2, <2>4 DEF LeaseOK, Granted, Unbound
    <3>3. Waiting'
      BY <1>9a, <2>1, <2>2, <2>4
    <3> QED BY <3>1, <3>2, <3>3
  <2> QED BY <1>5, <2>3, <2>4 DEF DhcpInv
<1> QED BY <1>10, <1>11, <1>12, <1>13, <1>14 DEF DhcpIrq

LEMMA DhcpStep == DhcpInv /\ [DhcpNext]_dhcpVars => DhcpInv'
<1> SUFFICES ASSUME DhcpInv, [DhcpNext]_dhcpVars PROVE DhcpInv'
  OBVIOUS
<1>1. CASE Running
  <2>1. Change => todo \in {"set", "noOffer", "count"}
    BY DEF Change
  <2> QED BY <1>1, <2>1, DecideKeeps, MessageKeeps, SetKeeps, CountKeeps, AddressKeeps,
             FlagKeeps, ProcessKeeps, StaticKeeps DEF Running
<1>2. CASE Periodic \/ DhcpIrq
  BY <1>2, PeriodicKeeps, IrqKeeps
<1>3. CASE UNCHANGED dhcpVars
  BY <1>3 DEF dhcpVars, place, DhcpInv, DhcpTypeOK, PlaceOK, DevOK, OpOK, LeaseOK,
              FirstRound, Waiting
<1> QED BY <1>1, <1>2, <1>3 DEF DhcpNext

-----------------------------------------------------------------------------
(* The buffers.                                                            *)

\* When lwIP's buffers are asked for the Ethernet ones are there.
BootInv ==
  /\ BootTypeOK
  /\ pc = "lwip_comm_mem_malloc" => \A i \in 1 .. 4 : ptr[EthBufs[i]] # FAIL
  /\ BuffersReady

\* The names of the buffers.
LEMMA BufferNames ==
  /\ EthBufs[1] = "DMARxDscrTab" /\ EthBufs[2] = "DMATxDscrTab"
  /\ EthBufs[3] = "Rx_Buff" /\ EthBufs[4] = "Tx_Buff" /\ Len(EthBufs) = 4
  /\ MemBufs[1] = "memp_memory" /\ MemBufs[2] = "ram_heap" /\ Len(MemBufs) = 2
  /\ \A i \in 1 .. 4 : EthBufs[i] \in Buffers
  /\ \A i \in 1 .. 2 : MemBufs[i] \in Buffers
  /\ \A x \in Buffers : (\E i \in 1 .. 4 : x = EthBufs[i]) \/ (\E i \in 1 .. 2 : x = MemBufs[i])
  /\ Elements(EthBufs) = {EthBufs[i] : i \in 1 .. 4}
  /\ Elements(MemBufs) = {MemBufs[i] : i \in 1 .. 2}
<1>1. /\ EthBufs[1] = "DMARxDscrTab" /\ EthBufs[2] = "DMATxDscrTab"
      /\ EthBufs[3] = "Rx_Buff" /\ EthBufs[4] = "Tx_Buff" /\ Len(EthBufs) = 4
      /\ MemBufs[1] = "memp_memory" /\ MemBufs[2] = "ram_heap" /\ Len(MemBufs) = 2
  BY DEF EthBufs, MemBufs
<1> QED BY <1>1 DEF Buffers, Elements

\* What mymalloc grants is nobody else's.
LEMMA MallocGrants ==
  ASSUME BootTypeOK, NEW x \in Buffers, mymalloc(x)
  PROVE  /\ runs \subseteq runs' /\ runs' \in SUBSET Run
         /\ ptr' \in [Buffers -> Table \cup {FAIL}]
         /\ \A y \in Buffers \ {x} : ptr'[y] = ptr[y]
         /\ \/ ptr'[x] = FAIL
            \/ /\ [off |-> ptr'[x], n |-> Need[x]] \in runs'
               /\ \A r \in runs : r.off # ptr'[x]
<1>1. /\ runs \in SUBSET Run /\ ptr \in [Buffers -> Table \cup {FAIL}]
      /\ Need[x] \in 1 .. TblSize /\ TblSize \in Nat \ {0}
  BY BootAssumption, TblAssumption DEF BootTypeOK
<1>2. CASE ptr' = [ptr EXCEPT ![x] = FAIL] /\ UNCHANGED runs
  BY <1>1, <1>2
<1>3. ASSUME NEW o \in Table, IsPlace(runs, Need[x], o), ptr' = [ptr EXCEPT ![x] = o],
             runs' = runs \cup {[off |-> o, n |-> Need[x]]}
      PROVE  /\ runs \subseteq runs' /\ runs' \in SUBSET Run
             /\ ptr' \in [Buffers -> Table \cup {FAIL}]
             /\ \A y \in Buffers \ {x} : ptr'[y] = ptr[y]
             /\ [off |-> ptr'[x], n |-> Need[x]] \in runs'
             /\ \A r \in runs : r.off # ptr'[x]
  <2>1. [off |-> o, n |-> Need[x]] \in Run
    BY <1>1, <1>3 DEF Run
  <2>2. ptr'[x] = o
    BY <1>1, <1>3
  <2>3. ASSUME NEW q \in runs PROVE q.off # o
    <3>1. q.off \in Nat /\ q.n \in Nat \ {0} /\ o \in Nat
      BY <1>1 DEF Run, Table
    <3>2. q.off + q.n <= o \/ o + Need[x] <= q.off
      BY <1>3 DEF IsPlace, Fits
    <3> QED BY <1>1, <3>1, <3>2
  <2> QED BY <1>1, <1>3, <2>1, <2>2, <2>3
<1> QED BY <1>2, <1>3 DEF mymalloc

\* An allocation adds one pointer to those of the attempt.
LEMMA GrantKeeps ==
  ASSUME BootInv, NEW x \in Buffers, mymalloc(x), pc' = pc,
         pc \in {"ETH_Mem_Malloc", "lwip_comm_mem_malloc"},
         \A y \in Buffers : Assigned(y)' => Assigned(y) \/ y = x
  PROVE  BuffersReady'
<1>1. /\ runs \subseteq runs'
      /\ \A y \in Buffers \ {x} : ptr'[y] = ptr[y]
      /\ \/ ptr'[x] = FAIL
         \/ /\ [off |-> ptr'[x], n |-> Need[x]] \in runs'
            /\ \A r \in runs : r.off # ptr'[x]
  BY MallocGrants DEF BootInv
<1>2. ASSUME NEW y \in Buffers \ {x}, Assigned(y)', ptr[y] # FAIL
      PROVE  /\ [off |-> ptr[y], n |-> Need[y]] \in runs
             /\ \A z \in Buffers \ {y, x} : Assigned(z)' => ptr[z] # ptr[y]
  BY <1>2 DEF BootInv, BuffersReady
<1>3. ASSUME NEW y \in Buffers \ {x}, Assigned(y)', ptr[y] # FAIL
      PROVE  ptr'[x] # ptr[y] \/ ptr'[x] = FAIL
  <2>1. [off |-> ptr[y], n |-> Need[y]].off = ptr[y]
    OBVIOUS
  <2> QED BY <1>1, <1>2, <1>3, <2>1
<1>4. ASSUME NEW y \in Buffers, Assigned(y)', ptr'[y] # FAIL
      PROVE  /\ [off |-> ptr'[y], n |-> Need[y]] \in runs'
             /\ \A z \in Buffers \ {y} : Assigned(z)' => ptr'[z] # ptr'[y]
  <2>1. CASE y = x
    <3>1. ASSUME NEW z \in Buffers \ {x}, Assigned(z)' PROVE ptr'[z] # ptr'[x]
      BY <1>1, <1>3, <1>4, <2>1, <3>1
    <3> QED BY <1>1, <1>4, <2>1, <3>1
  <2>2. CASE y # x
    <3>1. ptr'[y] = ptr[y] /\ [off |-> ptr[y], n |-> Need[y]] \in runs'
      BY <1>1, <1>2, <1>4, <2>2
    <3>2. ASSUME NEW z \in Buffers \ {y}, Assigned(z)' PROVE ptr'[z] # ptr'[y]
      <4>1. CASE z = x
        BY <1>3, <1>4, <2>2, <3>1, <4>1
      <4>2. CASE z # x
        BY <1>1, <1>2, <1>4, <2>2, <3>1, <3>2, <4>2
      <4> QED BY <4>1, <4>2
    <3> QED BY <3>1, <3>2
  <2> QED BY <2>1, <2>2
<1> QED BY <1>4 DEF BuffersReady

\* A step that allocates nothing, and counts no pointer of an earlier
\* attempt as one of this.
LEMMA SameBuffers ==
  ASSUME BootInv, UNCHANGED <<runs, ptr>>,
         \A y \in Buffers : Assigned(y)' => Assigned(y),
         pc' \in {"link", "autoneg", "netif_add", "done"} => \A x \in Buffers : ptr[x] # FAIL
  PROVE  BuffersReady'
<1>1. ASSUME NEW y \in Buffers, Assigned(y)', ptr[y] # FAIL
      PROVE  /\ [off |-> ptr[y], n |-> Need[y]] \in runs
             /\ \A z \in Buffers \ {y} : Assigned(z)' => ptr[z] # ptr[y]
  BY <1>1 DEF BootInv, BuffersReady
<1> QED BY <1>1 DEF BuffersReady

\* An attempt that has failed has no pointers.
LEMMA NoneAssigned ==
  ASSUME pc' = "retry" \/ (pc' = "ETH_Mem_Malloc" /\ k' = 1)
  PROVE  BuffersReady'
<1>1. \A y : ~Assigned(y)'
  BY DEF Assigned
<1> QED BY <1>1 DEF BuffersReady

LEMMA EthAllocKeeps ==
  ASSUME BootInv, ETH_Mem_Malloc
  PROVE  BootInv'
<1>1. BootTypeOK /\ pc = "ETH_Mem_Malloc" /\ cable' = cable /\ k \in 1 .. 5
  BY DEF BootInv, BootTypeOK, ETH_Mem_Malloc, Allocate
<1>2. CASE k <= 4
  <2>1. mymalloc(EthBufs[k]) /\ k' = k + 1 /\ pc' = pc /\ k \in 1 .. 4
        /\ EthBufs[k] \in Buffers
    BY <1>1, <1>2, BufferNames DEF ETH_Mem_Malloc, Allocate
  <2>2. ASSUME NEW y \in Buffers, Assigned(y)' PROVE Assigned(y) \/ y = EthBufs[k]
    <3>1. PICK i \in 1 .. 4 : y = EthBufs[i] /\ i < k + 1
      BY <1>1, <2>1, <2>2 DEF Assigned
    <3>2. i < k \/ i = k
      BY <1>1, <3>1
    <3> QED BY <1>1, <3>1, <3>2 DEF Assigned
  <2>3. BuffersReady'
    BY <1>1, <2>1, <2>2, GrantKeeps
  <2>4. BootTypeOK'
    <3>1. k' \in 1 .. 5
      BY <2>1
    <3>2. runs' \in SUBSET Run /\ ptr' \in [Buffers -> Table \cup {FAIL}]
      BY <1>1, <2>1, MallocGrants
    <3> QED BY <1>1, <2>1, <3>1, <3>2 DEF BootTypeOK
  <2> QED BY <1>1, <2>1, <2>3, <2>4 DEF BootInv
<1>3. CASE ~(k <= 4) /\ \E x \in Elements(EthBufs) : ptr[x] = FAIL
  <2>1. pc' = "retry" /\ k' = 1 /\ ptr' = ptr /\ runs' \subseteq runs
    BY <1>3, BufferNames DEF ETH_Mem_Malloc, Allocate, FreeAll, Goto
  <2>2. BootTypeOK'
    BY <1>1, <2>1 DEF BootTypeOK
  <2> QED BY <2>1, <2>2, NoneAssigned DEF BootInv
<1>4. CASE ~(k <= 4) /\ ~(\E x \in Elements(EthBufs) : ptr[x] = FAIL)
  <2>1. pc' = "lwip_comm_mem_malloc" /\ k' = 1 /\ ptr' = ptr /\ runs' = runs
    BY <1>4, BufferNames DEF ETH_Mem_Malloc, Allocate, Goto
  <2>2. BootTypeOK'
    BY <1>1, <2>1 DEF BootTypeOK
  <2>3. \A i \in 1 .. 4 : ptr[EthBufs[i]] # FAIL
    BY <1>4, BufferNames
  <2>4. ASSUME NEW y \in Buffers, Assigned(y)' PROVE Assigned(y)
    <3>1. \E i \in 1 .. 4 : y = EthBufs[i]
      BY <2>1, <2>4 DEF Assigned
    <3>2. \A i \in 1 .. 4 : i < k
      BY <1>1, <1>4
    <3> QED BY <1>1, <3>1, <3>2 DEF Assigned
  <2>5. BuffersReady'
    BY <2>1, <2>4, SameBuffers
  <2> QED BY <2>1, <2>2, <2>3, <2>5 DEF BootInv
<1> QED BY <1>2, <1>3, <1>4

LEMMA MemAllocKeeps ==
  ASSUME BootInv, lwip_comm_mem_malloc
  PROVE  BootInv'
<1>1. BootTypeOK /\ pc = "lwip_comm_mem_malloc" /\ cable' = cable /\ k \in 1 .. 5
      /\ \A i \in 1 .. 4 : ptr[EthBufs[i]] # FAIL
  BY DEF BootInv, BootTypeOK, lwip_comm_mem_malloc, Allocate
<1>2. CASE k <= 2
  <2>1. mymalloc(MemBufs[k]) /\ k' = k + 1 /\ pc' = pc /\ k \in 1 .. 2
        /\ MemBufs[k] \in Buffers
    BY <1>1, <1>2, BufferNames DEF lwip_comm_mem_malloc, Allocate
  <2>2. ASSUME NEW y \in Buffers, Assigned(y)' PROVE Assigned(y) \/ y = MemBufs[k]
    <3>1. CASE \E i \in 1 .. 4 : y = EthBufs[i]
      BY <1>1, <3>1 DEF Assigned
    <3>2. CASE \E i \in 1 .. 2 : y = MemBufs[i] /\ i < k + 1
      <4>1. PICK i \in 1 .. 2 : y = MemBufs[i] /\ i < k + 1
        BY <3>2
      <4>2. i < k \/ i = k
        BY <1>1, <4>1
      <4> QED BY <1>1, <4>1, <4>2 DEF Assigned
    <3> QED BY <1>1, <2>1, <2>2, <3>1, <3>2 DEF Assigned
  <2>3. BuffersReady'
    BY <1>1, <2>1, <2>2, GrantKeeps
  <2>4. BootTypeOK'
    <3>1. k' \in 1 .. 5
      BY <2>1
    <3>2. runs' \in SUBSET Run /\ ptr' \in [Buffers -> Table \cup {FAIL}]
      BY <1>1, <2>1, MallocGrants
    <3> QED BY <1>1, <2>1, <3>1, <3>2 DEF BootTypeOK
  <2>5. \A i \in 1 .. 4 : ptr'[EthBufs[i]] # FAIL
    <3>1. \A i \in 1 .. 4 : EthBufs[i] \in Buffers \ {MemBufs[k]}
      BY <2>1, BufferNames
    <3> QED BY <1>1, <2>1, <3>1, MallocGrants
  <2> QED BY <1>1, <2>1, <2>3, <2>4, <2>5 DEF BootInv
<1>3. CASE ~(k <= 2) /\ \E x \in Elements(MemBufs) : ptr[x] = FAIL
  <2>1. pc' = "retry" /\ k' = 1 /\ ptr' = ptr /\ runs' \subseteq runs
    BY <1>3, BufferNames DEF lwip_comm_mem_malloc, Allocate, FreeAll, Goto
  <2>2. BootTypeOK'
    BY <1>1, <2>1 DEF BootTypeOK
  <2> QED BY <2>1, <2>2, NoneAssigned DEF BootInv
<1>4. CASE ~(k <= 2) /\ ~(\E x \in Elements(MemBufs) : ptr[x] = FAIL)
  <2>1. pc' = "link" /\ k' = 1 /\ ptr' = ptr /\ runs' = runs
    BY <1>4, BufferNames DEF lwip_comm_mem_malloc, Allocate, Goto
  <2>2. BootTypeOK'
    BY <1>1, <2>1 DEF BootTypeOK
  <2>3. \A i \in 1 .. 2 : ptr[MemBufs[i]] # FAIL
    BY <1>4, BufferNames
  <2>4. \A x \in Buffers : ptr[x] # FAIL
    BY <1>1, <2>3, BufferNames
  <2>5. ASSUME NEW y \in Buffers PROVE Assigned(y)
    <3>1. \A i \in 1 .. 2 : i < k
      BY <1>1, <1>4
    <3> QED BY <1>1, <3>1, BufferNames DEF Assigned
  <2>6. BuffersReady'
    BY <2>1, <2>4, <2>5, SameBuffers
  <2> QED BY <2>1, <2>2, <2>6 DEF BootInv
<1> QED BY <1>2, <1>3, <1>4

LEMMA BootStep == BootInv /\ [Next]_vars => BootInv'
<1> SUFFICES ASSUME BootInv, [Next]_vars PROVE BootInv'
  OBVIOUS
<1>1. CASE ETH_Mem_Malloc \/ lwip_comm_mem_malloc
  BY <1>1, EthAllocKeeps, MemAllocKeeps
<1>2. CASE (LAN8720_Init("link", "autoneg") \/ LAN8720_Init("autoneg", "netif_add")
            \/ netif_add \/ Retry) /\ pc' \notin {"retry", "ETH_Mem_Malloc"}
  <2>1. /\ pc \in {"link", "autoneg", "netif_add"} /\ k' = 1
        /\ pc' \in {"autoneg", "netif_add", "done"} /\ UNCHANGED <<runs, ptr, cable>>
    BY <1>2 DEF LAN8720_Init, netif_add, Retry, Goto
  <2>2. BootTypeOK'
    BY <2>1 DEF BootInv, BootTypeOK
  <2>3. \A y \in Buffers : Assigned(y)
    BY <2>1 DEF Assigned
  <2>4. \A y \in Buffers : ptr[y] # FAIL
    BY <2>1 DEF BootInv, BuffersReady
  <2>5. BuffersReady'
    BY <2>1, <2>3, <2>4, SameBuffers
  <2> QED BY <2>1, <2>2, <2>5 DEF BootInv
<1>3. CASE (LAN8720_Init("link", "autoneg") \/ LAN8720_Init("autoneg", "netif_add")
            \/ netif_add \/ Retry) /\ pc' \in {"retry", "ETH_Mem_Malloc"}
  <2>1. /\ k' = 1 /\ UNCHANGED <<runs, ptr, cable>>
    BY <1>3 DEF LAN8720_Init, netif_add, Retry, Goto
  <2>2. BootTypeOK'
    BY <1>3, <2>1 DEF BootInv, BootTypeOK
  <2> QED BY <1>3, <2>1, <2>2, NoneAssigned DEF BootInv
<1>4. CASE Cable \/ UNCHANGED vars
  <2>1. UNCHANGED <<runs, ptr, pc, k>> /\ (cable' = ~cable \/ cable' = cable)
    BY <1>4 DEF Cable, vars
  <2>2. BootTypeOK'
    BY <2>1 DEF BootInv, BootTypeOK
  <2>3. BuffersReady'
    BY <2>1 DEF BootInv, BuffersReady, Assigned
  <2> QED BY <2>1, <2>2, <2>3 DEF BootInv
<1> QED BY <1>1, <1>2, <1>3, <1>4 DEF Next, main

-----------------------------------------------------------------------------
(* Start-up.                                                               *)

LEMMA StartAlwaysInv == StartSpec => [](BootInv /\ DhcpInv)
<1>1. StartInit => BootInv /\ DhcpInv
  <2> SUFFICES ASSUME StartInit PROVE BootInv
    BY DhcpInitially DEF StartInit
  <2>1. /\ runs = {} /\ ptr = [x \in Buffers |-> FAIL] /\ pc = "ETH_Mem_Malloc"
        /\ k = 1 /\ cable \in BOOLEAN
    BY DEF StartInit, Init
  <2>2. BootTypeOK
    BY <2>1 DEF BootTypeOK
  <2>3. \A y : ~Assigned(y)
    BY <2>1 DEF Assigned
  <2> QED BY <2>1, <2>2, <2>3 DEF BootInv, BuffersReady
<1>2. BootInv /\ DhcpInv /\ [StartNext]_startVars => (BootInv /\ DhcpInv)'
  <2>1. [StartNext]_startVars => [Next]_vars /\ [DhcpNext]_dhcpVars
    BY DEF StartNext, Booting, Networking, startVars
  <2> QED BY <2>1, BootStep, DhcpStep
<1> QED BY <1>1, <1>2, PTL DEF StartSpec

\* The variables of start-up and of the DHCP client keep their types, for
\* any pool and any leases; in particular dhcp->tries stays in its range.
THEOREM StartTypeCorrect == StartSpec => []StartTypeOK
<1>1. BootInv /\ DhcpInv => StartTypeOK
  BY DEF BootInv, DhcpInv, StartTypeOK
<1> QED BY <1>1, StartAlwaysInv, PTL

\* For any pool and any buffer sizes, and after any number of failed
\* attempts, the pointers of the current attempt are NULL or have a run of
\* their own, and the PHY is started with six buffers that are there.
THEOREM BuffersAreReady == StartSpec => []BuffersReady
<1>1. BootInv /\ DhcpInv => BuffersReady
  BY DEF BootInv
<1> QED BY <1>1, StartAlwaysInv, PTL

\* For any leases, and as long as no answer came in the middle of an
\* operation: in state BOUND the interface has the address that was offered
\* and is up.
THEOREM BoundLeaseIsSet == StartSpec => []BoundIsConfigured
<1>1. BootInv /\ DhcpInv => BoundIsConfigured
  BY DhcpAssumption DEF DhcpInv, LeaseOK, BoundIsConfigured, Granted
<1> QED BY <1>1, StartAlwaysInv, PTL

\* For any leases, and as long as no answer came in the middle of an
\* operation: an address that dhcp_arp_reply declined is not the interface's
\* before the server has acknowledged it again.
THEOREM DeclinedStaysUnused == StartSpec => []DeclinedNotUsed
<1>1. BootInv /\ DhcpInv => DeclinedNotUsed
  BY DEF DhcpInv, LeaseOK, DeclinedNotUsed
<1> QED BY <1>1, StartAlwaysInv, PTL
=============================================================================
