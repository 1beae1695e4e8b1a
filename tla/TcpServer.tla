------------------------------ MODULE TcpServer -----------------------------
(***************************************************************************)
(* The TCP half of project/LWIP/lwip_app/tcp_udp_server/tcp_udp_server.c   *)
(* together with the parts of lwIP that drive its callbacks.               *)
(*                                                                         *)
(* Two contexts run this code.  The Ethernet interrupt runs the whole lwIP *)
(* stack and every callback it makes, from the first byte of a frame to    *)
(* the last, without being preempted: each of its actions is one segment.  *)
(* The main loop scans the keys, broadcasts to all clients when KEY0 is    *)
(* pressed, and runs the TCP timers; the interrupt can come between any    *)
(* two of its steps.  There is no lock.                                    *)
(*                                                                         *)
(* A pcb sends through a send buffer of SndCap replies, held in at most    *)
(* two segments: one in flight (unacked) and one that collects further     *)
(* replies until the first is acknowledged (unsent; Nagle).  Segments come *)
(* from one pool of NumSegs.  A reply is one pbuf of the pool of PoolSize  *)
(* pbufs from which received frames are allocated too.  The client records *)
(* and m_tcpClientList are those of ClientList.                            *)
(***************************************************************************)
EXTENDS ClientList

CONSTANTS Pcbs,       \* MEMP_NUM_TCP_PCB control blocks
          NULL,
          SndCap,     \* TCP_SND_BUF, in replies
          NumSegs,    \* MEMP_NUM_TCP_SEG
          PoolSize,   \* PBUF_POOL_SIZE
          KeyEvents   \* what KEY_Scan may return: "NONE", "KEY0"

ASSUME ServerAssumption ==
  /\ NULL \notin Nodes /\ IsFiniteSet(Nodes) /\ IsFiniteSet(Pcbs)
  /\ SndCap \in Nat \ {0} /\ NumSegs \in Nat /\ PoolSize \in Nat
  /\ KeyEvents \subseteq {"NONE", "KEY0"}

VARIABLES
  state,    \* pcb->state
  arg,      \* pcb->callback_arg
  unacked,  \* replies (or SYN, FIN) in the segment in flight
  unsent,   \* replies (or FIN) in the segment behind it
  owner,    \* info->pcb
  sendBuf,  \* info->sendBuf # NULL
  pool,     \* free pbufs of the pool
  lost,     \* history: pool pbufs to which no pointer is left
  pc,       \* the main loop's place
  cursor,   \* the main loop's variable node
  missed    \* history: clients the running broadcast still has to serve

queues == <<unacked, unsent>>
bufs == <<sendBuf, pool, lost>>
main == <<pc, cursor>>
vars == <<state, arg, owner, queues, bufs, listVars, main, missed>>

\* States of a control block that has been through accept.
Accepted == {"ESTABLISHED", "CLOSE_WAIT", "LAST_ACK"}

States == {"CLOSED", "SYN_RCVD"} \cup Accepted

TypeOK ==
  /\ state \in [Pcbs -> States]
  /\ arg \in [Pcbs -> Nodes \cup {NULL}]
  /\ unacked \in [Pcbs -> Nat]
  /\ unsent \in [Pcbs -> Nat]
  /\ owner \in [Nodes -> Pcbs \cup {NULL}]
  /\ sendBuf \in [Nodes -> BOOLEAN]
  /\ ListTypeOK
  /\ pool \in Nat
  /\ lost \in Nat
  /\ pc \in {"key", "send", "next", "timer", "wild"}
  /\ cursor \in Cells
  /\ missed \in SUBSET Nodes

\* tcp_udp_test up to its main loop: an empty client list, a listening pcb.
\* (ClientList starts from any contents of unallocated memory; since it is
\* overwritten before it is read, one is enough here.)
Init ==
  /\ state = [p \in Pcbs |-> "CLOSED"]
  /\ arg = [p \in Pcbs |-> NULL]
  /\ unacked = [p \in Pcbs |-> 0]
  /\ unsent = [p \in Pcbs |-> 0]
  /\ owner = [i \in Nodes |-> NULL]
  /\ sendBuf = [i \in Nodes |-> FALSE]
  /\ list = list_init([prev |-> [c \in Cells |-> c],
                       next |-> [c \in Cells |-> c], len |-> 0])
  /\ heap = {}
  /\ order = <<>>
  /\ pool = PoolSize
  /\ lost = 0
  /\ pc = "key"
  /\ cursor = head
  /\ missed = {}

-----------------------------------------------------------------------------
(* Sending.                                                                *)

\* Segments taken from MEMP_TCP_SEG by all pcbs.
SegsInUse == Cardinality({p \in Pcbs : unacked[p] > 0})
             + Cardinality({p \in Pcbs : unsent[p] > 0})

\* A segment is at hand for p: its unsent one, or a new one.
SegAvailable(p) == unsent[p] > 0 \/ SegsInUse < NumSegs

\* tcp_write and tcp_output, or tcp_enqueue_flags and tcp_output: what is
\* sent joins the unsent segment, or starts one, which leaves at once when
\* nothing is in flight.
Enqueue(p) ==
  IF unsent[p] = 0 /\ unacked[p] = 0
  THEN unacked' = [unacked EXCEPT ![p] = 1] /\ UNCHANGED unsent
  ELSE unsent' = [unsent EXCEPT ![p] = @ + 1] /\ UNCHANGED unacked

\* The loop condition of tcp_sendBuf and the checks of tcp_write.
CanWrite(p) ==
  /\ p \in Pcbs
  /\ unacked[p] + unsent[p] < SndCap
  /\ state[p] \in {"SYN_RCVD", "ESTABLISHED", "CLOSE_WAIT"}
  /\ SegAvailable(p)

\* Mutant of tcp_sendData: pbuf_alloc never fails.
SendDataUnchecked(i, rx) ==
  LET written == CanWrite(owner[i])
  IN  /\ sendBuf' = [sendBuf EXCEPT ![i] = ~written]
      /\ pool' = IF ~written THEN pool - 1 ELSE pool
      /\ lost' = IF sendBuf[i] THEN lost + 1 ELSE lost
      /\ IF written THEN Enqueue(owner[i]) ELSE UNCHANGED queues

\* tcp_sendData: a pbuf from the pool replaces whatever sendBuf held; it
\* goes back to the pool if tcp_sendBuf can write it, and stays in sendBuf
\* if not.  rx is the number of pbufs the received frame holds meanwhile.
tcp_sendData(i, rx) ==
  LET got     == pool > rx
      written == got /\ CanWrite(owner[i])
  IN  /\ sendBuf' = [sendBuf EXCEPT ![i] = got /\ ~written]
      /\ pool' = IF got /\ ~written THEN pool - 1 ELSE pool
      /\ lost' = IF sendBuf[i] THEN lost + 1 ELSE lost
      /\ IF written THEN Enqueue(owner[i]) ELSE UNCHANGED queues

-----------------------------------------------------------------------------
(* Tearing a connection down.                                              *)

\* The clients still to be served once record i is freed: the client that
\* had it is gone, and if the broadcast stands at i it has lost its way.
Still(i) == IF i = cursor THEN {} ELSE missed \ {i}

\* Mutant of m_tcp_server_error: the record is freed but not unlinked.
ErrorForgetsList(i) ==
  IF i # NULL
  THEN /\ heap' = heap \ {i}
       /\ sendBuf' = [sendBuf EXCEPT ![i] = FALSE]
       /\ lost' = IF sendBuf[i] THEN lost + 1 ELSE lost
       /\ missed' = Still(i)
       /\ UNCHANGED <<pool, list, order>>
  ELSE UNCHANGED <<listVars, bufs, missed>>

\* m_tcp_server_error, when the pcb had been accepted: the record is taken
\* out of the list and freed, a reply it still held is not.
m_tcp_server_error(i) ==
  IF i # NULL
  THEN /\ Error(i)
       /\ sendBuf' = [sendBuf EXCEPT ![i] = FALSE]
       /\ lost' = IF sendBuf[i] THEN lost + 1 ELSE lost
       /\ missed' = Still(i)
       /\ UNCHANGED pool
  ELSE UNCHANGED <<listVars, bufs, missed>>

\* tcp_pcb_remove and memp_free: segments go back, the pcb becomes s.
Release(p, s, segs) ==
  /\ state' = [state EXCEPT ![p] = s]
  /\ arg' = [arg EXCEPT ![p] = NULL]
  /\ unacked' = [unacked EXCEPT ![p] = segs]
  /\ unsent' = [unsent EXCEPT ![p] = 0]
  /\ UNCHANGED owner

\* tcp_abandon, the TF_RESET branch of tcp_input and the removal in
\* tcp_slowtmr: the pcb is freed and its error callback called.
Abandon(p) ==
  /\ Release(p, "CLOSED", 0)
  /\ m_tcp_server_error(arg[p])

-----------------------------------------------------------------------------
(* Segments handled by the Ethernet interrupt.  A frame for which the pool *)
(* has no pbuf is dropped before lwIP sees it.                             *)

Frame == pool > 0 /\ UNCHANGED main

\* tcp_listen_input, a pcb free: the SYN|ACK takes a segment.
SynToFree(p) ==
  /\ Frame
  /\ state[p] = "CLOSED"
  /\ SegsInUse < NumSegs
  /\ Release(p, "SYN_RCVD", 1)
  /\ UNCHANGED <<listVars, bufs, missed>>

\* tcp_listen_input, no pcb free: tcp_alloc kills the connection it finds
\* oldest and takes its pcb; without a segment for the SYN|ACK the new pcb
\* is abandoned at once.
SynByKilling(p) ==
  /\ Frame
  /\ \A q \in Pcbs : state[q] # "CLOSED"
  /\ IF SegsInUse < NumSegs \/ unacked[p] > 0
     THEN Release(p, "SYN_RCVD", 1)
     ELSE Release(p, "CLOSED", 0)
  /\ m_tcp_server_error(arg[p])

\* Mutant of m_tcp_server_accept: info->pcb is not set.
AcceptForgetsPcb(p, i) ==
  /\ Frame
  /\ state[p] = "SYN_RCVD"
  /\ Accept(i)
  /\ state' = [state EXCEPT ![p] = "ESTABLISHED"]
  /\ arg' = [arg EXCEPT ![p] = i]
  /\ unacked' = [unacked EXCEPT ![p] = 0]
  /\ UNCHANGED <<owner, unsent, bufs, missed>>

\* The ACK of the SYN|ACK: m_tcp_server_accept.
m_tcp_server_accept(p, i) ==
  /\ Frame
  /\ state[p] = "SYN_RCVD"
  /\ Accept(i)
  /\ state' = [state EXCEPT ![p] = "ESTABLISHED"]
  /\ arg' = [arg EXCEPT ![p] = i]
  /\ owner' = [owner EXCEPT ![i] = p]
  /\ unacked' = [unacked EXCEPT ![p] = unsent[p]]
  /\ unsent' = [unsent EXCEPT ![p] = 0]
  /\ sendBuf' = [sendBuf EXCEPT ![i] = FALSE]
  /\ UNCHANGED <<pool, lost, missed>>

\* ... when mem_malloc has nothing left: ERR_MEM, lwIP aborts the pcb.
AcceptFails(p) ==
  /\ Frame
  /\ state[p] = "SYN_RCVD"
  /\ heap = Nodes
  /\ Abandon(p)

\* m_tcp_server_recv with data: the server replies "Hello TCP".
RecvData(p) ==
  /\ Frame
  /\ state[p] = "ESTABLISHED"
  /\ tcp_sendData(arg[p], 1)
  /\ UNCHANGED <<state, arg, owner, listVars, missed>>

\* Mutant of m_tcp_server_recv: the record is freed when the client leaves,
\* as if lwIP had finished with the pcb when tcp_close returns.
RecvFinFrees(p) ==
  /\ Frame
  /\ state[p] = "ESTABLISHED"
  /\ Error(arg[p])
  /\ missed' = missed \ {arg[p]}
  /\ IF SegAvailable(p)
     THEN /\ state' = [state EXCEPT ![p] = "LAST_ACK"]
          /\ IF unsent[p] > 0 THEN UNCHANGED queues ELSE Enqueue(p)
     ELSE state' = [state EXCEPT ![p] = "CLOSE_WAIT"] /\ UNCHANGED queues
  /\ UNCHANGED <<arg, owner, bufs>>

\* m_tcp_server_recv with p = NULL: the record leaves the list and
\* tcp_close sends FIN; when there is no segment for it the pcb stays in
\* CLOSE_WAIT, because nobody looks at what tcp_close returned.
RecvFin(p) ==
  /\ Frame
  /\ state[p] = "ESTABLISHED"
  /\ Disconnect(arg[p])
  /\ missed' = missed \ {arg[p]}
  /\ IF SegAvailable(p)
     THEN /\ state' = [state EXCEPT ![p] = "LAST_ACK"]
          /\ IF unsent[p] > 0 THEN UNCHANGED queues ELSE Enqueue(p)
     ELSE state' = [state EXCEPT ![p] = "CLOSE_WAIT"] /\ UNCHANGED queues
  /\ UNCHANGED <<arg, owner, bufs>>

\* Mutant of m_tcp_server_sent: sendBuf still points to the freed pbuf.
AckedKeepsBuf(p) ==
  LET written == sendBuf[arg[p]] /\ state[p] # "LAST_ACK"
  IN  /\ Frame
      /\ state[p] \in Accepted
      /\ unacked[p] > 0
      /\ state[p] = "LAST_ACK" => unsent[p] > 0
      /\ unsent' = [unsent EXCEPT ![p] = 0]
      /\ unacked' = [unacked EXCEPT ![p] = IF written THEN unsent[p] + 1
                                           ELSE unsent[p]]
      /\ pool' = IF written THEN pool + 1 ELSE pool
      /\ UNCHANGED <<state, arg, owner, listVars, sendBuf, lost, missed>>

\* An ACK of the segment in flight: what was unsent leaves, and
\* m_tcp_server_sent tries a reply that is still in sendBuf; tcp_write
\* refuses it once the pcb is in LAST_ACK.
Acked(p) ==
  LET i       == arg[p]
      written == sendBuf[i] /\ state[p] # "LAST_ACK"
  IN  /\ Frame
      /\ state[p] \in Accepted
      /\ unacked[p] > 0
      /\ state[p] = "LAST_ACK" => unsent[p] > 0
      /\ unsent' = [unsent EXCEPT ![p] = 0]
      /\ unacked' = [unacked EXCEPT ![p] = IF written THEN unsent[p] + 1
                                           ELSE unsent[p]]
      /\ sendBuf' = [sendBuf EXCEPT ![i] = @ /\ ~written]
      /\ pool' = IF written THEN pool + 1 ELSE pool
      /\ UNCHANGED <<state, arg, owner, listVars, lost, missed>>

\* The ACK of our FIN: TF_CLOSED.  tcp_close has set TF_RXCLOSED, so the
\* error callback is not called and nobody frees the record.
LastAck(p) ==
  /\ Frame
  /\ state[p] = "LAST_ACK"
  /\ Release(p, "CLOSED", 0)
  /\ UNCHANGED <<listVars, bufs, missed>>

\* An acceptable RST.
Rst(p) ==
  /\ Frame
  /\ state[p] # "CLOSED"
  /\ Abandon(p)

EthIrq ==
  \E p \in Pcbs :
    \/ SynToFree(p)
    \/ SynByKilling(p)
    \/ \E i \in Nodes : m_tcp_server_accept(p, i)
    \/ AcceptFails(p)
    \/ RecvData(p)
    \/ RecvFin(p)
    \/ Acked(p)
    \/ LastAck(p)
    \/ Rst(p)

-----------------------------------------------------------------------------
(* The main loop.                                                          *)

\* Where the for loop goes with node = c.
LoopTest(c) == cursor' = c /\ pc' = IF c = head THEN "timer" ELSE "send"

\* KEY_Scan; on KEY0, list_size and the loop's initialisation.
KeyScan(k) ==
  /\ pc = "key"
  /\ IF k = "KEY0" /\ list_size(list) # 0
     THEN LoopTest(list.next[head]) /\ missed' = Members(order)
     ELSE pc' = "timer" /\ UNCHANGED <<cursor, missed>>
  /\ UNCHANGED <<state, arg, owner, queues, bufs, listVars>>

\* The loop's body: tcp_sendData to node.
BroadcastSend ==
  /\ pc = "send"
  /\ cursor \in heap
  /\ tcp_sendData(cursor, 0)
  /\ missed' = missed \ {cursor}
  /\ pc' = "next"
  /\ UNCHANGED <<state, arg, owner, listVars, cursor>>

\* Mutant of BroadcastNext: the loop goes backwards.
BroadcastPrev ==
  /\ pc = "next"
  /\ cursor \in heap
  /\ LoopTest(list.prev[cursor])
  /\ UNCHANGED <<state, arg, owner, queues, bufs, listVars, missed>>

\* node = node->ptr.next.
BroadcastNext ==
  /\ pc = "next"
  /\ cursor \in heap
  /\ LoopTest(list.next[cursor])
  /\ UNCHANGED <<state, arg, owner, queues, bufs, listVars, missed>>

\* node has been freed: what is read and written from here on is whatever
\* the heap has put there, and the model follows the program no further.
BroadcastWild ==
  /\ pc \in {"send", "next"}
  /\ cursor \notin heap
  /\ pc' = "wild"
  /\ UNCHANGED <<state, arg, owner, queues, bufs, listVars, cursor, missed>>

\* Mutant of tcp_slowtmr: only half-open connections time out.
SlowTmrSynOnly(p) ==
  /\ pc = "timer"
  /\ state[p] = "SYN_RCVD"
  /\ Abandon(p)
  /\ UNCHANGED main

\* tcp_slowtmr finds that p has waited too long: in SYN_RCVD, in LAST_ACK,
\* or for an acknowledgement.
SlowTmrRemove(p) ==
  /\ pc = "timer"
  /\ \/ state[p] \in {"SYN_RCVD", "LAST_ACK"}
     \/ state[p] # "CLOSED" /\ unacked[p] > 0
  /\ Abandon(p)
  /\ UNCHANGED main

\* tcp_slowtmr polls p: m_tcp_server_poll.
m_tcp_server_poll(p) ==
  /\ pc = "timer"
  /\ state[p] \in Accepted
  /\ IF arg[p] = NULL THEN Abandon(p)
     ELSE UNCHANGED <<state, arg, owner, queues, bufs, listVars, missed>>
  /\ UNCHANGED main

\* lwip_periodic_handle returns; next turn of the loop.
TimerDone ==
  /\ pc = "timer"
  /\ pc' = "key"
  /\ UNCHANGED <<state, arg, owner, queues, bufs, listVars, cursor, missed>>

MainLoop ==
  \/ \E k \in KeyEvents : KeyScan(k)
  \/ BroadcastSend
  \/ BroadcastNext
  \/ BroadcastWild
  \/ TimerDone

Timers == \E p \in Pcbs : SlowTmrRemove(p) \/ m_tcp_server_poll(p)

Next == pc # "wild" /\ (EthIrq \/ MainLoop \/ Timers)

Spec == Init /\ [][Next]_vars

\* The main loop keeps running, and a pcb that stays in a state with a time
\* limit is found by some later pass of tcp_slowtmr: TIM3 advances the clock
\* every 10 ms and lwip_periodic_handle runs tcp_tmr every 250 ms of it.
FairSpec ==
  /\ Spec
  /\ WF_vars(pc # "wild" /\ MainLoop)
  /\ \A p \in Pcbs : SF_vars(pc # "wild" /\ SlowTmrRemove(p))

-----------------------------------------------------------------------------
(* What holds.                                                             *)

\* Every callback gets a record that is allocated and belongs to its own
\* connection, and no two connections share one: recv, sent, poll and err
\* dereference or free arg without asking, in either context, and a record
\* freed by one of them must not be reachable from another pcb.
ArgsAreLive ==
  \A p \in Pcbs : IF state[p] \in Accepted
                  THEN arg[p] \in heap /\ owner[arg[p]] = p
                  ELSE arg[p] = NULL

\* The listed clients are exactly the established connections: a client is
\* in the list from accept to FIN or error, whichever context tears it down,
\* and a killed connection never stays behind.
ListIsEstablished ==
  Members(order) = {arg[p] : p \in {q \in Pcbs : state[q] = "ESTABLISHED"}}

\* No pbuf is freed twice and no segment is conjured up: the pool's pbufs
\* are free, pending in a record, or lost, and the segments in use never
\* exceed the pool's, whatever order of writes, ACKs, FINs and kills.
ResourcesBalanced ==
  /\ pool + Cardinality({i \in Nodes : sendBuf[i]}) + lost = PoolSize
  /\ SegsInUse <= NumSegs

\* The connections behind the list, read through its own pointers.
Connections == [i \in 1..list.len |-> owner[Contents(list)[i]]]

ConnQueue == INSTANCE ClientQueue WITH Client <- Pcbs, queue <- Connections

\* Seen through info->pcb, the list is the queue of connections in the
\* order they were accepted: no pcb is in it twice even though pcbs and
\* records are recycled, and each step takes in or lets go at most one.
ServesInOrder == ConnQueue!Spec

\* A broadcast that is over has served every client that was connected from
\* its beginning to its end, although the interrupt appends, removes and
\* frees other clients' records between any two of its steps; unless it
\* frees the very record at which the broadcast stands.
BroadcastReachesAll == pc \in {"key", "timer"} => missed = {}

\* A connection that waits for its last ACK does not hold its pcb for ever:
\* the ACK, a RST, a newer client or tcp_slowtmr takes it, as long as the
\* main loop gets to the timers at all.
LastAckEnds ==
  []<>(pc = "timer") =>
    \A p \in Pcbs : state[p] = "LAST_ACK" ~> state[p] # "LAST_ACK"

-----------------------------------------------------------------------------
(* What the documentation says and the code does not do.                   *)

\* The main loop's "while(1)" goes round: a broadcast ends, at the latest
\* when all the clients have gone and no new ones come.
MainLoopReturns == <>[](list.len = 0) => []<>(pc \in {"key", "wild"})

\* A record is allocated only as long as a connection refers to it.
NoRecordLeaked == \A i \in heap : \E p \in Pcbs : arg[p] = i
=============================================================================
