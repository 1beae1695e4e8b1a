-------------------------- MODULE TcpServerProofs ---------------------------
(***************************************************************************)
(* For any number of control blocks, client records, segments and pbufs:   *)
(* callbacks only ever get live records, the client list is exactly the    *)
(* established connections and their queue in the order of arrival, a      *)
(* broadcast misses nobody, and the pools are counted exactly.             *)
(*                                                                         *)
(* The list part rests on ClientListProofs: every step of the server is a  *)
(* step of ClientList or leaves the list alone.  What is added here is the *)
(* link between pcbs and records.  The two are inductive only together:    *)
(* that an error callback unlinks the right record needs ArgsAreLive, and  *)
(* that the freed record is not another connection's needs owner, the      *)
(* inverse of arg.                                                         *)
(***************************************************************************)
EXTENDS TcpServer, ClientListProofs, FiniteSetTheorems

Inv == TypeOK /\ ListIInv /\ ArgsAreLive /\ ListIsEstablished

\* The invariant without what concerns the main loop and the buffers: all
\* that the steps below disturb in a way that is not obvious.
PcbType ==
  /\ state \in [Pcbs -> States]
  /\ arg \in [Pcbs -> Nodes \cup {NULL}]
  /\ unacked \in [Pcbs -> Nat]
  /\ unsent \in [Pcbs -> Nat]
  /\ owner \in [Nodes -> Pcbs \cup {NULL}]

BufType ==
  /\ sendBuf \in [Nodes -> BOOLEAN]
  /\ pool \in Nat
  /\ lost \in Nat

MainType ==
  /\ pc \in {"key", "send", "next", "timer", "wild"}
  /\ cursor \in Cells
  /\ missed \in SUBSET Nodes

\* TypeOK in its parts.
LEMMA TypeParts == TypeOK <=> PcbType /\ BufType /\ ListTypeOK /\ MainType
BY DEF TypeOK, PcbType, BufType, MainType

\* The invariant of the next state, from its parts.
LEMMA InvParts ==
  ASSUME PcbType', BufType', MainType', ListIInv', ArgsAreLive', ListIsEstablished'
  PROVE  Inv'
<1>1. ListTypeOK'
  BY DEF ListIInv
<1>2. TypeOK'
  BY <1>1 DEF TypeOK, PcbType, BufType, MainType
<1> QED BY <1>2 DEF Inv

\* The server starts as ClientList does.
LEMMA InitInv == Init => Inv
<1> SUFFICES ASSUME Init PROVE Inv
  OBVIOUS
<1> DEFINE id == [c \in Cells |-> c]
<1>1. id \in [Cells -> Cells]
  OBVIOUS
<1>2. list = list_init([prev |-> id, next |-> id, len |-> 0])
  BY DEF Init
<1>3. ListInit
  BY <1>1, <1>2 DEF Init, ListInit
<1>4. ListIInv
  BY <1>3, ListInitIInv
<1>5. PcbType /\ BufType /\ MainType
  BY ServerAssumption DEF Init, PcbType, BufType, MainType, States, Cells
<1>6. TypeOK
  BY <1>4, <1>5, TypeParts DEF ListIInv
<1>7. ArgsAreLive
  BY DEF Init, ArgsAreLive, Accepted
<1>8. ListIsEstablished
  <2>1. Members(order) = {}
    BY DEF Init, Members
  <2>2. {q \in Pcbs : state[q] = "ESTABLISHED"} = {}
    BY DEF Init
  <2> QED BY <2>1, <2>2 DEF ListIsEstablished
<1> QED BY <1>4, <1>6, <1>7, <1>8 DEF Inv

\* Two pcbs never hold the same record.
LEMMA ArgsDistinct ==
  ASSUME Inv, NEW p \in Pcbs, NEW q \in Pcbs, p # q, state[q] \in Accepted
  PROVE  arg[p] # arg[q]
<1>1. heap \subseteq Nodes /\ NULL \notin Nodes
  BY ServerAssumption DEF Inv, TypeOK, ListTypeOK
<1>2. arg[q] \in heap /\ owner[arg[q]] = q
  BY DEF Inv, ArgsAreLive
<1>3. CASE state[p] \in Accepted
  BY <1>2, <1>3 DEF Inv, ArgsAreLive
<1>4. CASE state[p] \notin Accepted
  BY <1>1, <1>2, <1>4 DEF Inv, ArgsAreLive
<1> QED BY <1>3, <1>4

\* The error callback is a step of ClientList: it takes the record of its
\* pcb, and no other, out of the list and off the heap.
LEMMA ErrorStep ==
  ASSUME Inv, NEW p \in Pcbs, m_tcp_server_error(arg[p])
  PROVE  /\ ListIInv'
         /\ heap' = heap \ {arg[p]}
         /\ Members(order') = Members(order) \ {arg[p]}
         /\ BufType' /\ missed' \subseteq missed
<1>1. /\ arg[p] \in Nodes \cup {NULL} /\ NULL \notin Nodes
      /\ heap \subseteq Nodes /\ Members(order) \subseteq heap
      /\ ListIInv /\ BufType
  BY ServerAssumption, TypeParts
     DEF Inv, TypeOK, ListTypeOK, ListIInv, HeapConsistent
<1>2. CASE arg[p] = NULL
  <2>1. UNCHANGED <<listVars, bufs, missed>>
    BY <1>2 DEF m_tcp_server_error
  <2>2. ListIInv'
    BY <1>1, <2>1, ListNextIInv
  <2>3. heap' = heap /\ order' = order /\ BufType' /\ missed' = missed
    BY <1>1, <2>1 DEF listVars, bufs, BufType
  <2> QED BY <1>1, <1>2, <2>2, <2>3
<1>3. CASE arg[p] # NULL
  <2>1. /\ Error(arg[p]) /\ arg[p] \in Nodes
        /\ sendBuf' = [sendBuf EXCEPT ![arg[p]] = FALSE]
        /\ lost' = IF sendBuf[arg[p]] THEN lost + 1 ELSE lost
        /\ pool' = pool /\ missed' \subseteq missed
    BY <1>1, <1>3 DEF m_tcp_server_error, Still
  <2>2. ListNext
    BY <2>1 DEF ListNext
  <2>3. ListIInv'
    BY <1>1, <2>2, ListNextIInv
  <2>4. BufType'
    BY <1>1, <2>1 DEF BufType
  <2>5. /\ arg[p] \in heap /\ heap' = heap \ {arg[p]}
        /\ OrderAfterRemove(arg[p], order')
    BY <2>1 DEF Error
  <2>6. Members(order') = Members(order) \ {arg[p]}
    BY <1>1, <2>5, RemoveStep
  <2> QED BY <2>1, <2>3, <2>4, <2>5, <2>6
<1> QED BY <1>2, <1>3

\* Releasing a pcb whose record, if it was listed, has been unlinked keeps
\* the link between pcbs and records.
LEMMA ReleaseStep ==
  ASSUME Inv, NEW p \in Pcbs, NEW s \in {"CLOSED", "SYN_RCVD"}, NEW k \in Nat,
         Release(p, s, k),
         heap \ {arg[p]} \subseteq heap',
         Members(order') = Members(order) \ {arg[p]}
  PROVE  PcbType' /\ ArgsAreLive' /\ ListIsEstablished'
<1>1. PcbType
  BY TypeParts DEF Inv
<1>2. /\ state' = [state EXCEPT ![p] = s] /\ arg' = [arg EXCEPT ![p] = NULL]
      /\ unacked' = [unacked EXCEPT ![p] = k]
      /\ unsent' = [unsent EXCEPT ![p] = 0] /\ owner' = owner
  BY DEF Release
<1>3. PcbType'
  BY <1>1, <1>2 DEF PcbType, States
<1>4. /\ state'[p] \notin Accepted /\ state'[p] # "ESTABLISHED" /\ arg'[p] = NULL
      /\ \A q \in Pcbs : q # p => state'[q] = state[q] /\ arg'[q] = arg[q]
  BY <1>1, <1>2 DEF PcbType, Accepted
<1>5. ArgsAreLive'
  <2> SUFFICES ASSUME NEW q \in Pcbs
               PROVE  IF state'[q] \in Accepted
                      THEN arg'[q] \in heap' /\ owner'[arg'[q]] = q
                      ELSE arg'[q] = NULL
    BY DEF ArgsAreLive
  <2>1. CASE q = p
    BY <1>4, <2>1
  <2>2. CASE q # p /\ state[q] \in Accepted
    <3>1. arg[q] \in heap /\ owner[arg[q]] = q
      BY <2>2 DEF Inv, ArgsAreLive
    <3>2. arg[q] # arg[p]
      BY <2>2, ArgsDistinct
    <3> QED BY <1>2, <1>4, <2>2, <3>1, <3>2
  <2>3. CASE q # p /\ state[q] \notin Accepted
    BY <1>4, <2>3 DEF Inv, ArgsAreLive
  <2> QED BY <2>1, <2>2, <2>3
<1>6. ListIsEstablished'
  <2>1. \A q \in Pcbs : state'[q] = "ESTABLISHED"
          <=> q # p /\ state[q] = "ESTABLISHED"
    BY <1>4
  <2>2. \A q \in Pcbs : q # p /\ state[q] = "ESTABLISHED"
          => arg'[q] = arg[q] /\ arg[q] # arg[p]
    BY <1>4, ArgsDistinct DEF Accepted
  <2>3. Members(order) = {arg[q] : q \in {r \in Pcbs : state[r] = "ESTABLISHED"}}
    BY DEF Inv, ListIsEstablished
  <2>4. ASSUME NEW x
        PROVE  x \in Members(order')
               <=> \E q \in Pcbs : state'[q] = "ESTABLISHED" /\ x = arg'[q]
    <3>1. x \in Members(order') <=> x \in Members(order) /\ x # arg[p]
      OBVIOUS
    <3>2. x \in Members(order)
            <=> \E q \in Pcbs : state[q] = "ESTABLISHED" /\ x = arg[q]
      BY <2>3
    <3> QED BY <2>1, <2>2, <3>1, <3>2
  <2> QED BY <2>4 DEF ListIsEstablished
<1> QED BY <1>3, <1>5, <1>6

\* Killing, resetting or timing out a connection, in either context.
LEMMA AbandonStep ==
  ASSUME Inv, NEW p \in Pcbs, NEW s \in {"CLOSED", "SYN_RCVD"}, NEW k \in Nat,
         Release(p, s, k), m_tcp_server_error(arg[p]), UNCHANGED main
  PROVE  Inv'
<1>1. /\ ListIInv' /\ heap' = heap \ {arg[p]}
      /\ Members(order') = Members(order) \ {arg[p]}
      /\ BufType' /\ missed' \subseteq missed
  BY ErrorStep
<1>2. PcbType' /\ ArgsAreLive' /\ ListIsEstablished'
  BY <1>1, ReleaseStep
<1>3. MainType'
  BY <1>1, TypeParts DEF Inv, MainType, main
<1> QED BY <1>1, <1>2, <1>3, InvParts

\* Queueing something keeps the queues' types.
LEMMA EnqueueType ==
  ASSUME PcbType, NEW p \in Pcbs, Enqueue(p)
  PROVE  unacked' \in [Pcbs -> Nat] /\ unsent' \in [Pcbs -> Nat]
<1>1. CASE unsent[p] = 0 /\ unacked[p] = 0
  BY <1>1 DEF PcbType, Enqueue
<1>2. CASE ~(unsent[p] = 0 /\ unacked[p] = 0)
  BY <1>2 DEF PcbType, Enqueue
<1> QED BY <1>1, <1>2

\* tcp_sendData changes only buffers and queues, and keeps their types.
LEMMA SendDataType ==
  ASSUME PcbType, BufType, NEW i \in Nodes, NEW rx \in Nat, tcp_sendData(i, rx)
  PROVE  /\ unacked' \in [Pcbs -> Nat] /\ unsent' \in [Pcbs -> Nat]
         /\ BufType'
<1> DEFINE got     == pool > rx
           written == got /\ CanWrite(owner[i])
<1>1. /\ sendBuf' = [sendBuf EXCEPT ![i] = got /\ ~written]
      /\ pool' = IF got /\ ~written THEN pool - 1 ELSE pool
      /\ lost' = IF sendBuf[i] THEN lost + 1 ELSE lost
      /\ IF written THEN Enqueue(owner[i]) ELSE UNCHANGED queues
  BY DEF tcp_sendData
<1>2. unacked' \in [Pcbs -> Nat] /\ unsent' \in [Pcbs -> Nat]
  <2>1. CASE written
    <3>1. owner[i] \in Pcbs
      BY <2>1 DEF CanWrite
    <3> QED BY <1>1, <2>1, <3>1, EnqueueType
  <2>2. CASE ~written
    BY <1>1, <2>2 DEF PcbType, queues
  <2> QED BY <2>1, <2>2
<1>3. sendBuf' \in [Nodes -> BOOLEAN]
  <2>1. (got /\ ~written) \in BOOLEAN
    BY DEF CanWrite
  <2> HIDE DEF got, written
  <2> QED BY <1>1, <2>1 DEF BufType
<1>4. pool' \in Nat
  <2>1. got => pool - 1 \in Nat
    BY DEF BufType
  <2> HIDE DEF got, written
  <2> QED BY <1>1, <2>1 DEF BufType
<1>5. lost' \in Nat
  BY <1>1 DEF BufType
<1> QED BY <1>2, <1>3, <1>4, <1>5 DEF BufType

\* Accepting gives the new connection a record of its own.
LEMMA AcceptPreserves ==
  ASSUME Inv, NEW p \in Pcbs, NEW i \in Nodes, m_tcp_server_accept(p, i)
  PROVE  Inv'
<1>1. /\ state[p] = "SYN_RCVD" /\ Accept(i) /\ UNCHANGED main
      /\ state' = [state EXCEPT ![p] = "ESTABLISHED"]
      /\ arg' = [arg EXCEPT ![p] = i]
      /\ owner' = [owner EXCEPT ![i] = p]
      /\ unacked' = [unacked EXCEPT ![p] = unsent[p]]
      /\ unsent' = [unsent EXCEPT ![p] = 0]
      /\ sendBuf' = [sendBuf EXCEPT ![i] = FALSE]
      /\ pool' = pool /\ lost' = lost /\ missed' = missed
  BY DEF m_tcp_server_accept, Frame
<1>2. PcbType /\ BufType /\ MainType /\ ListIInv
  BY TypeParts DEF Inv
<1>3. ListIInv'
  BY <1>1, <1>2, ListNextIInv DEF ListNext
<1>4. /\ i \notin heap /\ heap' = heap \cup {i}
      /\ Members(order') = Members(order) \cup {i}
  BY <1>1, <1>2, AppendMembers DEF Accept, ListIInv, ListTypeOK
<1>5. PcbType' /\ BufType' /\ MainType'
  BY <1>1, <1>2 DEF PcbType, BufType, MainType, main, States, Accepted
<1>6. /\ state'[p] = "ESTABLISHED" /\ arg'[p] = i /\ owner'[i] = p
      /\ \A q \in Pcbs : q # p => state'[q] = state[q] /\ arg'[q] = arg[q]
      /\ \A j \in Nodes : j # i => owner'[j] = owner[j]
  BY <1>1, <1>2 DEF PcbType
<1>7. ArgsAreLive'
  <2> SUFFICES ASSUME NEW q \in Pcbs
               PROVE  IF state'[q] \in Accepted
                      THEN arg'[q] \in heap' /\ owner'[arg'[q]] = q
                      ELSE arg'[q] = NULL
    BY DEF ArgsAreLive
  <2>1. CASE q = p
    BY <1>4, <1>6, <2>1 DEF Accepted
  <2>2. CASE q # p /\ state[q] \in Accepted
    <3>1. arg[q] \in heap /\ owner[arg[q]] = q /\ heap \subseteq Nodes
      BY <1>2, <2>2 DEF Inv, ArgsAreLive, ListIInv, ListTypeOK
    <3> QED BY <1>4, <1>6, <2>2, <3>1
  <2>3. CASE q # p /\ state[q] \notin Accepted
    BY <1>6, <2>3 DEF Inv, ArgsAreLive
  <2> QED BY <2>1, <2>2, <2>3
<1>8. ListIsEstablished'
  <2>1. ASSUME NEW x
        PROVE  x \in Members(order')
               <=> \E q \in Pcbs : state'[q] = "ESTABLISHED" /\ x = arg'[q]
    <3>1. x \in Members(order)
            <=> \E q \in Pcbs : state[q] = "ESTABLISHED" /\ x = arg[q]
      BY DEF Inv, ListIsEstablished
    <3> QED BY <1>1, <1>4, <1>6, <3>1
  <2> QED BY <2>1 DEF ListIsEstablished
<1> QED BY <1>3, <1>5, <1>7, <1>8, InvParts

\* A FIN unlinks the record of the connection that leaves ESTABLISHED; the
\* pcb keeps it as its argument.
LEMMA RecvFinPreserves ==
  ASSUME Inv, NEW p \in Pcbs, RecvFin(p)
  PROVE  Inv'
<1>1. /\ state[p] = "ESTABLISHED" /\ Disconnect(arg[p]) /\ UNCHANGED main
      /\ missed' = missed \ {arg[p]} /\ UNCHANGED <<arg, owner, bufs>>
  BY DEF RecvFin, Frame
<1>2. PcbType /\ BufType /\ MainType /\ ListIInv
  BY TypeParts DEF Inv
<1>3. arg[p] \in heap /\ arg[p] \in Nodes /\ heap' = heap
  BY <1>1, <1>2 DEF Disconnect, ListIInv, ListTypeOK
<1>4. ListIInv'
  BY <1>1, <1>2, <1>3, ListNextIInv DEF ListNext
<1>5. Members(order') = Members(order) \ {arg[p]}
  BY <1>1, <1>2, <1>3, RemoveStep DEF Disconnect
<1>6. PICK s \in {"LAST_ACK", "CLOSE_WAIT"} : state' = [state EXCEPT ![p] = s]
  BY DEF RecvFin
<1>7. unacked' \in [Pcbs -> Nat] /\ unsent' \in [Pcbs -> Nat]
  <2>1. Enqueue(p) \/ UNCHANGED queues
    BY DEF RecvFin
  <2> QED BY <1>2, <2>1, EnqueueType DEF PcbType, queues
<1>8. PcbType' /\ BufType' /\ MainType'
  BY <1>1, <1>2, <1>6, <1>7
     DEF PcbType, BufType, MainType, main, bufs, States, Accepted
<1>9. /\ state'[p] \in Accepted /\ state'[p] # "ESTABLISHED"
      /\ \A q \in Pcbs : q # p => state'[q] = state[q]
      /\ arg' = arg /\ owner' = owner
  BY <1>1, <1>2, <1>6 DEF PcbType, Accepted
<1>10. ArgsAreLive'
  BY <1>1, <1>3, <1>9 DEF Inv, ArgsAreLive, Accepted
<1>11. ListIsEstablished'
  <2>1. \A q \in Pcbs : q # p /\ state[q] = "ESTABLISHED" => arg[q] # arg[p]
    BY ArgsDistinct DEF Accepted
  <2>2. ASSUME NEW x
        PROVE  x \in Members(order')
               <=> \E q \in Pcbs : state'[q] = "ESTABLISHED" /\ x = arg'[q]
    <3>1. x \in Members(order)
            <=> \E q \in Pcbs : state[q] = "ESTABLISHED" /\ x = arg[q]
      BY DEF Inv, ListIsEstablished
    <3> QED BY <1>1, <1>5, <1>9, <2>1, <3>1
  <2> QED BY <2>2 DEF ListIsEstablished
<1> QED BY <1>4, <1>8, <1>10, <1>11, InvParts

\* Steps that leave pcbs, records and list alone preserve the invariant if
\* they preserve the types of the rest.
LEMMA OtherStep ==
  ASSUME Inv, UNCHANGED <<state, arg, owner, listVars>>,
         unacked' \in [Pcbs -> Nat], unsent' \in [Pcbs -> Nat],
         BufType', MainType'
  PROVE  Inv'
<1>1. PcbType'
  BY TypeParts DEF Inv, PcbType
<1>2. ListIInv'
  <2>1. ListIInv /\ [ListNext]_listVars
    BY DEF Inv, listVars
  <2> QED BY <2>1, ListNextIInv
<1>3. ArgsAreLive'
  BY DEF Inv, ArgsAreLive, listVars, Accepted
<1>4. ListIsEstablished'
  BY DEF Inv, ListIsEstablished, listVars, Members
<1> QED BY <1>1, <1>2, <1>3, <1>4, InvParts

\* Every segment the interrupt handles preserves the invariant.
LEMMA EthIrqInv ==
  ASSUME Inv, EthIrq
  PROVE  Inv'
<1>1. PICK p \in Pcbs :
        \/ SynToFree(p) \/ SynByKilling(p)
        \/ \E i \in Nodes : m_tcp_server_accept(p, i)
        \/ AcceptFails(p) \/ RecvData(p) \/ RecvFin(p) \/ Acked(p)
        \/ LastAck(p) \/ Rst(p)
  BY DEF EthIrq
<1>2. PcbType /\ BufType /\ MainType /\ ListIInv /\ ArgsAreLive
  BY TypeParts DEF Inv
<1>3. heap \subseteq Nodes /\ NULL \notin Nodes /\ Members(order) \subseteq heap
  BY <1>2, ServerAssumption DEF ListIInv, ListTypeOK, HeapConsistent
\* A pcb released without its error callback, its record not being listed.
<1>4. ASSUME NEW s \in {"CLOSED", "SYN_RCVD"}, NEW k \in Nat, Release(p, s, k),
             arg[p] \notin Members(order), UNCHANGED <<main, listVars, bufs, missed>>
      PROVE  Inv'
  <2>1. heap' = heap /\ order' = order
    BY <1>4 DEF listVars
  <2>2. PcbType' /\ ArgsAreLive' /\ ListIsEstablished'
    BY <1>4, <2>1, ReleaseStep
  <2>3. ListIInv'
    BY <1>2, <1>4, ListNextIInv
  <2>4. BufType' /\ MainType'
    BY <1>2, <1>4 DEF BufType, MainType, bufs, main
  <2> QED BY <2>2, <2>3, <2>4, InvParts
<1>5. CASE SynToFree(p)
  <2>1. arg[p] = NULL
    BY <1>2, <1>5 DEF SynToFree, ArgsAreLive, Accepted
  <2> QED BY <1>3, <1>4, <1>5, <2>1 DEF SynToFree, Frame
<1>6. CASE SynByKilling(p)
  <2>1. \/ Release(p, "SYN_RCVD", 1)
        \/ Release(p, "CLOSED", 0)
    BY <1>6 DEF SynByKilling
  <2>2. m_tcp_server_error(arg[p]) /\ UNCHANGED main
    BY <1>6 DEF SynByKilling, Frame
  <2> QED BY <2>1, <2>2, AbandonStep
<1>7. CASE \E i \in Nodes : m_tcp_server_accept(p, i)
  BY <1>7, AcceptPreserves
<1>8. CASE AcceptFails(p) \/ Rst(p)
  BY <1>8, AbandonStep DEF AcceptFails, Rst, Abandon, Frame
<1>9. CASE RecvData(p)
  <2>1. arg[p] \in Nodes
    BY <1>2, <1>3, <1>9 DEF RecvData, ArgsAreLive, Accepted
  <2>2. /\ tcp_sendData(arg[p], 1) /\ UNCHANGED main
        /\ UNCHANGED <<state, arg, owner, listVars, missed>>
    BY <1>9 DEF RecvData, Frame
  <2>3. /\ unacked' \in [Pcbs -> Nat] /\ unsent' \in [Pcbs -> Nat] /\ BufType'
    BY <1>2, <2>1, <2>2, SendDataType
  <2>4. MainType'
    BY <1>2, <2>2 DEF MainType, main
  <2> QED BY <2>2, <2>3, <2>4, OtherStep
<1>10. CASE RecvFin(p)
  BY <1>10, RecvFinPreserves
<1>11. CASE Acked(p)
  <2> DEFINE w == sendBuf[arg[p]] /\ state[p] # "LAST_ACK"
  <2>1. arg[p] \in Nodes
    BY <1>2, <1>3, <1>11 DEF Acked, ArgsAreLive
  <2>2. /\ unsent' = [unsent EXCEPT ![p] = 0]
        /\ unacked' = [unacked EXCEPT ![p] = IF w THEN unsent[p] + 1
                                             ELSE unsent[p]]
        /\ sendBuf' = [sendBuf EXCEPT ![arg[p]] = @ /\ ~w]
        /\ pool' = IF w THEN pool + 1 ELSE pool
        /\ UNCHANGED main
        /\ UNCHANGED <<state, arg, owner, listVars, lost, missed>>
    BY <1>11 DEF Acked, Frame
  <2>3. (sendBuf[arg[p]] /\ ~w) \in BOOLEAN
    OBVIOUS
  <2> HIDE DEF w
  <2>4. unacked' \in [Pcbs -> Nat] /\ unsent' \in [Pcbs -> Nat]
    BY <1>2, <2>2 DEF PcbType
  <2>5. sendBuf' \in [Nodes -> BOOLEAN]
    BY <1>2, <2>1, <2>2, <2>3 DEF BufType
  <2>6. pool' \in Nat /\ lost' \in Nat
    BY <1>2, <2>2 DEF BufType
  <2>7. MainType'
    BY <1>2, <2>2 DEF MainType, main
  <2>8. BufType'
    BY <2>5, <2>6 DEF BufType
  <2>9. UNCHANGED <<state, arg, owner, listVars>>
    BY <2>2
  <2> QED BY <2>4, <2>7, <2>8, <2>9, OtherStep
<1>12. CASE LastAck(p)
  <2>1. /\ state[p] = "LAST_ACK" /\ Release(p, "CLOSED", 0)
        /\ UNCHANGED <<main, listVars, bufs, missed>>
    BY <1>12 DEF LastAck, Frame
  <2>2. arg[p] \notin Members(order)
    <3> SUFFICES ASSUME NEW q \in Pcbs, state[q] = "ESTABLISHED", arg[p] = arg[q]
                 PROVE  FALSE
      BY DEF Inv, ListIsEstablished
    <3>1. p # q
      BY <2>1
    <3> QED BY <3>1, ArgsDistinct DEF Accepted
  <2> QED BY <1>4, <2>1, <2>2
<1> QED BY <1>1, <1>5, <1>6, <1>7, <1>8, <1>9, <1>10, <1>11, <1>12

\* Every step of the main loop preserves the invariant.
LEMMA MainLoopInv ==
  ASSUME Inv, MainLoop
  PROVE  Inv'
<1>1. PcbType /\ BufType /\ MainType /\ ListIInv
  BY TypeParts DEF Inv
<1>2. /\ list.next \in [Cells -> Cells] /\ head \in Cells
      /\ heap \subseteq Nodes /\ heap \subseteq Cells
      /\ Members(order) \subseteq Nodes
  BY <1>1 DEF ListIInv, ListTypeOK, HeapConsistent, HeadNode, Cells
<1>3. ASSUME UNCHANGED <<state, arg, owner, queues, bufs, listVars>>, MainType'
      PROVE  Inv'
  <2>1. unacked' \in [Pcbs -> Nat] /\ unsent' \in [Pcbs -> Nat] /\ BufType'
    BY <1>1, <1>3 DEF PcbType, BufType, queues, bufs
  <2>2. UNCHANGED <<state, arg, owner, listVars>>
    BY <1>3
  <2> QED BY <1>3, <2>1, <2>2, OtherStep
<1>4. ASSUME NEW k \in KeyEvents, KeyScan(k) PROVE Inv'
  <2>1. MainType'
    BY <1>1, <1>2, <1>4 DEF KeyScan, LoopTest, MainType
  <2> QED BY <1>3, <1>4, <2>1 DEF KeyScan
<1>5. CASE BroadcastSend
  <2>1. /\ cursor \in Nodes /\ tcp_sendData(cursor, 0)
        /\ missed' = missed \ {cursor} /\ pc' = "next"
        /\ UNCHANGED <<state, arg, owner, listVars, cursor>>
    BY <1>2, <1>5 DEF BroadcastSend
  <2>2. unacked' \in [Pcbs -> Nat] /\ unsent' \in [Pcbs -> Nat] /\ BufType'
    BY <1>1, <2>1, SendDataType
  <2>3. MainType'
    BY <1>1, <2>1 DEF MainType
  <2> QED BY <2>1, <2>2, <2>3, OtherStep
<1>6. CASE BroadcastNext
  <2>1. MainType'
    BY <1>1, <1>2, <1>6 DEF BroadcastNext, LoopTest, MainType
  <2> QED BY <1>3, <1>6, <2>1 DEF BroadcastNext
<1>7. CASE BroadcastWild
  BY <1>1, <1>3, <1>7 DEF BroadcastWild, MainType
<1>8. CASE TimerDone
  BY <1>1, <1>3, <1>8 DEF TimerDone, MainType
<1> QED BY <1>4, <1>5, <1>6, <1>7, <1>8 DEF MainLoop

\* So do the TCP timers.
LEMMA TimersInv ==
  ASSUME Inv, Timers
  PROVE  Inv'
<1>1. PICK p \in Pcbs : SlowTmrRemove(p) \/ m_tcp_server_poll(p)
  BY DEF Timers
<1>2. CASE SlowTmrRemove(p)
  BY <1>2, AbandonStep DEF SlowTmrRemove, Abandon
<1>3. CASE m_tcp_server_poll(p)
  <2>1. CASE arg[p] = NULL
    BY <1>3, <2>1, AbandonStep DEF m_tcp_server_poll, Abandon
  <2>2. CASE arg[p] # NULL
    <3>1. /\ UNCHANGED <<state, arg, owner, queues, bufs, listVars, missed>>
          /\ UNCHANGED main
      BY <1>3, <2>2 DEF m_tcp_server_poll
    <3>2. PcbType /\ BufType /\ MainType
      BY TypeParts DEF Inv
    <3>3. /\ unacked' \in [Pcbs -> Nat] /\ unsent' \in [Pcbs -> Nat]
          /\ BufType' /\ MainType'
      BY <3>1, <3>2 DEF PcbType, BufType, MainType, queues, bufs, main
    <3>4. UNCHANGED <<state, arg, owner, listVars>>
      BY <3>1
    <3> QED BY <3>3, <3>4, OtherStep
  <2> QED BY <2>1, <2>2
<1> QED BY <1>1, <1>2, <1>3

\* The invariant is inductive.
LEMMA NextInv == Inv /\ [Next]_vars => Inv'
<1> SUFFICES ASSUME Inv, [Next]_vars PROVE Inv'
  OBVIOUS
<1>1. CASE EthIrq
  BY <1>1, EthIrqInv
<1>2. CASE MainLoop
  BY <1>2, MainLoopInv
<1>3. CASE Timers
  BY <1>3, TimersInv
<1>4. CASE UNCHANGED vars
  <2>1. /\ UNCHANGED <<state, arg, owner, listVars>>
        /\ UNCHANGED <<queues, bufs, main, missed>>
    BY <1>4 DEF vars
  <2>2. PcbType /\ BufType /\ MainType
    BY TypeParts DEF Inv
  <2>3. /\ unacked' \in [Pcbs -> Nat] /\ unsent' \in [Pcbs -> Nat]
        /\ BufType' /\ MainType'
    BY <2>1, <2>2 DEF PcbType, BufType, MainType, queues, bufs, main
  <2> QED BY <2>1, <2>3, OtherStep
<1> QED BY <1>1, <1>2, <1>3, <1>4 DEF Next

\* The types of all the server's state.
THEOREM ServerTypeCorrect == Spec => []TypeOK
<1>1. Inv => TypeOK
  BY DEF Inv
<1> QED BY <1>1, InitInv, NextInv, PTL DEF Spec

\* In either context, every callback that lwIP makes for an accepted
\* connection gets an allocated record that belongs to that connection
\* alone: the error callback never frees a record twice, and recv, sent and
\* poll never touch a freed one, however connections are killed, reset,
\* closed, timed out and recycled.
THEOREM CallbacksGetLiveRecords == Spec => []ArgsAreLive
<1>1. Inv => ArgsAreLive
  BY DEF Inv
<1> QED BY <1>1, InitInv, NextInv, PTL DEF Spec

\* The listed clients are exactly the established connections, whichever
\* context takes a connection down.
THEOREM ListIsExact == Spec => []ListIsEstablished
<1>1. Inv => ListIsEstablished
  BY DEF Inv, ListIsEstablished
<1> QED BY <1>1, InitInv, NextInv, PTL DEF Spec

\* In the server, too, the pointers form a ring of exactly the listed
\* clients, no freed record is in it, and list_remove reports a removal
\* just when there is one: every callback is a step of ClientList.
THEOREM ServerListWellFormed ==
  Spec => [](ListWellFormed /\ HeapConsistent /\ RemoveIsTruthful)
<1>1. Inv => ListWellFormed /\ HeapConsistent /\ RemoveIsTruthful
  BY IInvTruthful DEF Inv, ListIInv
<1> QED BY <1>1, InitInv, NextInv, PTL DEF Spec

-----------------------------------------------------------------------------
(* The broadcast.  What it still has to serve lies ahead of it in the list *)
(* as long as it stands on a listed client.  If that client has sent FIN,  *)
(* its record is detached and the loop stays at it; if the record has been *)
(* freed, nothing is expected of the loop any more.                        *)

\* The clients still to be served stand at the cursor or behind it, before
\* node is served, and behind it afterwards.
Ahead ==
  \A k, j \in 1..Len(order) :
    order[k] = cursor /\ order[j] \in missed
      => IF pc = "send" THEN k <= j ELSE k < j

BroadcastInv ==
  /\ BroadcastReachesAll
  /\ pc \in {"send", "next"} /\ missed # {} =>
       cursor \in heap /\ missed \subseteq Members(order) /\ Ahead

\* Clients keep their order when one of them leaves.
LEMMA OrderKept ==
  ASSUME ListIInv, NEW n \in heap, NEW o, OrderAfterRemove(n, o),
         NEW k \in 1..Len(o), NEW j \in 1..Len(o)
  PROVE  \E a, b \in 1..Len(order) : /\ o[k] = order[a] /\ o[j] = order[b]
                                     /\ k < j <=> a < b
                                     /\ k <= j <=> a <= b
<1>1. order \in Seq(Nodes) /\ \A i, l \in 1..Len(order) : order[i] = order[l] => i = l
  BY DEF ListIInv, ListTypeOK, ListWellFormed, Represents
<1>2. CASE n \notin Members(order)
  BY <1>2 DEF OrderAfterRemove
<1>3. CASE n \in Members(order)
  <2>1. PICK m \in 1..Len(order) : o = Without(order, m)
    BY <1>3 DEF OrderAfterRemove
  <2>2. /\ Len(o) = Len(order) - 1
        /\ \A i \in 1..(Len(order) - 1) :
             o[i] = IF i < m THEN order[i] ELSE order[i + 1]
    BY <1>1, <2>1, WithoutType
  <2> DEFINE a == IF k < m THEN k ELSE k + 1
             b == IF j < m THEN j ELSE j + 1
  <2>3. a \in 1..Len(order) /\ b \in 1..Len(order)
    BY <1>1, <2>2
  <2>4. o[k] = order[a] /\ o[j] = order[b]
    BY <1>1, <2>2
  <2>5. (k < j <=> a < b) /\ (k <= j <=> a <= b)
    BY <1>1
  <2> QED BY <2>3, <2>4, <2>5
<1> QED BY <1>2, <1>3

\* A step that takes nothing the broadcast needs: the list is as it was.
LEMMA BroadcastKept ==
  ASSUME BroadcastInv, UNCHANGED <<main, order>>, heap \subseteq heap',
         missed' \subseteq missed
  PROVE  BroadcastInv'
<1>1. pc' = pc /\ cursor' = cursor /\ order' = order
  BY DEF main
<1>2. Members(order') = Members(order)
  BY <1>1
<1>3. BroadcastReachesAll'
  BY <1>1 DEF BroadcastInv, BroadcastReachesAll
<1>4. ASSUME pc' \in {"send", "next"}, missed' # {}
      PROVE  cursor' \in heap' /\ missed' \subseteq Members(order') /\ Ahead'
  <2>1. cursor \in heap /\ missed \subseteq Members(order) /\ Ahead
    BY <1>1, <1>4 DEF BroadcastInv
  <2> QED BY <1>1, <1>2, <2>1 DEF Ahead
<1> QED BY <1>3, <1>4 DEF BroadcastInv

\* A client leaves the list, freed or not.
LEMMA BroadcastRemove ==
  ASSUME Inv, BroadcastInv, UNCHANGED main, NEW n \in heap,
         OrderAfterRemove(n, order'),
         heap' = heap \/ (heap' = heap \ {n} /\ (n = cursor => missed' = {})),
         missed' \subseteq missed \ {n}
  PROVE  BroadcastInv'
<1>1. pc' = pc /\ cursor' = cursor
  BY DEF main
<1>2. BroadcastReachesAll'
  BY <1>1 DEF BroadcastInv, BroadcastReachesAll
<1>3. Members(order') = Members(order) \ {n}
  BY RemoveStep DEF Inv
<1>4. ASSUME pc' \in {"send", "next"}, missed' # {}
      PROVE  cursor' \in heap' /\ missed' \subseteq Members(order') /\ Ahead'
  <2>1. cursor \in heap /\ missed \subseteq Members(order) /\ Ahead
    BY <1>1, <1>4 DEF BroadcastInv
  <2>2. cursor' \in heap' /\ missed' \subseteq Members(order')
    BY <1>1, <1>3, <1>4, <2>1
  <2>3. ASSUME NEW k \in 1..Len(order'), NEW j \in 1..Len(order'),
               order'[k] = cursor', order'[j] \in missed'
        PROVE  IF pc' = "send" THEN k <= j ELSE k < j
    <3>1. PICK a, b \in 1..Len(order) :
            /\ order'[k] = order[a] /\ order'[j] = order[b]
            /\ k < j <=> a < b
            /\ k <= j <=> a <= b
      BY OrderKept DEF Inv
    <3>2. IF pc = "send" THEN a <= b ELSE a < b
      BY <1>1, <2>1, <2>3, <3>1 DEF Ahead
    <3> QED BY <1>1, <3>1, <3>2
  <2> QED BY <2>2, <2>3 DEF Ahead
<1> QED BY <1>2, <1>4 DEF BroadcastInv

\* A client joins at the end of the list.
LEMMA BroadcastAccept ==
  ASSUME Inv, BroadcastInv, UNCHANGED <<main, missed>>, NEW n \in Nodes, Accept(n)
  PROVE  BroadcastInv'
<1>1. pc' = pc /\ cursor' = cursor /\ missed' = missed
  BY DEF main
<1>2. /\ n \notin heap /\ heap' = heap \cup {n} /\ order' = Append(order, n)
      /\ order \in Seq(Nodes) /\ Members(order) \subseteq heap
  BY DEF Accept, Inv, ListIInv, ListTypeOK, HeapConsistent
<1>3. Members(order') = Members(order) \cup {n}
  BY <1>2, AppendMembers
<1>4. BroadcastReachesAll'
  BY <1>1 DEF BroadcastInv, BroadcastReachesAll
<1>5. ASSUME pc' \in {"send", "next"}, missed' # {}
      PROVE  cursor' \in heap' /\ missed' \subseteq Members(order') /\ Ahead'
  <2>1. cursor \in heap /\ missed \subseteq Members(order) /\ Ahead
    BY <1>1, <1>5 DEF BroadcastInv
  <2>2. cursor # n /\ n \notin missed
    BY <1>2, <2>1
  <2>3. ASSUME NEW k \in 1..Len(order'), NEW j \in 1..Len(order'),
               order'[k] = cursor', order'[j] \in missed'
        PROVE  IF pc' = "send" THEN k <= j ELSE k < j
    <3>1. /\ Len(order') = Len(order) + 1 /\ order'[Len(order) + 1] = n
          /\ \A i \in 1..Len(order) : order'[i] = order[i]
      BY <1>2
    <3>2. k \in 1..Len(order) /\ j \in 1..Len(order)
      BY <1>1, <1>2, <2>2, <2>3, <3>1
    <3> QED BY <1>1, <2>1, <2>3, <3>1, <3>2 DEF Ahead
  <2> QED BY <1>1, <1>2, <1>3, <2>1, <2>3 DEF Ahead
<1> QED BY <1>4, <1>5 DEF BroadcastInv

\* An error callback takes its record out, or there is none.
LEMMA BroadcastError ==
  ASSUME Inv, BroadcastInv, NEW p \in Pcbs, m_tcp_server_error(arg[p]),
         UNCHANGED main
  PROVE  BroadcastInv'
<1>1. CASE arg[p] = NULL
  BY <1>1, BroadcastKept DEF m_tcp_server_error, listVars
<1>2. CASE arg[p] # NULL
  <2>1. /\ arg[p] \in heap /\ heap' = heap \ {arg[p]}
        /\ OrderAfterRemove(arg[p], order')
        /\ missed' = IF arg[p] = cursor THEN {} ELSE missed \ {arg[p]}
    BY <1>2 DEF m_tcp_server_error, Error, Still
  <2> QED BY <2>1, BroadcastRemove
<1> QED BY <1>1, <1>2

\* Every segment keeps the broadcast's way.
LEMMA EthIrqBroadcast ==
  ASSUME Inv, BroadcastInv, EthIrq
  PROVE  BroadcastInv'
<1>1. PICK p \in Pcbs :
        \/ SynToFree(p) \/ SynByKilling(p)
        \/ \E i \in Nodes : m_tcp_server_accept(p, i)
        \/ AcceptFails(p) \/ RecvData(p) \/ RecvFin(p) \/ Acked(p)
        \/ LastAck(p) \/ Rst(p)
  BY DEF EthIrq
<1>2. UNCHANGED main
  BY <1>1 DEF SynToFree, SynByKilling, m_tcp_server_accept, AcceptFails,
              RecvData, RecvFin, Acked, LastAck, Rst, Frame
<1>3. CASE SynToFree(p) \/ RecvData(p) \/ Acked(p) \/ LastAck(p)
  <2>1. order' = order /\ heap' = heap /\ missed' = missed
    BY <1>3 DEF SynToFree, RecvData, Acked, LastAck, listVars
  <2> QED BY <1>2, <2>1, BroadcastKept
<1>4. CASE SynByKilling(p) \/ AcceptFails(p) \/ Rst(p)
  <2>1. m_tcp_server_error(arg[p])
    BY <1>4 DEF SynByKilling, AcceptFails, Rst, Abandon
  <2> QED BY <1>2, <2>1, BroadcastError
<1>5. ASSUME NEW i \in Nodes, m_tcp_server_accept(p, i) PROVE BroadcastInv'
  BY <1>2, <1>5, BroadcastAccept DEF m_tcp_server_accept
<1>6. CASE RecvFin(p)
  <2>1. /\ arg[p] \in heap /\ heap' = heap /\ OrderAfterRemove(arg[p], order')
        /\ missed' = missed \ {arg[p]}
    BY <1>6 DEF RecvFin, Disconnect
  <2> QED BY <1>2, <2>1, BroadcastRemove
<1> QED BY <1>1, <1>3, <1>4, <1>5, <1>6

\* The broadcast starts at the oldest client, goes on to the next one and
\* ends behind the newest.
LEMMA MainLoopBroadcast ==
  ASSUME Inv, BroadcastInv, MainLoop
  PROVE  BroadcastInv'
<1>1. /\ order \in Seq(Nodes) /\ Members(order) \subseteq heap
      /\ Len(order) \in Nat /\ list.len = Len(order)
      /\ \A i \in 0..Len(order) : list.next[Ring(order, i)] = Ring(order, i + 1)
      /\ \A i, j \in 1..Len(order) : order[i] = order[j] => i = j
      /\ \A i \in 1..Len(order) : order[i] \in Nodes /\ order[i] \in Members(order)
      /\ \A n \in heap \ Members(order) : list.next[n] = n
      /\ heap \subseteq Nodes /\ head \notin Nodes
  BY HeadAssumption DEF Inv, ListIInv, ListTypeOK, HeapConsistent, ListWellFormed,
     Represents, Members, Detached
<1>2. ASSUME NEW k \in KeyEvents, KeyScan(k) PROVE BroadcastInv'
  <2>1. pc = "key" /\ order' = order /\ heap' = heap /\ list' = list
    BY <1>2 DEF KeyScan, listVars
  <2>2. CASE k = "KEY0" /\ list_size(list) # 0
    <3>1. /\ cursor' = list.next[head] /\ missed' = Members(order)
          /\ pc' = IF list.next[head] = head THEN "timer" ELSE "send"
      BY <1>2, <2>2 DEF KeyScan, LoopTest
    <3>2. Len(order) >= 1
      BY <1>1, <2>2 DEF list_size
    <3>3. Ring(order, 0) = head /\ Ring(order, 1) = order[1]
      BY <1>1, <3>2 DEF Ring
    <3>4. cursor' = order[1] /\ pc' = "send"
      BY <1>1, <3>1, <3>2, <3>3
    <3>5. Ahead'
      BY <1>1, <2>1, <3>2, <3>4 DEF Ahead
    <3>6. cursor' \in heap' /\ missed' \subseteq Members(order')
      BY <1>1, <2>1, <3>1, <3>2, <3>4
    <3> QED BY <3>4, <3>5, <3>6 DEF BroadcastInv, BroadcastReachesAll
  <2>3. CASE ~(k = "KEY0" /\ list_size(list) # 0)
    BY <1>2, <2>1, <2>3 DEF KeyScan, BroadcastInv, BroadcastReachesAll
  <2> QED BY <2>2, <2>3
<1>3. CASE BroadcastSend
  <2>1. /\ pc = "send" /\ pc' = "next" /\ cursor' = cursor /\ cursor \in heap
        /\ missed' = missed \ {cursor} /\ order' = order /\ heap' = heap
    BY <1>3 DEF BroadcastSend, listVars
  <2>2. ASSUME missed' # {}
        PROVE  cursor' \in heap' /\ missed' \subseteq Members(order') /\ Ahead'
    <3>1. missed \subseteq Members(order) /\ Ahead
      BY <2>1, <2>2 DEF BroadcastInv
    <3>2. Ahead'
      BY <1>1, <2>1, <3>1 DEF Ahead
    <3> QED BY <2>1, <3>1, <3>2
  <2> QED BY <2>1, <2>2 DEF BroadcastInv, BroadcastReachesAll
<1>4. CASE BroadcastNext
  <2>1. /\ pc = "next" /\ cursor \in heap /\ cursor' = list.next[cursor]
        /\ pc' = IF list.next[cursor] = head THEN "timer" ELSE "send"
        /\ missed' = missed /\ order' = order /\ heap' = heap
    BY <1>4 DEF BroadcastNext, LoopTest, listVars
  <2>2. CASE missed = {}
    BY <2>1, <2>2 DEF BroadcastInv, BroadcastReachesAll
  <2>3. CASE missed # {}
    <3>1. missed \subseteq Members(order) /\ Ahead
      BY <2>1, <2>3 DEF BroadcastInv
    <3>2. CASE cursor \notin Members(order)
      <4>1. cursor' = cursor /\ pc' = "send"
        BY <1>1, <2>1, <3>2
      <4>2. Ahead'
        BY <1>1, <2>1, <3>2, <4>1 DEF Ahead
      <4> QED BY <2>1, <3>1, <4>1, <4>2 DEF BroadcastInv, BroadcastReachesAll
    <3>3. CASE cursor \in Members(order)
      <4>1. PICK k \in 1..Len(order) : order[k] = cursor
        BY <3>3 DEF Members
      <4>2. Ring(order, k) = cursor /\ cursor' = Ring(order, k + 1)
        BY <1>1, <2>1, <4>1 DEF Ring
      <4>3. CASE k = Len(order)
        <5>1. PICK j \in 1..Len(order) : order[j] \in missed
          BY <2>3, <3>1 DEF Members
        <5> QED BY <1>1, <2>1, <3>1, <4>1, <4>3, <5>1 DEF Ahead
      <4>4. CASE k # Len(order)
        <5>1. k + 1 \in 1..Len(order) /\ cursor' = order[k + 1] /\ pc' = "send"
          BY <1>1, <2>1, <4>2, <4>4 DEF Ring
        <5>2. Ahead'
          BY <1>1, <2>1, <3>1, <4>1, <5>1 DEF Ahead
        <5>3. cursor' \in heap'
          BY <1>1, <2>1, <5>1
        <5> QED BY <2>1, <3>1, <5>1, <5>2, <5>3 DEF BroadcastInv, BroadcastReachesAll
      <4> QED BY <4>3, <4>4
    <3> QED BY <3>2, <3>3
  <2> QED BY <2>2, <2>3
<1>5. CASE BroadcastWild
  BY <1>5 DEF BroadcastWild, BroadcastInv, BroadcastReachesAll
<1>6. CASE TimerDone
  BY <1>6 DEF TimerDone, BroadcastInv, BroadcastReachesAll
<1> QED BY <1>2, <1>3, <1>4, <1>5, <1>6 DEF MainLoop

\* The broadcast's invariant is inductive.
LEMMA NextBroadcast == Inv /\ BroadcastInv /\ [Next]_vars => BroadcastInv'
<1> SUFFICES ASSUME Inv, BroadcastInv, [Next]_vars PROVE BroadcastInv'
  OBVIOUS
<1>1. CASE EthIrq
  BY <1>1, EthIrqBroadcast
<1>2. CASE MainLoop
  BY <1>2, MainLoopBroadcast
<1>3. CASE Timers
  <2>1. PICK p \in Pcbs : SlowTmrRemove(p) \/ m_tcp_server_poll(p)
    BY <1>3 DEF Timers
  <2>2. UNCHANGED main
    BY <2>1 DEF SlowTmrRemove, m_tcp_server_poll
  <2>3. m_tcp_server_error(arg[p]) \/ UNCHANGED <<listVars, missed>>
    BY <2>1 DEF SlowTmrRemove, m_tcp_server_poll, Abandon
  <2>4. CASE UNCHANGED <<listVars, missed>>
    BY <2>2, <2>4, BroadcastKept DEF listVars
  <2> QED BY <2>2, <2>3, <2>4, BroadcastError
<1>4. CASE UNCHANGED vars
  BY <1>4, BroadcastKept DEF vars, listVars
<1> QED BY <1>1, <1>2, <1>3, <1>4 DEF Next

\* When KEY0's broadcast is over it has served every client that stayed
\* connected while it ran, whatever the interrupt did to the list between
\* its steps; unless the record at which it stood was freed.
THEOREM BroadcastIsComplete == Spec => []BroadcastReachesAll
<1>1. Init => BroadcastInv
  BY DEF Init, BroadcastInv, BroadcastReachesAll
<1>2. BroadcastInv => BroadcastReachesAll
  BY DEF BroadcastInv
<1> QED BY <1>1, <1>2, InitInv, NextInv, NextBroadcast, PTL DEF Spec

-----------------------------------------------------------------------------
(* The pools.  Accepting a client forgets what sendBuf of its record held, *)
(* without giving anything back: the balance needs that a record outside   *)
(* the heap holds nothing.                                                 *)

Pending == {i \in Nodes : sendBuf[i]}

InFlight == {p \in Pcbs : unacked[p] > 0}
Waiting == {p \in Pcbs : unsent[p] > 0}

FreeHoldNothing == \A i \in Nodes \ heap : ~sendBuf[i]

BufInv ==
  /\ pool + Cardinality(Pending) + lost = PoolSize
  /\ FreeHoldNothing

SegInv == Cardinality(InFlight) + Cardinality(Waiting) <= NumSegs

\* All the sets that are counted are finite.
LEMMA CountsType ==
  ASSUME NEW S \in SUBSET Pcbs, NEW I \in SUBSET Nodes
  PROVE  /\ IsFiniteSet(S) /\ Cardinality(S) \in Nat
         /\ IsFiniteSet(I) /\ Cardinality(I) \in Nat
<1>1. IsFiniteSet(S) /\ IsFiniteSet(I)
  BY ServerAssumption, FS_Subset
<1> QED BY <1>1, FS_CardinalityType

\* How the number of pending replies changes with one record's sendBuf.
LEMMA PendingStep ==
  ASSUME BufType, NEW i \in Nodes, NEW b \in BOOLEAN,
         sendBuf' = [sendBuf EXCEPT ![i] = b]
  PROVE  /\ Cardinality(Pending) \in Nat /\ Cardinality(Pending') \in Nat
         /\ Cardinality(Pending') = Cardinality(Pending)
              + (IF b THEN 1 ELSE 0) - (IF sendBuf[i] THEN 1 ELSE 0)
<1>1. sendBuf \in [Nodes -> BOOLEAN]
  BY DEF BufType
<1>2. IsFiniteSet(Pending) /\ Cardinality(Pending) \in Nat
  BY CountsType DEF Pending
<1>3. i \in Pending <=> sendBuf[i]
  BY DEF Pending
<1>4. CASE b
  <2>1. Pending' = Pending \cup {i}
    <3>1. \A j \in Nodes : sendBuf'[j] <=> sendBuf[j] \/ j = i
      BY <1>1, <1>4, Zenon
    <3> QED BY <3>1 DEF Pending
  <2>2. Cardinality(Pending') = IF i \in Pending THEN Cardinality(Pending)
                                ELSE Cardinality(Pending) + 1
    BY <1>2, <2>1, FS_AddElement
  <2> QED BY <1>2, <1>3, <1>4, <2>2
<1>5. CASE ~b
  <2>1. Pending' = Pending \ {i}
    <3>1. \A j \in Nodes : sendBuf'[j] <=> sendBuf[j] /\ j # i
      BY <1>1, <1>5, Zenon
    <3> QED BY <3>1 DEF Pending
  <2>2. Cardinality(Pending') = IF i \in Pending THEN Cardinality(Pending) - 1
                                ELSE Cardinality(Pending)
    BY <1>2, <2>1, FS_RemoveElement
  <2>3. Cardinality(Pending') \in Nat
    BY <1>2, <2>1, FS_RemoveElement, FS_CardinalityType
  <2> QED BY <1>2, <1>3, <1>5, <2>2, <2>3
<1> QED BY <1>4, <1>5

\* What one record holds changes, and the pool and the lost with it.
LEMMA BufStep ==
  ASSUME BufType, BufInv, NEW i \in Nodes, NEW b \in BOOLEAN,
         sendBuf' = [sendBuf EXCEPT ![i] = b], pool' \in Nat, lost' \in Nat,
         pool' + lost' + (IF b THEN 1 ELSE 0)
           = pool + lost + (IF sendBuf[i] THEN 1 ELSE 0),
         heap \ {i} \subseteq heap', b => i \in heap'
  PROVE  BufInv'
<1>1. pool' + Cardinality(Pending') + lost' = PoolSize
  <2>1. PICK x \in Nat, y \in Nat :
          /\ x = (IF b THEN 1 ELSE 0) /\ y = (IF sendBuf[i] THEN 1 ELSE 0)
    OBVIOUS
  <2>2. /\ Cardinality(Pending) \in Nat /\ Cardinality(Pending') \in Nat
        /\ Cardinality(Pending') = Cardinality(Pending) + x - y
    BY <2>1, PendingStep, Zenon
  <2>3. pool' + lost' + x = pool + lost + y
    BY <2>1, Zenon
  <2>4. PICK a \in Nat, c \in Nat, d \in Nat, e \in Nat, n \in Nat :
          a = pool /\ c = lost /\ d = pool' /\ e = lost' /\ n = Cardinality(Pending)
    BY <2>2, Zenon DEF BufType
  <2>5. d + e + x = a + c + y
    BY <2>3, <2>4, Zenon
  <2>6. d + (n + x - y) + e = a + n + c
    BY <2>5
  <2>7. a + n + c = PoolSize
    BY <2>4, Zenon DEF BufInv
  <2> QED BY <2>2, <2>4, <2>6, <2>7, Zenon
<1>2. FreeHoldNothing'
  <2> SUFFICES ASSUME NEW j \in Nodes \ heap' PROVE ~sendBuf'[j]
    BY DEF FreeHoldNothing
  <2>1. CASE j = i
    BY <2>1, Zenon DEF BufType
  <2>2. CASE j # i
    BY <2>2, Zenon DEF BufType, BufInv, FreeHoldNothing
  <2> QED BY <2>1, <2>2
<1> QED BY <1>1, <1>2 DEF BufInv

\* Nothing is taken or given.
LEMMA BufKept ==
  ASSUME BufInv, UNCHANGED bufs, heap \subseteq heap'
  PROVE  BufInv'
BY DEF BufInv, bufs, Pending, FreeHoldNothing

\* tcp_sendData for an allocated record: the pbuf it takes is pending or
\* goes back, the one that was pending is lost.
LEMMA SendDataBuf ==
  ASSUME PcbType, BufType, BufInv, NEW i \in heap, i \in Nodes, NEW rx \in Nat,
         tcp_sendData(i, rx), heap' = heap
  PROVE  BufInv'
<1> DEFINE got     == pool > rx
           written == got /\ CanWrite(owner[i])
           b == got /\ ~written
<1>1. /\ sendBuf' = [sendBuf EXCEPT ![i] = b]
      /\ pool' = IF b THEN pool - 1 ELSE pool
      /\ lost' = IF sendBuf[i] THEN lost + 1 ELSE lost
  BY DEF tcp_sendData
<1>2. b \in BOOLEAN
  BY DEF CanWrite
<1>3. b => pool > 0
  BY DEF BufType
<1>4. pool' \in Nat /\ lost' \in Nat
  BY SendDataType DEF BufType
<1> HIDE DEF b
<1>5. pool' + lost' + (IF b THEN 1 ELSE 0)
        = pool + lost + (IF sendBuf[i] THEN 1 ELSE 0)
  BY <1>1, <1>3 DEF BufType
<1> QED BY <1>1, <1>2, <1>4, <1>5, BufStep

\* The error callback loses what its record held.
LEMMA ErrorBuf ==
  ASSUME Inv, BufInv, NEW p \in Pcbs, m_tcp_server_error(arg[p])
  PROVE  BufInv'
<1>1. CASE arg[p] = NULL
  BY <1>1, BufKept DEF m_tcp_server_error, listVars
<1>2. CASE arg[p] # NULL
  <2>1. /\ arg[p] \in Nodes /\ BufType
    BY <1>2, TypeParts DEF Inv, PcbType
  <2>2. /\ sendBuf' = [sendBuf EXCEPT ![arg[p]] = FALSE]
        /\ lost' = IF sendBuf[arg[p]] THEN lost + 1 ELSE lost
        /\ pool' = pool /\ heap' = heap \ {arg[p]}
    BY <1>2 DEF m_tcp_server_error, Error
  <2>3. pool' \in Nat /\ lost' \in Nat
    BY <2>1, <2>2 DEF BufType
  <2>4. pool' + lost' + 0 = pool + lost + (IF sendBuf[arg[p]] THEN 1 ELSE 0)
    BY <2>1, <2>2 DEF BufType
  <2> QED BY <2>1, <2>2, <2>3, <2>4, BufStep
<1> QED BY <1>1, <1>2

\* Every step keeps the balance of pbufs.
LEMMA NextBuf == Inv /\ BufInv /\ [Next]_vars => BufInv'
<1> SUFFICES ASSUME Inv, BufInv, [Next]_vars PROVE BufInv'
  OBVIOUS
<1>1. PcbType /\ BufType /\ heap \subseteq Nodes
  BY TypeParts DEF Inv, ListIInv, ListTypeOK
<1>2. ASSUME NEW p \in Pcbs,
             SynToFree(p) \/ RecvFin(p) \/ LastAck(p)
      PROVE  BufInv'
  <2>1. UNCHANGED bufs /\ heap' = heap
    BY <1>2 DEF SynToFree, RecvFin, LastAck, Disconnect, listVars
  <2> QED BY <2>1, BufKept
<1>3. ASSUME NEW p \in Pcbs,
             SynByKilling(p) \/ AcceptFails(p) \/ Rst(p) \/ SlowTmrRemove(p)
      PROVE  BufInv'
  BY <1>3, ErrorBuf DEF SynByKilling, AcceptFails, Rst, SlowTmrRemove, Abandon
<1>4. ASSUME NEW p \in Pcbs, m_tcp_server_poll(p) PROVE BufInv'
  <2>1. m_tcp_server_error(arg[p]) \/ (UNCHANGED bufs /\ heap' = heap)
    BY <1>4 DEF m_tcp_server_poll, Abandon, listVars
  <2> QED BY <2>1, ErrorBuf, BufKept
<1>5. ASSUME NEW p \in Pcbs, NEW i \in Nodes, m_tcp_server_accept(p, i)
      PROVE  BufInv'
  <2>1. /\ i \notin heap /\ heap' = heap \cup {i}
        /\ sendBuf' = [sendBuf EXCEPT ![i] = FALSE]
        /\ pool' = pool /\ lost' = lost
    BY <1>5 DEF m_tcp_server_accept, Accept
  <2>2. ~sendBuf[i]
    BY <2>1 DEF BufInv, FreeHoldNothing
  <2>3. pool' \in Nat /\ lost' \in Nat
    BY <1>1, <2>1 DEF BufType
  <2>4. pool' + lost' + 0 = pool + lost + (IF sendBuf[i] THEN 1 ELSE 0)
    BY <1>1, <2>1, <2>2 DEF BufType
  <2> QED BY <1>1, <2>1, <2>3, <2>4, BufStep
<1>6. ASSUME NEW p \in Pcbs, RecvData(p) PROVE BufInv'
  <2>1. arg[p] \in heap
    BY <1>6 DEF RecvData, Inv, ArgsAreLive, Accepted
  <2>2. tcp_sendData(arg[p], 1) /\ heap' = heap
    BY <1>6 DEF RecvData, listVars
  <2> QED BY <1>1, <2>1, <2>2, SendDataBuf
<1>7. ASSUME NEW p \in Pcbs, Acked(p) PROVE BufInv'
  <2> DEFINE w == sendBuf[arg[p]] /\ state[p] # "LAST_ACK"
             b == sendBuf[arg[p]] /\ ~w
  <2>1. arg[p] \in heap
    BY <1>7 DEF Acked, Inv, ArgsAreLive
  <2>2. /\ sendBuf' = [sendBuf EXCEPT ![arg[p]] = b]
        /\ pool' = IF w THEN pool + 1 ELSE pool
        /\ lost' = lost /\ heap' = heap
    BY <1>7 DEF Acked, listVars
  <2>3. b \in BOOLEAN /\ (w => sendBuf[arg[p]]) /\ (b <=> sendBuf[arg[p]] /\ ~w)
    OBVIOUS
  <2> HIDE DEF w, b
  <2>4. pool' \in Nat /\ lost' \in Nat
    BY <1>1, <2>2 DEF BufType
  <2>5. pool' + lost' + (IF b THEN 1 ELSE 0)
          = pool + lost + (IF sendBuf[arg[p]] THEN 1 ELSE 0)
    BY <1>1, <2>2, <2>3 DEF BufType
  <2> QED BY <1>1, <2>1, <2>2, <2>3, <2>4, <2>5, BufStep
<1>8. CASE BroadcastSend
  <2>1. cursor \in heap /\ tcp_sendData(cursor, 0) /\ heap' = heap
    BY <1>8 DEF BroadcastSend, listVars
  <2> QED BY <1>1, <2>1, SendDataBuf
<1>9. CASE MainLoop /\ ~BroadcastSend
  <2>1. UNCHANGED bufs /\ heap' = heap
    BY <1>9 DEF MainLoop, KeyScan, BroadcastNext, BroadcastWild, TimerDone, listVars
  <2> QED BY <2>1, BufKept
<1>10. CASE UNCHANGED vars
  BY <1>10, BufKept DEF vars, listVars
<1> QED BY <1>2, <1>3, <1>4, <1>5, <1>6, <1>7, <1>8, <1>9, <1>10
        DEF Next, EthIrq, Timers

\* Segments: what p's two queues hold changes, no other's.  A new segment is
\* taken only while the pool has one.
LEMMA SegStep ==
  ASSUME PcbType, SegInv, NEW p \in Pcbs, NEW a \in Nat, NEW u \in Nat,
         unacked' = [unacked EXCEPT ![p] = a],
         unsent' = [unsent EXCEPT ![p] = u],
         \/ (a = 0 \/ unacked[p] > 0) /\ (u = 0 \/ unsent[p] > 0)
         \/ u = 0 /\ (unsent[p] > 0 \/ SegsInUse < NumSegs)
         \/ (a = 0 \/ unacked[p] > 0) /\ SegsInUse < NumSegs
  PROVE  SegInv'
<1> DEFINE A == InFlight
           B == Waiting
<1>1. /\ IsFiniteSet(A) /\ Cardinality(A) \in Nat /\ (p \in A <=> unacked[p] > 0)
      /\ IsFiniteSet(B) /\ Cardinality(B) \in Nat /\ (p \in B <=> unsent[p] > 0)
  BY CountsType DEF InFlight, Waiting
<1>2. SegsInUse = Cardinality(A) + Cardinality(B)
  BY DEF SegsInUse, InFlight, Waiting
<1>3. A' = IF a > 0 THEN A \cup {p} ELSE A \ {p}
  BY DEF PcbType, InFlight
<1>4. B' = IF u > 0 THEN B \cup {p} ELSE B \ {p}
  BY DEF PcbType, Waiting
<1>5. Cardinality(A') = IF a > 0 THEN (IF p \in A THEN Cardinality(A) ELSE Cardinality(A) + 1)
                        ELSE (IF p \in A THEN Cardinality(A) - 1 ELSE Cardinality(A))
  BY <1>1, <1>3, FS_AddElement, FS_RemoveElement
<1>6. Cardinality(B') = IF u > 0 THEN (IF p \in B THEN Cardinality(B) ELSE Cardinality(B) + 1)
                        ELSE (IF p \in B THEN Cardinality(B) - 1 ELSE Cardinality(B))
  BY <1>1, <1>4, FS_AddElement, FS_RemoveElement
<1>7. NumSegs \in Nat /\ Cardinality(A) + Cardinality(B) <= NumSegs
  BY ServerAssumption DEF SegInv
<1>8. Cardinality(A') + Cardinality(B') <= NumSegs
  BY <1>1, <1>2, <1>5, <1>6, <1>7 DEF PcbType
<1> QED BY <1>8 DEF SegInv

\* Something is queued for which there is a segment.
LEMMA EnqueueSeg ==
  ASSUME PcbType, SegInv, NEW p \in Pcbs, SegAvailable(p), Enqueue(p)
  PROVE  SegInv'
<1>1. /\ unacked \in [Pcbs -> Nat] /\ unsent \in [Pcbs -> Nat]
      /\ unacked[p] \in Nat /\ unsent[p] \in Nat
  BY DEF PcbType
<1>2. CASE unsent[p] = 0 /\ unacked[p] = 0
  <2>1. /\ unacked' = [unacked EXCEPT ![p] = 1]
        /\ unsent' = [unsent EXCEPT ![p] = 0] /\ SegsInUse < NumSegs
    BY <1>1, <1>2 DEF Enqueue, SegAvailable
  <2> QED BY <2>1, SegStep
<1>3. CASE ~(unsent[p] = 0 /\ unacked[p] = 0)
  <2>1. /\ unacked' = [unacked EXCEPT ![p] = unacked[p]]
        /\ unsent' = [unsent EXCEPT ![p] = unsent[p] + 1]
        /\ unsent[p] + 1 \in Nat
    BY <1>1, <1>3 DEF Enqueue
  <2>2. /\ unacked[p] = 0 \/ unacked[p] > 0
        /\ unsent[p] > 0 \/ SegsInUse < NumSegs
    BY <1>1 DEF SegAvailable
  <2> QED BY <1>1, <2>1, <2>2, SegStep
<1> QED BY <1>2, <1>3

\* A released pcb gives its segments back; a new one takes one if it can.
LEMMA ReleaseSeg ==
  ASSUME PcbType, SegInv, NEW p \in Pcbs, NEW s, NEW k \in Nat, Release(p, s, k),
         k = 0 \/ SegsInUse < NumSegs \/ unacked[p] > 0
  PROVE  SegInv'
<1>1. /\ unacked' = [unacked EXCEPT ![p] = k]
      /\ unsent' = [unsent EXCEPT ![p] = 0]
  BY DEF Release
<1> QED BY <1>1, SegStep

\* The queues are left alone.
LEMMA SegKept == ASSUME SegInv, UNCHANGED queues PROVE SegInv'
BY DEF SegInv, queues, InFlight, Waiting

\* tcp_sendData writes only what there is a segment for.
LEMMA SendDataSeg ==
  ASSUME PcbType, SegInv, NEW i, NEW rx, tcp_sendData(i, rx)
  PROVE  SegInv'
<1>1. \/ CanWrite(owner[i]) /\ Enqueue(owner[i])
      \/ UNCHANGED queues
  BY DEF tcp_sendData
<1>2. CASE CanWrite(owner[i]) /\ Enqueue(owner[i])
  BY <1>2, EnqueueSeg DEF CanWrite
<1> QED BY <1>1, <1>2, SegKept

\* Every step keeps the segments in use within the pool.
LEMMA NextSeg == Inv /\ SegInv /\ [Next]_vars => SegInv'
<1> SUFFICES ASSUME Inv, SegInv, [Next]_vars PROVE SegInv'
  OBVIOUS
<1>1. PcbType
  BY TypeParts DEF Inv
<1>2. ASSUME NEW p \in Pcbs, SynToFree(p) PROVE SegInv'
  BY <1>1, <1>2, ReleaseSeg DEF SynToFree
<1>3. ASSUME NEW p \in Pcbs, SynByKilling(p) PROVE SegInv'
  BY <1>1, <1>3, ReleaseSeg DEF SynByKilling
<1>4. ASSUME NEW p \in Pcbs,
             AcceptFails(p) \/ LastAck(p) \/ Rst(p) \/ SlowTmrRemove(p)
      PROVE  SegInv'
  BY <1>1, <1>4, ReleaseSeg DEF AcceptFails, LastAck, Rst, SlowTmrRemove, Abandon
<1>5. ASSUME NEW p \in Pcbs, m_tcp_server_poll(p) PROVE SegInv'
  <2>1. Release(p, "CLOSED", 0) \/ UNCHANGED queues
    BY <1>5 DEF m_tcp_server_poll, Abandon
  <2> QED BY <1>1, <2>1, ReleaseSeg, SegKept
<1>6. ASSUME NEW p \in Pcbs, NEW i \in Nodes, m_tcp_server_accept(p, i)
      PROVE  SegInv'
  <2>1. /\ unacked' = [unacked EXCEPT ![p] = unsent[p]]
        /\ unsent' = [unsent EXCEPT ![p] = 0] /\ unsent[p] \in Nat
    BY <1>1, <1>6 DEF m_tcp_server_accept, PcbType
  <2>2. unsent[p] = 0 \/ unsent[p] > 0
    BY <2>1
  <2> QED BY <1>1, <2>1, <2>2, SegStep
<1>7. ASSUME NEW p \in Pcbs, RecvFin(p) PROVE SegInv'
  <2>1. (SegAvailable(p) /\ Enqueue(p)) \/ UNCHANGED queues
    BY <1>7 DEF RecvFin
  <2> QED BY <1>1, <2>1, EnqueueSeg, SegKept
<1>8. ASSUME NEW p \in Pcbs, Acked(p) PROVE SegInv'
  <2>1. PICK a \in Nat : /\ unacked' = [unacked EXCEPT ![p] = a]
                         /\ unsent' = [unsent EXCEPT ![p] = 0]
                         /\ unacked[p] > 0
    <3> DEFINE a == IF sendBuf[arg[p]] /\ state[p] # "LAST_ACK"
                    THEN unsent[p] + 1 ELSE unsent[p]
    <3>1. a \in Nat
      BY <1>1 DEF PcbType
    <3>2. /\ unacked' = [unacked EXCEPT ![p] = a]
          /\ unsent' = [unsent EXCEPT ![p] = 0] /\ unacked[p] > 0
      BY <1>8 DEF Acked
    <3> QED BY <3>1, <3>2
  <2> QED BY <1>1, <2>1, SegStep
<1>9. ASSUME NEW p \in Pcbs, RecvData(p) PROVE SegInv'
  BY <1>1, <1>9, SendDataSeg DEF RecvData
<1>10. CASE BroadcastSend
  BY <1>1, <1>10, SendDataSeg DEF BroadcastSend
<1>11. CASE MainLoop /\ ~BroadcastSend
  <2>1. UNCHANGED queues
    BY <1>11 DEF MainLoop, KeyScan, BroadcastNext, BroadcastWild, TimerDone
  <2> QED BY <2>1, SegKept
<1>12. CASE UNCHANGED vars
  BY <1>12, SegKept DEF vars
<1> QED BY <1>2, <1>3, <1>4, <1>5, <1>6, <1>7, <1>8, <1>9, <1>10, <1>11, <1>12
        DEF Next, EthIrq, Timers

\* Every pbuf of the pool is free, pending in one record or lost, and the
\* segments in use are never more than the pool's: no pbuf is freed twice
\* and no segment is written that was not there.
THEOREM PoolsBalance == Spec => []ResourcesBalanced
<1>1. Init => BufInv /\ SegInv
  <2> SUFFICES ASSUME Init PROVE BufInv /\ SegInv
    OBVIOUS
  <2>1. Pending = {} /\ InFlight = {} /\ Waiting = {}
    BY DEF Init, Pending, InFlight, Waiting
  <2>2. Cardinality({}) = 0
    BY FS_EmptySet
  <2>3. pool = PoolSize /\ lost = 0 /\ FreeHoldNothing
    BY DEF Init, FreeHoldNothing
  <2> QED BY <2>1, <2>2, <2>3, ServerAssumption DEF BufInv, SegInv
<1>2. BufInv /\ SegInv => ResourcesBalanced
  BY DEF BufInv, SegInv, ResourcesBalanced, SegsInUse, Pending, InFlight, Waiting
<1> QED BY <1>1, <1>2, InitInv, NextInv, NextBuf, NextSeg, PTL DEF Spec

-----------------------------------------------------------------------------
(* The list, seen through info->pcb, implements the queue of connections.  *)

\* The connections in the order of the history variable.
Accepteds == [i \in 1..Len(order) |-> owner[order[i]]]

\* Reading the list through its pointers finds them.
LEMMA ConnectionsRead == Inv => Connections = Accepteds
<1> SUFFICES ASSUME Inv PROVE Connections = Accepteds
  OBVIOUS
<1>1. list \in HeadNode /\ order \in Seq(Nodes) /\ Represents(list, order)
  BY DEF Inv, ListIInv, ListTypeOK, ListWellFormed
<1>2. Contents(list) = order /\ list.len = Len(order)
  BY <1>1, ContentsRepresented DEF Represents
<1> QED BY <1>2 DEF Connections, Accepteds

\* A new client joins at the end; its pcb had no record in the list.
LEMMA AcceptJoins ==
  ASSUME Inv, NEW p \in Pcbs, NEW i \in Nodes, m_tcp_server_accept(p, i)
  PROVE  /\ \A k \in 1..Len(Accepteds) : Accepteds[k] # p
         /\ Accepteds' = Append(Accepteds, p)
<1>1. /\ state[p] = "SYN_RCVD" /\ i \notin heap /\ order' = Append(order, i)
      /\ owner' = [owner EXCEPT ![i] = p]
  BY DEF m_tcp_server_accept, Accept
<1>2. /\ order \in Seq(Nodes) /\ Len(order) \in Nat /\ Members(order) \subseteq heap
      /\ owner \in [Nodes -> Pcbs \cup {NULL}]
  BY DEF Inv, ListIInv, ListTypeOK, HeapConsistent, TypeOK
<1>3. \A k \in 1..Len(order) : order[k] \in Nodes /\ order[k] \in Members(order)
  BY <1>2 DEF Members
<1>4. Accepteds \in Seq(Pcbs \cup {NULL}) /\ Len(Accepteds) = Len(order)
  BY <1>2, <1>3 DEF Accepteds
<1>5. \A k \in 1..Len(order) : Accepteds[k] = owner[order[k]]
  BY DEF Accepteds
<1>6. ASSUME NEW k \in 1..Len(order) PROVE owner[order[k]] # p
  <2>1. PICK q \in Pcbs : state[q] = "ESTABLISHED" /\ order[k] = arg[q]
    BY <1>3 DEF Inv, ListIsEstablished
  <2>2. owner[arg[q]] = q
    BY <2>1 DEF Inv, ArgsAreLive, Accepted
  <2> QED BY <1>1, <2>1, <2>2
<1>7. Accepteds' = Append(Accepteds, p)
  <2> DEFINE a == Append(Accepteds, p)
  <2>1. /\ a \in Seq(Pcbs \cup {NULL}) /\ Len(a) = Len(order) + 1
        /\ a[Len(order) + 1] = p
        /\ \A k \in 1..Len(order) : a[k] = owner[order[k]]
    BY <1>2, <1>4, <1>5
  <2>2. /\ Len(order') = Len(order) + 1 /\ order'[Len(order) + 1] = i
        /\ \A k \in 1..Len(order) : order'[k] = order[k] /\ order[k] # i
    BY <1>1, <1>2, <1>3
  <2>3. \A k \in 1..(Len(order) + 1) : owner'[order'[k]] = a[k]
    BY <1>1, <1>2, <1>3, <2>1, <2>2
  <2> HIDE DEF a
  <2>4. a = [k \in 1..(Len(order) + 1) |-> a[k]]
    BY <2>1
  <2>5. Accepteds' = [k \in 1..(Len(order) + 1) |-> owner'[order'[k]]]
    BY <2>2 DEF Accepteds
  <2>6. Accepteds' = a
    BY <2>3, <2>4, <2>5
  <2> QED BY <2>6 DEF a
<1> QED BY <1>4, <1>5, <1>6, <1>7

\* A removed record takes its connection out and leaves the others in order.
LEMMA RemoveLeaves ==
  ASSUME Inv, NEW n \in heap, OrderAfterRemove(n, order'), owner' = owner
  PROVE  \/ Accepteds' = Accepteds
         \/ \E k \in 1..Len(Accepteds) :
              Accepteds' = [i \in 1..(Len(Accepteds) - 1) |->
                              IF i < k THEN Accepteds[i] ELSE Accepteds[i + 1]]
<1>1. /\ order \in Seq(Nodes) /\ Len(order) \in Nat
      /\ owner \in [Nodes -> Pcbs \cup {NULL}]
      /\ \A i, j \in 1..Len(order) : order[i] = order[j] => i = j
  BY DEF Inv, ListIInv, ListTypeOK, ListWellFormed, Represents, TypeOK
<1>2. CASE n \notin Members(order)
  BY <1>2 DEF OrderAfterRemove, Accepteds
<1>3. CASE n \in Members(order)
  <2>1. PICK k \in 1..Len(order) : order' = Without(order, k)
    BY <1>3 DEF OrderAfterRemove
  <2>2. /\ Len(order') = Len(order) - 1
        /\ \A i \in 1..(Len(order) - 1) :
             order'[i] = IF i < k THEN order[i] ELSE order[i + 1]
    BY <1>1, <2>1, WithoutType
  <2>3. /\ Len(Accepteds) = Len(order)
        /\ \A i \in 1..Len(order) : Accepteds[i] = owner[order[i]]
    BY <1>1 DEF Accepteds
  <2>4. ASSUME NEW i \in 1..(Len(order) - 1)
        PROVE  owner'[order'[i]] = IF i < k THEN Accepteds[i] ELSE Accepteds[i + 1]
    <3>1. i \in 1..Len(order) /\ i + 1 \in 1..Len(order)
      BY <1>1
    <3> QED BY <2>2, <2>3, <3>1
  <2>5. Accepteds' = [i \in 1..(Len(order) - 1) |-> owner'[order'[i]]]
    BY <2>2 DEF Accepteds
  <2> QED BY <2>3, <2>4, <2>5
<1> QED BY <1>2, <1>3

\* Every step of the server is a step of the queue or leaves it alone.
LEMMA StepServes ==
  Inv /\ Inv' /\ [Next]_vars => [ConnQueue!Next]_Connections
<1> SUFFICES ASSUME Inv, Inv', [Next]_vars PROVE [ConnQueue!Next]_Connections
  OBVIOUS
<1>1. Connections = Accepteds /\ Connections' = Accepteds'
  <2>1. Connections = Accepteds
    BY ConnectionsRead
  <2>2. (Inv => Connections = Accepteds)'
    BY ConnectionsRead, PTL
  <2> QED BY <2>1, <2>2
<1>2. ASSUME order' = order, owner' = owner PROVE [ConnQueue!Next]_Connections
  BY <1>1, <1>2 DEF Accepteds
<1>3. ASSUME NEW n \in heap, OrderAfterRemove(n, order'), owner' = owner
      PROVE  [ConnQueue!Next]_Connections
  BY <1>1, <1>3, RemoveLeaves DEF ConnQueue!Next, ConnQueue!Leave
<1>4. ASSUME NEW p \in Pcbs, m_tcp_server_error(arg[p]), owner' = owner
      PROVE  [ConnQueue!Next]_Connections
  <2>1. CASE arg[p] = NULL
    BY <1>2, <1>4, <2>1 DEF m_tcp_server_error, listVars
  <2>2. CASE arg[p] # NULL
    BY <1>3, <1>4, <2>2 DEF m_tcp_server_error, Error
  <2> QED BY <2>1, <2>2
<1>5. ASSUME NEW p \in Pcbs, NEW i \in Nodes, m_tcp_server_accept(p, i)
      PROVE  [ConnQueue!Next]_Connections
  BY <1>1, <1>5, AcceptJoins DEF ConnQueue!Next, ConnQueue!Join
<1>6. ASSUME NEW p \in Pcbs, RecvFin(p) PROVE [ConnQueue!Next]_Connections
  BY <1>3, <1>6 DEF RecvFin, Disconnect
<1>7. ASSUME NEW p \in Pcbs,
             SynByKilling(p) \/ AcceptFails(p) \/ Rst(p) \/ SlowTmrRemove(p)
      PROVE  [ConnQueue!Next]_Connections
  BY <1>4, <1>7 DEF SynByKilling, AcceptFails, Rst, SlowTmrRemove, Abandon, Release
<1>8. ASSUME NEW p \in Pcbs, m_tcp_server_poll(p)
      PROVE  [ConnQueue!Next]_Connections
  <2>1. \/ m_tcp_server_error(arg[p]) /\ owner' = owner
        \/ order' = order /\ owner' = owner
    BY <1>8 DEF m_tcp_server_poll, Abandon, Release, listVars
  <2> QED BY <1>2, <1>4, <2>1
<1>9. ASSUME NEW p \in Pcbs,
             SynToFree(p) \/ RecvData(p) \/ Acked(p) \/ LastAck(p)
      PROVE  [ConnQueue!Next]_Connections
  <2>1. order' = order /\ owner' = owner
    BY <1>9 DEF SynToFree, RecvData, Acked, LastAck, Release, listVars
  <2> QED BY <1>2, <2>1
<1>10. CASE MainLoop \/ UNCHANGED vars
  <2>1. order' = order /\ owner' = owner
    BY <1>10 DEF MainLoop, KeyScan, BroadcastSend, BroadcastNext, BroadcastWild,
                 TimerDone, vars, listVars
  <2> QED BY <1>2, <2>1
<1> QED BY <1>5, <1>6, <1>7, <1>8, <1>9, <1>10 DEF Next, EthIrq, Timers

\* The server's list implements the queue of connections: read through its
\* pointers and info->pcb it holds the established connections in the order
\* they were accepted, none twice, and each step adds one at the end, takes
\* one out wherever it stands, or changes nothing.
THEOREM ServesConnectionsInOrder == Spec => ServesInOrder
<1>1. Init => ConnQueue!Init
  <2> SUFFICES ASSUME Init PROVE Connections = <<>>
    BY DEF ConnQueue!Init
  <2>1. Connections = Accepteds /\ order = <<>>
    BY InitInv, ConnectionsRead DEF Init
  <2> QED BY <2>1 DEF Accepteds
<1> QED BY <1>1, InitInv, NextInv, StepServes, PTL DEF Spec, ServesInOrder, ConnQueue!Spec

-----------------------------------------------------------------------------
(* After the FIN.                                                          *)

\* A connection in LAST_ACK stays as it is, with its record and with no more to
\* send than it had, or its pcb is freed or taken for a new connection.
Winds(p) ==
  state[p] = "LAST_ACK" =>
    \/ state'[p] \in {"CLOSED", "SYN_RCVD"}
    \/ /\ state'[p] = "LAST_ACK" /\ arg'[p] = arg[p]
       /\ unacked'[p] + unsent'[p] <= unacked[p] + unsent[p]

WindsDown == [][\A p \in Pcbs : Winds(p)]_vars

\* A step that leaves the states, records and queues of all connections but q
\* alone.
LEMMA OthersWind ==
  ASSUME PcbType, NEW q \in Pcbs, Winds(q),
         \A p \in Pcbs \ {q} : /\ state'[p] = state[p] /\ arg'[p] = arg[p]
                               /\ unacked'[p] = unacked[p] /\ unsent'[p] = unsent[p]
  PROVE  \A p \in Pcbs : Winds(p)
<1>1. ASSUME NEW p \in Pcbs, p # q PROVE Winds(p)
  <2>1. unacked[p] + unsent[p] <= unacked[p] + unsent[p]
    BY DEF PcbType
  <2> QED BY <1>1, <2>1 DEF Winds
<1> QED BY <1>1

\* The same for a step that leaves all of them alone.
LEMMA AllWind ==
  ASSUME PcbType, UNCHANGED <<state, arg, unacked, unsent>>
  PROVE  \A p \in Pcbs : Winds(p)
<1>1. \A p \in Pcbs : unacked[p] + unsent[p] <= unacked[p] + unsent[p]
  BY DEF PcbType
<1> QED BY <1>1 DEF Winds

\* A pcb is freed.
LEMMA ReleaseWinds ==
  ASSUME PcbType, NEW q \in Pcbs, NEW s \in {"CLOSED", "SYN_RCVD"}, NEW n,
         Release(q, s, n)
  PROVE  \A p \in Pcbs : Winds(p)
<1>1. /\ state' = [state EXCEPT ![q] = s] /\ arg' = [arg EXCEPT ![q] = NULL]
      /\ unacked' = [unacked EXCEPT ![q] = n] /\ unsent' = [unsent EXCEPT ![q] = 0]
  BY DEF Release
<1>2. state'[q] = s
  BY <1>1 DEF PcbType
<1>3. Winds(q)
  BY <1>2 DEF Winds
<1>4. \A p \in Pcbs \ {q} : /\ state'[p] = state[p] /\ arg'[p] = arg[p]
                            /\ unacked'[p] = unacked[p] /\ unsent'[p] = unsent[p]
  BY <1>1 DEF PcbType
<1> QED BY <1>3, <1>4, OthersWind

\* Something is queued, on a connection that is not in LAST_ACK.
LEMMA EnqueueOther ==
  ASSUME PcbType, NEW q \in Pcbs, Enqueue(q) \/ UNCHANGED queues
  PROVE  \A p \in Pcbs \ {q} : unacked'[p] = unacked[p] /\ unsent'[p] = unsent[p]
<1>1. CASE Enqueue(q)
  BY <1>1 DEF PcbType, Enqueue
<1>2. CASE UNCHANGED queues
  BY <1>2 DEF queues
<1> QED BY <1>1, <1>2

\* tcp_sendData, whosever record it is called with: tcp_write refuses a pcb in
\* LAST_ACK.
LEMMA SendDataWinds ==
  ASSUME PcbType, NEW i, NEW rx, tcp_sendData(i, rx), UNCHANGED <<state, arg>>
  PROVE  \A p \in Pcbs : Winds(p)
<1>1. (CanWrite(owner[i]) /\ Enqueue(owner[i])) \/ UNCHANGED queues
  BY DEF tcp_sendData
<1>2. CASE UNCHANGED queues
  BY <1>2, AllWind DEF queues
<1>3. CASE CanWrite(owner[i]) /\ Enqueue(owner[i])
  <2>1. owner[i] \in Pcbs /\ state[owner[i]] # "LAST_ACK"
    BY <1>3 DEF CanWrite
  <2>2. Winds(owner[i])
    BY <2>1 DEF Winds
  <2>3. \A p \in Pcbs \ {owner[i]} :
          unacked'[p] = unacked[p] /\ unsent'[p] = unsent[p]
    BY <1>3, <2>1, EnqueueOther
  <2> QED BY <2>1, <2>2, <2>3, OthersWind
<1> QED BY <1>1, <1>2, <1>3

\* An ACK of data sent before the FIN: the FIN leaves, and nothing joins it.
LEMMA AckedWinds ==
  ASSUME PcbType, NEW q \in Pcbs, Acked(q)
  PROVE  \A p \in Pcbs : Winds(p)
<1> DEFINE a == IF sendBuf[arg[q]] /\ state[q] # "LAST_ACK"
                THEN unsent[q] + 1 ELSE unsent[q]
<1>1. /\ unacked' = [unacked EXCEPT ![q] = a] /\ unsent' = [unsent EXCEPT ![q] = 0]
      /\ UNCHANGED <<state, arg>>
  BY DEF Acked
<1>2. state[q] = "LAST_ACK" => a = unsent[q]
  OBVIOUS
<1> HIDE DEF a
<1>3. unacked'[q] = a /\ unsent'[q] = 0
  BY <1>1 DEF PcbType
<1>4. state[q] = "LAST_ACK" => unacked'[q] + unsent'[q] <= unacked[q] + unsent[q]
  BY <1>2, <1>3 DEF PcbType
<1>5. Winds(q)
  BY <1>1, <1>4 DEF Winds
<1>6. \A p \in Pcbs \ {q} : unacked'[p] = unacked[p] /\ unsent'[p] = unsent[p]
  BY <1>1 DEF PcbType
<1> QED BY <1>1, <1>5, <1>6, OthersWind

\* Accepting and closing concern connections that are not in LAST_ACK yet.
LEMMA AcceptWinds ==
  ASSUME PcbType, NEW q \in Pcbs, NEW i \in Nodes, m_tcp_server_accept(q, i)
  PROVE  \A p \in Pcbs : Winds(p)
<1>1. Winds(q)
  BY DEF m_tcp_server_accept, Winds
<1>2. /\ state' = [state EXCEPT ![q] = "ESTABLISHED"] /\ arg' = [arg EXCEPT ![q] = i]
      /\ unacked' = [unacked EXCEPT ![q] = unsent[q]]
      /\ unsent' = [unsent EXCEPT ![q] = 0]
  BY DEF m_tcp_server_accept
<1>3. \A p \in Pcbs \ {q} : /\ state'[p] = state[p] /\ arg'[p] = arg[p]
                            /\ unacked'[p] = unacked[p] /\ unsent'[p] = unsent[p]
  BY <1>2 DEF PcbType
<1> QED BY <1>1, <1>3, OthersWind

\* ... and the FIN itself is queued before the state changes.
LEMMA RecvFinWinds ==
  ASSUME PcbType, NEW q \in Pcbs, RecvFin(q)
  PROVE  \A p \in Pcbs : Winds(p)
<1>1. Winds(q)
  BY DEF RecvFin, Winds
<1>2. Enqueue(q) \/ UNCHANGED queues
  BY DEF RecvFin
<1>3. \A p \in Pcbs \ {q} : unacked'[p] = unacked[p] /\ unsent'[p] = unsent[p]
  BY <1>2, EnqueueOther
<1>4. UNCHANGED arg /\ \E s : state' = [state EXCEPT ![q] = s]
  BY DEF RecvFin
<1>5. \A p \in Pcbs \ {q} : state'[p] = state[p]
  BY <1>4 DEF PcbType
<1> QED BY <1>1, <1>3, <1>4, <1>5, OthersWind

\* Every step.
LEMMA NextWinds == Inv /\ [Next]_vars => \A p \in Pcbs : Winds(p)
<1> SUFFICES ASSUME Inv, [Next]_vars PROVE \A p \in Pcbs : Winds(p)
  OBVIOUS
<1>1. PcbType
  BY TypeParts DEF Inv
<1>2. ASSUME NEW q \in Pcbs, SynToFree(q) \/ SynByKilling(q)
      PROVE  \A p \in Pcbs : Winds(p)
  <2>1. Release(q, "SYN_RCVD", 1) \/ Release(q, "CLOSED", 0)
    BY <1>2 DEF SynToFree, SynByKilling
  <2> QED BY <1>1, <2>1, ReleaseWinds
<1>3. ASSUME NEW q \in Pcbs,
             AcceptFails(q) \/ LastAck(q) \/ Rst(q) \/ SlowTmrRemove(q)
      PROVE  \A p \in Pcbs : Winds(p)
  <2>1. Release(q, "CLOSED", 0)
    BY <1>3 DEF AcceptFails, LastAck, Rst, SlowTmrRemove, Abandon
  <2> QED BY <1>1, <2>1, ReleaseWinds
<1>4. ASSUME NEW q \in Pcbs, m_tcp_server_poll(q) PROVE \A p \in Pcbs : Winds(p)
  <2>1. Release(q, "CLOSED", 0) \/ UNCHANGED <<state, arg, unacked, unsent>>
    BY <1>4 DEF m_tcp_server_poll, Abandon, queues
  <2> QED BY <1>1, <2>1, ReleaseWinds, AllWind
<1>5. ASSUME NEW q \in Pcbs, RecvData(q) PROVE \A p \in Pcbs : Winds(p)
  BY <1>1, <1>5, SendDataWinds DEF RecvData
<1>6. CASE BroadcastSend
  BY <1>1, <1>6, SendDataWinds DEF BroadcastSend
<1>7. CASE MainLoop /\ ~BroadcastSend
  <2>1. UNCHANGED <<state, arg, unacked, unsent>>
    BY <1>7 DEF MainLoop, KeyScan, BroadcastNext, BroadcastWild, TimerDone, queues
  <2> QED BY <1>1, <2>1, AllWind
<1>8. CASE UNCHANGED vars
  BY <1>1, <1>8, AllWind DEF vars, queues
<1> QED BY <1>1, <1>2, <1>3, <1>4, <1>5, <1>6, <1>7, <1>8, AcceptWinds,
           RecvFinWinds, AckedWinds DEF Next, EthIrq, Timers

\* Nothing is queued behind a FIN, by either context: a reply that waits in
\* sendBuf and a broadcast that still stands at the removed record both come to
\* tcp_write, which refuses.  So a connection that waits for its last ACK only
\* winds down, and its record stays with it until its pcb goes: the safety part
\* of LastAckEnds.
THEOREM NothingAfterFin == Spec => WindsDown
<1> DEFINE W == \A p \in Pcbs : Winds(p)
<1>1. Inv /\ [Next]_vars => Inv' /\ [W]_vars
  BY NextInv, NextWinds
<1> HIDE DEF W
<1>2. Spec => [][W]_vars
  BY <1>1, InitInv, PTL DEF Spec
<1> QED BY <1>2 DEF WindsDown, W
=============================================================================
