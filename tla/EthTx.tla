-------------------------------- MODULE EthTx -------------------------------
(***************************************************************************)
(* Transmission: low_level_output of ethernetif.c, ETH_Tx_Packet and       *)
(* ETH_GetCurrentTxBuffer of project/HARDWARE/ETHERNET/lan8720.c, and the  *)
(* Ethernet DMA.                                                           *)
(*                                                                         *)
(* lwIP sends from the main loop (broadcast, timers) and from the Ethernet *)
(* interrupt (everything it answers).  The main loop's call is taken one   *)
(* access to shared memory at a time, a frame being copied pbuf by pbuf;   *)
(* the interrupt's call is one step, since nothing preempts it.  Nothing   *)
(* keeps that step from coming in the middle of the main loop's call,      *)
(* against lwIP's rule for its callers.  From the main loop's look at OWN  *)
(* to the new DMATxDescToSet it does harm if it hands a descriptor over    *)
(* too, which mixed tells of.  The DMA goes round the ring by itself and   *)
(* stops (TBUS) at a descriptor that is not its own.                       *)
(***************************************************************************)
EXTENDS EthFrames

CONSTANTS ETH_TXBUFNB,
          NONE,
          Pbufs  \* the length of a frame's chain of pbufs

ASSUME TxAssumption ==
  /\ ETH_TXBUFNB \in Nat \ {0} /\ Pbufs \in Nat \ {0}
  /\ NONE \notin Frames

VARIABLES
  own,    \* the OWN bits
  data,   \* the buffers, in the pieces that low_level_output copies
  taken,  \* history: the frame accepted for each descriptor under way
  txDma,    \* the descriptor at which the DMA is
  tbus,   \* ETH_DMASR_TBUS: the DMA has stopped
  set,    \* DMATxDescToSet
  pc,     \* the main loop's place in low_level_output
  frame,  \* ... its argument
  buffer, \* ... its local variable, as a descriptor's number
  pbuf,   \* ... the pbuf it is at
  cached, \* ... DMATxDescToSet as ETH_Tx_Packet first read it
  mixed   \* history: the interrupt handed over a descriptor while the main
          \* loop was handing over one

ring == <<own, data, taken>>
engine == <<txDma, tbus>>
local == <<frame, buffer, pbuf, cached>>
txVars == <<ring, engine, set, pc, local, mixed>>

TxRing == 0 .. ETH_TXBUFNB - 1

\* Buffer2NextDescAddr.
TxSucc(d) == (d + 1) % ETH_TXBUFNB

Piece == Frames \cup {NONE}

\* A buffer with f in all its pieces.
Filled(f) == [i \in 1 .. Pbufs |-> f]

TxTypeOK ==
  /\ own \in [TxRing -> BOOLEAN]
  /\ data \in [TxRing -> [1 .. Pbufs -> Piece]]
  /\ taken \in [TxRing -> Piece]
  /\ txDma \in TxRing /\ set \in TxRing /\ buffer \in TxRing /\ cached \in TxRing
  /\ tbus \in BOOLEAN
  /\ pc \in {"idle", "copy", "check", "own", "resume", "advance"}
  /\ frame \in Piece /\ pbuf \in 1 .. Pbufs
  /\ mixed \in BOOLEAN

\* The main loop has seen that the descriptor is free and has not yet moved
\* DMATxDescToSet on.
HandingOver == pc \in {"own", "resume", "advance"}

\* ETH_DMATxDescChainInit and ETH_Start.
TxInit ==
  /\ own = [d \in TxRing |-> FALSE]
  /\ data = [d \in TxRing |-> Filled(NONE)]
  /\ taken = [d \in TxRing |-> NONE]
  /\ txDma = 0 /\ set = 0 /\ buffer = 0 /\ cached = 0
  /\ tbus = FALSE
  /\ pc = "idle"
  /\ frame = NONE /\ pbuf = 1
  /\ mixed = FALSE

-----------------------------------------------------------------------------
(* The main loop in low_level_output.                                      *)

\* The call returns, and its local variables are gone.
Return == pc' = "idle" /\ frame' = NONE /\ buffer' = 0 /\ pbuf' = 1 /\ cached' = 0

\* buffer = ETH_GetCurrentTxBuffer().
Output(f) ==
  /\ pc = "idle"
  /\ frame' = f /\ buffer' = set
  /\ pc' = "copy"
  /\ UNCHANGED <<ring, engine, set, pbuf, cached, mixed>>

\* memcpy of one pbuf of the chain.
Copy ==
  /\ pc = "copy"
  /\ data' = [data EXCEPT ![buffer][pbuf] = frame]
  /\ IF pbuf = Pbufs THEN pc' = "check" /\ UNCHANGED pbuf
     ELSE pbuf' = pbuf + 1 /\ UNCHANGED pc
  /\ UNCHANGED <<own, taken, engine, set, frame, buffer, cached, mixed>>

\* Mutant of ETH_Tx_Packet: OWN is not looked at.
CheckNot ==
  /\ pc = "check"
  /\ cached' = set
  /\ pc' = "own"
  /\ UNCHANGED <<ring, engine, set, frame, buffer, pbuf, mixed>>

\* ETH_Tx_Packet: a descriptor of the DMA means ETH_ERROR.
Check ==
  /\ pc = "check"
  /\ IF own[set] THEN Return
     ELSE pc' = "own" /\ cached' = set /\ UNCHANGED <<frame, buffer, pbuf>>
  /\ UNCHANGED <<ring, engine, set, mixed>>

\* Status |= OWN.  DMATxDescToSet is not volatile: the compiler may use the
\* value it has or read it again.
SetOwn ==
  /\ pc = "own"
  /\ \E d \in {cached, set} :
       /\ own' = [own EXCEPT ![d] = TRUE]
       /\ taken' = [taken EXCEPT ![d] = frame]
  /\ pc' = "resume"
  /\ UNCHANGED <<data, engine, set, local, mixed>>

\* Mutant of ETH_Tx_Packet: transmission is not resumed.
ResumeNot ==
  /\ pc = "resume"
  /\ pc' = "advance"
  /\ UNCHANGED <<ring, engine, set, local, mixed>>

\* TBUS is cleared and the DMA resumed.
Resume ==
  /\ pc = "resume"
  /\ tbus' = FALSE
  /\ pc' = "advance"
  /\ UNCHANGED <<ring, txDma, set, local, mixed>>

\* Mutant of ETH_Tx_Packet: a descriptor is left out.
AdvanceByTwo ==
  /\ pc = "advance"
  /\ set' = TxSucc(TxSucc(set))
  /\ Return
  /\ UNCHANGED <<ring, engine, mixed>>

\* DMATxDescToSet moves on; ETH_SUCCESS.
Advance ==
  /\ pc = "advance"
  /\ \E d \in {cached, set} : set' = TxSucc(d)
  /\ Return
  /\ UNCHANGED <<ring, engine, mixed>>

Main == Copy \/ Check \/ SetOwn \/ Resume \/ Advance

\* The interrupt's call, from beginning to end.
IrqOutput(f) ==
  /\ data' = [data EXCEPT ![set] = Filled(f)]
  /\ IF own[set] THEN UNCHANGED <<own, taken, tbus, set>>
     ELSE /\ own' = [own EXCEPT ![set] = TRUE]
          /\ taken' = [taken EXCEPT ![set] = f]
          /\ tbus' = FALSE
          /\ set' = TxSucc(set)
  /\ mixed' = (mixed \/ (~own[set] /\ HandingOver))
  /\ UNCHANGED <<txDma, pc, local>>

-----------------------------------------------------------------------------
(* The DMA.                                                                *)

\* It sends what is in the buffer of its descriptor and gives it back ...
Transmit ==
  /\ ~tbus /\ own[txDma]
  /\ own' = [own EXCEPT ![txDma] = FALSE]
  /\ taken' = [taken EXCEPT ![txDma] = NONE]
  /\ txDma' = TxSucc(txDma)
  /\ UNCHANGED <<data, tbus, set, pc, local, mixed>>

\* ... or stops.
Suspend ==
  /\ ~tbus /\ ~own[txDma]
  /\ tbus' = TRUE
  /\ UNCHANGED <<ring, txDma, set, pc, local, mixed>>

-----------------------------------------------------------------------------
\* The frames accepted and not yet sent, as the DMA will come to them; the
\* descriptor being handed over counts once OWN is set.
Owned == {k \in 1 .. ETH_TXBUFNB : \A j \in 1 .. k : own[(txDma + j - 1) % ETH_TXBUFNB]}

Pending == [k \in Owned |-> taken[(txDma + k - 1) % ETH_TXBUFNB]]

TxFifo == INSTANCE FrameFifo WITH Cap <- ETH_TXBUFNB, queue <- Pending

\* The senders and the DMA meet in the OWN bits only.  Frames are taken by the
\* DMA in the order they were accepted, each once, never more than ETH_TXBUFNB
\* are under way, and none is accepted that the DMA does not come to next:
\* wherever the interrupt's calls come in the main loop's, as long as none of
\* them hands a descriptor over while the main loop does.
TxInOrder == TxFifo!Init /\ [][TxFifo!Next \/ mixed']_Pending

\* A call of either context refuses a frame only when every buffer is under
\* way, with the same reservation; an interrupt in the middle of a hand-over
\* that has its OWN bit set already is the one that finds the ring full too
\* early.
RefusedOnlyWhenFull ==
  ~mixed /\ ~HandingOver /\ own[set] => \A d \in TxRing : own[d]

\* ethernetif.c:43-44 (in Chinese) gives the meaning of the results: ERR_OK,
\* sent normally, and ERR_MEM, sending failed.  So the frame that leaves is
\* the one that was accepted.
AcceptedIsSent == [][\A d \in TxRing : own[d] /\ ~own'[d] =>
                       data[d] = Filled(taken[d])]_txVars
=============================================================================
