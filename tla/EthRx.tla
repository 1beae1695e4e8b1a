-------------------------------- MODULE EthRx -------------------------------
(***************************************************************************)
(* Reception: ETH_IRQHandler and ETH_Rx_Packet of                          *)
(* project/HARDWARE/ETHERNET/lan8720.c, low_level_input and                *)
(* ethernetif_input of ethernetif.c, and the Ethernet DMA.                 *)
(*                                                                         *)
(* The DMA fills the descriptors of a ring in turn and raises the flags R  *)
(* and NIS; NIS calls the handler, which nothing preempts and which goes   *)
(* round while the descriptor at DMARxDescToGet holds a frame, and then    *)
(* clears the two flags.  The DMA goes on all the while.  ETH_MACDMA_Config*)
(* makes the MAC drop every frame with an error and every frame longer     *)
(* than a buffer, so a descriptor the DMA has given up holds one whole     *)
(* frame.                                                                  *)
(***************************************************************************)
EXTENDS EthFrames

CONSTANTS ETH_RXBUFNB,
          OWN,      \* Status of a descriptor that is the DMA's
          Late      \* bound: frames that arrive between the handler's last
                    \* look at the ring and its return

ASSUME RxAssumption ==
  ETH_RXBUFNB \in Nat \ {0} /\ OWN \notin Frames /\ Late \in Nat

VARIABLES
  desc,   \* OWN, or the frame in the buffer of a descriptor of the CPU
  rxDma,    \* the descriptor the DMA fills next
  get,    \* DMARxDescToGet
  rbus,   \* ETH_DMASR_RBUS: the DMA found no descriptor and has stopped
  r,      \* ETH_DMA_IT_R
  nis,    \* ETH_DMA_IT_NIS
  at,     \* the handler's place
  late,   \* frames since the handler left its loop
  beat    \* history: the parity of the frames on the wire

handler == <<get, at>>
rxVars == <<desc, rxDma, rbus, r, nis, handler, late, beat>>

RxRing == 0 .. ETH_RXBUFNB - 1

\* Mutant of ETH_DMARxDescChainInit: the last descriptor has a successor.
RxSuccNoWrap(d) == d + 1

\* Buffer2NextDescAddr.
RxSucc(d) == (d + 1) % ETH_RXBUFNB

RxTypeOK ==
  /\ desc \in [RxRing -> Frames \cup {OWN}]
  /\ rxDma \in RxRing /\ get \in RxRing
  /\ rbus \in BOOLEAN /\ r \in BOOLEAN /\ nis \in BOOLEAN
  /\ at \in {"idle", "loop", "packet", "giveBack", "input", "clearR",
             "clearNIS", "fault"}
  /\ late \in 0 .. Late
  /\ beat \in BOOLEAN

\* ETH_DMARxDescChainInit and ETH_Start.
RxInit ==
  /\ desc = [d \in RxRing |-> OWN]
  /\ rxDma = 0 /\ get = 0
  /\ rbus = FALSE /\ r = FALSE /\ nis = FALSE
  /\ at = "idle"
  /\ late = 0
  /\ beat = FALSE

-----------------------------------------------------------------------------
(* The DMA.                                                                *)

\* While the handler clears the flags there is time for Late frames only.
InTime ==
  IF at \in {"clearR", "clearNIS"} THEN late < Late /\ late' = late + 1
                                   ELSE UNCHANGED late

\* A frame is stored.
Store(f) ==
  /\ ~rbus /\ desc[rxDma] = OWN
  /\ InTime
  /\ desc' = [desc EXCEPT ![rxDma] = f]
  /\ rxDma' = RxSucc(rxDma)
  /\ r' = TRUE /\ nis' = TRUE
  /\ UNCHANGED <<rbus, handler>>

\* A frame finds no descriptor and is lost; the DMA waits to be told that
\* there is one.  (RBUS raises no interrupt: only R is enabled.)
Overrun ==
  /\ rbus \/ desc[rxDma] # OWN
  /\ InTime
  /\ rbus' = TRUE
  /\ UNCHANGED <<desc, rxDma, r, nis, handler>>

Arrive == beat' = ~beat /\ (Overrun \/ \E f \in Frames : Store(f))

-----------------------------------------------------------------------------
(* ETH_IRQHandler.                                                         *)

Enter ==
  /\ at = "idle" /\ nis
  /\ at' = "loop" /\ late' = 0
  /\ UNCHANGED <<desc, rxDma, get, rbus, r, nis, beat>>

\* Mutant of ETH_IRQHandler: a pending interrupt is taken for a frame.
LoopOnFlag ==
  /\ at = "loop"
  /\ at' = IF r THEN "packet" ELSE "clearR"
  /\ UNCHANGED <<desc, rxDma, get, rbus, r, nis, late, beat>>

\* ETH_GetRxPktSize(DMARxDescToGet) # 0.
Loop ==
  /\ at = "loop"
  /\ at' = IF desc[get] # OWN THEN "packet" ELSE "clearR"
  /\ UNCHANGED <<desc, rxDma, get, rbus, r, nis, late, beat>>

\* Mutant of ETH_Rx_Packet: DMARxDescToGet moves on by two.
PacketSkips ==
  /\ at = "packet"
  /\ desc' = [desc EXCEPT ![get] = OWN]
  /\ get' = RxSucc(RxSucc(get))
  /\ at' = "giveBack"
  /\ UNCHANGED <<rxDma, rbus, r, nis, late, beat>>

\* ETH_Rx_Packet and low_level_input up to the descriptor's return: the
\* frame is copied to a pbuf, or dropped if there is none.  For a descriptor of the DMA
\* ETH_Rx_Packet resumes reception and returns a frame without descriptor,
\* into which low_level_input writes all the same.
Packet ==
  /\ at = "packet"
  /\ IF desc[get] = OWN
     THEN rbus' = FALSE /\ at' = "fault" /\ UNCHANGED <<desc, get>>
     ELSE /\ desc' = [desc EXCEPT ![get] = OWN]
          /\ get' = RxSucc(get)
          /\ at' = "giveBack"
          /\ UNCHANGED rbus
  /\ UNCHANGED <<rxDma, r, nis, late, beat>>

\* Mutant of low_level_input: reception is not resumed.
GiveBackNoResume ==
  /\ at = "giveBack"
  /\ at' = "input"
  /\ UNCHANGED <<desc, rxDma, get, rbus, r, nis, late, beat>>

\* ... and the end of low_level_input: RBUS is cleared, the DMA resumed.
GiveBack ==
  /\ at = "giveBack"
  /\ rbus' = FALSE
  /\ at' = "input"
  /\ UNCHANGED <<desc, rxDma, get, r, nis, late, beat>>

\* netif->input returns: lwIP has dealt with the frame.
InputDone ==
  /\ at = "input"
  /\ at' = "loop"
  /\ UNCHANGED <<desc, rxDma, get, rbus, r, nis, late, beat>>

ClearR ==
  /\ at = "clearR"
  /\ r' = FALSE
  /\ at' = "clearNIS"
  /\ UNCHANGED <<desc, rxDma, get, rbus, nis, late, beat>>

ClearNIS ==
  /\ at = "clearNIS"
  /\ nis' = FALSE
  /\ at' = "idle"
  /\ late' = 0
  /\ UNCHANGED <<desc, rxDma, get, rbus, r, beat>>

ETH_IRQHandler == \/ Enter \/ Loop \/ Packet \/ GiveBack \/ InputDone
                  \/ ClearR \/ ClearNIS

-----------------------------------------------------------------------------
\* The descriptors of the CPU, from DMARxDescToGet on.
Held == {k \in 1 .. ETH_RXBUFNB :
           \A j \in 1 .. k : desc[(get + j - 1) % ETH_RXBUFNB] # OWN}

Waiting == [k \in Held |-> desc[(get + k - 1) % ETH_RXBUFNB]]

RxFifo == INSTANCE FrameFifo WITH Cap <- ETH_RXBUFNB, queue <- Waiting

\* Frames reach lwIP in the order in which the DMA stored them, each once:
\* the handler and the DMA, which share nothing but the descriptors' OWN
\* bits and go round the ring at their own pace, never pass each other,
\* also when the ring is full.
RxInOrder == RxFifo!Spec

\* low_level_input always has a descriptor to give back: what the loop's
\* condition saw still holds when ETH_Rx_Packet looks again.
PacketIsThere == at # "fault"

\* As long as frames keep coming, none waits for ever and reception never
\* stops: neither a full ring, which stops the DMA without an interrupt,
\* nor an interrupt lost while the flags are cleared is the end of it.
StreamFlows ==
  []<><<Arrive>>_rxVars =>
    /\ \A d \in RxRing : desc[d] # OWN ~> desc[d] = OWN
    /\ rbus ~> ~rbus
=============================================================================
