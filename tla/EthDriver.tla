----------------------------- MODULE EthDriver ------------------------------
(***************************************************************************)
(* The Ethernet driver: reception (EthRx) and transmission (EthTx) as they *)
(* share the processor.  While ETH_IRQHandler runs the main loop stands    *)
(* still, wherever it is; lwIP, called with a received frame, may send any *)
(* number of frames before it returns.  The two DMA engines never stop for *)
(* either.                                                                 *)
(***************************************************************************)
EXTENDS EthRx, EthTx

driverVars == <<rxVars, txVars>>

DriverInit == RxInit /\ TxInit

Wire == Arrive /\ UNCHANGED txVars

Handler == ETH_IRQHandler /\ UNCHANGED txVars

\* ethernetif_input is inside netif->input, and lwIP sends.
Reply == /\ at = "input"
         /\ \E f \in Frames : IrqOutput(f)
         /\ UNCHANGED rxVars

\* The main loop sends: a broadcast, a retransmission, an ARP request.
MainOutput == /\ at = "idle"
              /\ \E f \in Frames : Output(f)
              /\ UNCHANGED rxVars

MainStep == at = "idle" /\ Main /\ UNCHANGED rxVars

TxEngine == (Transmit \/ Suspend) /\ UNCHANGED rxVars

DriverNext == Wire \/ Handler \/ Reply \/ MainOutput \/ MainStep \/ TxEngine

\* The processor executes a handler whose interrupt is pending, and the main
\* loop if the handler leaves it the time again and again; the transmitting
\* DMA does its work.  Nothing is assumed of the network.
DriverSpec ==
  /\ DriverInit /\ [][DriverNext]_driverVars
  /\ WF_driverVars(Handler)
  /\ SF_driverVars(MainStep)
  /\ WF_driverVars(TxEngine)

-----------------------------------------------------------------------------
DriverTypeOK == RxTypeOK /\ TxTypeOK

\* What has been accepted is sent, although the DMA may stop at any moment
\* of the hand-over, the handler may come and send at any moment of it and no
\* further frame may follow: as long as received frames do not keep the
\* processor in the handler for ever, and no two hand-overs are mixed.
TxDrains == []<>(at = "idle") => \A d \in TxRing : own[d] ~> (~own[d] \/ mixed)
=============================================================================
