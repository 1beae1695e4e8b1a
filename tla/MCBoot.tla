------------------------------- MODULE MCBoot -------------------------------
(***************************************************************************)
(* Boot with the board's own sizes: SRAMIN is 100 kB, and the buffers are  *)
(* as lwipopts.h and stm32f4x7_eth.h size them (memp_memory is about       *)
(* 14 kB), in units of 160 bytes, five blocks, which is the size of a      *)
(* descriptor table.                                                       *)
(***************************************************************************)
EXTENDS Boot

BoardNeed == [DMARxDscrTab |-> 1, DMATxDscrTab |-> 1,
              Rx_Buff |-> 48, Tx_Buff |-> 48,
              memp_memory |-> 88, ram_heap |-> 101]
=============================================================================
