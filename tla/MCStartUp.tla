----------------------------- MODULE MCStartUp ------------------------------
(***************************************************************************)
(* StartUp with two addresses to offer, in the pool in which the           *)
(* allocations of an attempt run out at different places.                  *)
(***************************************************************************)
EXTENDS StartUp

CONSTANTS a1, a2

SmallNeed == [DMARxDscrTab |-> 1, DMATxDscrTab |-> 1,
              Rx_Buff |-> 2, Tx_Buff |-> 2,
              memp_memory |-> 2, ram_heap |-> 3]
=============================================================================
