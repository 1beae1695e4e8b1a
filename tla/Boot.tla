-------------------------------- MODULE Boot --------------------------------
(***************************************************************************)
(* main() of project/USER/main.c up to the end of the lwip_comm_init loop. *)
(* Each attempt allocates four buffers for the Ethernet DMA and two for    *)
(* lwIP from the pool SRAMIN and then waits for the PHY, which needs the   *)
(* cable; an attempt that fails is repeated after 1.2 s.  The pool is the  *)
(* abstract one that MyMalloc implements.                                  *)
(***************************************************************************)
EXTENDS PoolBlocks, Sequences

CONSTANT Need   \* the blocks each buffer takes

EthBufs == <<"DMARxDscrTab", "DMATxDscrTab", "Rx_Buff", "Tx_Buff">>
MemBufs == <<"memp_memory", "ram_heap">>
Buffers == {EthBufs[i] : i \in 1 .. 4} \cup {MemBufs[i] : i \in 1 .. 2}

ASSUME BootAssumption == Need \in [Buffers -> 1 .. TblSize]

VARIABLES runs,   \* the runs allocated in SRAMIN
          ptr,    \* the six global pointers, as block numbers
          pc,     \* the call in progress
          k,      \* ... and the allocation it has come to
          cable   \* the cable is plugged in

vars == <<runs, ptr, pc, k, cable>>

BootTypeOK ==
  /\ runs \in SUBSET Run
  /\ ptr \in [Buffers -> Table \cup {FAIL}]
  /\ pc \in {"ETH_Mem_Malloc", "lwip_comm_mem_malloc", "link", "autoneg",
             "netif_add", "retry", "done"}
  /\ k \in 1 .. 5
  /\ cable \in BOOLEAN

Init ==
  /\ runs = {}
  /\ ptr = [x \in Buffers |-> FAIL]
  /\ pc = "ETH_Mem_Malloc"
  /\ k = 1
  /\ cable \in BOOLEAN

Goto(l) == pc' = l /\ k' = 1

\* x = mymalloc(SRAMIN, ...): the highest place, as BlockPool grants it.
mymalloc(x) ==
  \/ /\ Fits(runs, Need[x]) = {}
     /\ ptr' = [ptr EXCEPT ![x] = FAIL]
     /\ UNCHANGED runs
  \/ \E o \in Table :
       /\ IsPlace(runs, Need[x], o)
       /\ ptr' = [ptr EXCEPT ![x] = o]
       /\ runs' = runs \cup {[off |-> o, n |-> Need[x]]}

\* myfree of the pointers X; they are not reset.
FreeAll(X) ==
  /\ runs' = {r \in runs : \A x \in X : r.off # ptr[x]}
  /\ UNCHANGED ptr

Elements(s) == {s[i] : i \in 1 .. Len(s)}

\* Mutant of the checks: all the pointers must be NULL for a failure.
AllocateAnd(l, bufs, next) ==
  /\ pc = l
  /\ IF k <= Len(bufs)
     THEN mymalloc(bufs[k]) /\ k' = k + 1 /\ UNCHANGED pc
     ELSE IF \A x \in Elements(bufs) : ptr[x] = FAIL
          THEN FreeAll(Elements(bufs)) /\ Goto("retry")
          ELSE UNCHANGED <<runs, ptr>> /\ Goto(next)
  /\ UNCHANGED cable

\* What ETH_Mem_Malloc and lwip_comm_mem_malloc have in common: all the
\* allocations, then one check for all of them, and if one failed
\* ETH_Mem_Free or lwip_comm_mem_free of the buffers of this call.
Allocate(l, bufs, next) ==
  /\ pc = l
  /\ IF k <= Len(bufs)
     THEN mymalloc(bufs[k]) /\ k' = k + 1 /\ UNCHANGED pc
     ELSE IF \E x \in Elements(bufs) : ptr[x] = FAIL
          THEN FreeAll(Elements(bufs)) /\ Goto("retry")
          ELSE UNCHANGED <<runs, ptr>> /\ Goto(next)
  /\ UNCHANGED cable

ETH_Mem_Malloc ==
  Allocate("ETH_Mem_Malloc", EthBufs, "lwip_comm_mem_malloc")

lwip_comm_mem_malloc == Allocate("lwip_comm_mem_malloc", MemBufs, "link")

\* LAN8720_Init: the two waits in ETH_Init, for the link and for the end of
\* auto-negotiation, each with a time-out that makes the attempt fail.
LAN8720_Init(l, next) ==
  /\ pc = l
  /\ IF cable THEN Goto(next) ELSE Goto("retry")
  /\ UNCHANGED <<runs, ptr, cable>>

\* lwip_init, netif_add: neither fails.
netif_add ==
  /\ pc = "netif_add"
  /\ Goto("done")
  /\ UNCHANGED <<runs, ptr, cable>>

\* The body of main's loop.
Retry ==
  /\ pc = "retry"
  /\ Goto("ETH_Mem_Malloc")
  /\ UNCHANGED <<runs, ptr, cable>>

main ==
  \/ ETH_Mem_Malloc
  \/ lwip_comm_mem_malloc
  \/ LAN8720_Init("link", "autoneg")
  \/ LAN8720_Init("autoneg", "netif_add")
  \/ netif_add
  \/ Retry

Cable == cable' = ~cable /\ UNCHANGED <<runs, ptr, pc, k>>

Next == main \/ Cable

\* main runs, whatever the cable does.
Spec == Init /\ [][Next]_vars /\ WF_vars(main)

-----------------------------------------------------------------------------
\* x has been assigned in the current attempt.
Assigned(x) ==
  \/ pc \in {"link", "autoneg", "netif_add", "done"}
  \/ \E i \in 1 .. 4 : /\ x = EthBufs[i]
                       /\ \/ pc = "ETH_Mem_Malloc" /\ i < k
                          \/ pc = "lwip_comm_mem_malloc"
  \/ \E i \in 1 .. 2 : x = MemBufs[i] /\ pc = "lwip_comm_mem_malloc" /\ i < k

\* After any number of failed attempts, with pointers left over from them,
\* a pointer of the current attempt is NULL or has a run of its own, so that
\* nothing is freed that is not held; and when the PHY is started, which
\* hands the buffers to the DMA, none of the six is NULL.
BuffersReady ==
  /\ \A x \in Buffers : Assigned(x) =>
       \/ ptr[x] = FAIL
       \/ /\ [off |-> ptr[x], n |-> Need[x]] \in runs
          /\ \A y \in Buffers \ {x} : Assigned(y) => ptr[y] # ptr[x]
  /\ pc \in {"link", "autoneg", "netif_add", "done"} =>
       \A x \in Buffers : ptr[x] # FAIL

\* The retry loop serves its purpose: the cable must be plugged in for
\* initialisation to succeed, and once it is and stays, it does.
BootsOncePlugged == <>[]cable => <>(pc = "done")
=============================================================================
