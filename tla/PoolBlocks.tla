----------------------------- MODULE PoolBlocks -----------------------------
(***************************************************************************)
(* Runs of equal-sized blocks in one memory pool of project/MALLOC, the    *)
(* vocabulary shared by the allocator (MyMalloc), its specification        *)
(* (BlockPool) and its callers at boot (Boot).                             *)
(***************************************************************************)
EXTENDS Integers, FiniteSets

CONSTANT TblSize    \* memtblsize[memx]

ASSUME TblAssumption == TblSize \in Nat \ {0}

Table == 0 .. TblSize - 1

\* What mymem_malloc returns when it finds nothing (0XFFFFFFFF).
FAIL == -1

\* An allocation: nmemb blocks from block number off on.
Run == [off : Table, n : 1 .. TblSize]

Cells(r) == r.off .. r.off + r.n - 1

\* Where a run of n blocks fits among the runs B.
Fits(B, n) == {o \in Table : /\ o + n <= TblSize
                             /\ \A r \in B : \/ r.off + r.n <= o
                                             \/ o + n <= r.off}

\* o is the place mymem_malloc promises: the highest one.
IsPlace(B, n, o) == o \in Fits(B, n) /\ \A p \in Fits(B, n) : p <= o
=============================================================================
