--------------------------- MODULE MyMallocProofs ---------------------------
(***************************************************************************)
(* Proofs about the block allocator, for every table size and every set of *)
(* request sizes.                                                          *)
(***************************************************************************)
EXTENDS MyMalloc, TLAPS

USE DEF FAIL

-----------------------------------------------------------------------------
(* The inductive invariant.                                                *)

\* No run of n blocks fits strictly above c.
NoFitAbove(c) ==
  \A p \in Table : p > c /\ p + n <= TblSize
                     => \E b \in p .. p + n - 1 : memmap[b] # 0

\* The loop invariant of mymem_malloc: the cmemb entries above offset are
\* free, the one above those is not (or is beyond the table), and whatever
\* lies higher has been ruled out.
ScanInv ==
  pc = "scan" =>
    /\ n > 0
    /\ cmemb < n
    /\ offset + cmemb < TblSize
    /\ \A b \in offset + 1 .. offset + cmemb : memmap[b] = 0
    /\ offset + cmemb + 1 < TblSize => memmap[offset + cmemb + 1] # 0
    /\ NoFitAbove(offset)

\* After the loop: the place found is free, in the table, and the highest.
MarkInv ==
  pc = "mark" =>
    /\ n > 0
    /\ offset \in Table
    /\ offset + n <= TblSize
    /\ \A b \in offset .. offset + n - 1 : memmap[b] = 0
    /\ NoFitAbove(offset)

\* The run myrealloc is going to free is there until it does.
OldInv ==
  /\ pc \in {"scan", "mark"} /\ old # FAIL => \E r \in runs : r.off = old
  /\ pc = "free" => \E r \in runs : r.off = old

MallocInv ==
  /\ MallocTypeOK
  /\ RunsDisjoint
  /\ MapIsExact
  /\ ScanInv
  /\ MarkInv
  /\ OldInv

\* Two runs that begin at the same block are the same run.
LEMMA OffsetsDiffer ==
  ASSUME MallocTypeOK, RunsDisjoint,
         NEW r \in runs, NEW s \in runs, r.off = s.off
  PROVE  r = s
<1> SUFFICES ASSUME r # s PROVE FALSE
  OBVIOUS
<1>1. r \in Run /\ s \in Run
  BY DEF MallocTypeOK
<1>2. r.off \in Cells(r) /\ s.off \in Cells(s)
  BY <1>1, TblAssumption DEF Run, Cells, Table
<1> QED
  BY <1>2 DEF RunsDisjoint

\* mymem_init establishes the invariant.
LEMMA MallocInitInv == mymem_init => MallocInv
  BY TblAssumption
  DEF mymem_init, MallocInv, MallocTypeOK, RunsDisjoint, MapIsExact, ScanInv,
      MarkInv, OldInv, Table, Run, Cells

\* mymem_free clears the table entries of one run and of no other.
LEMMA FreeStep ==
  ASSUME MallocTypeOK, RunsDisjoint, MapIsExact,
         NEW i \in Table, NEW q \in runs, q.off = i, mymem_free(i)
  PROVE  /\ runs' = runs \ {q}
         /\ memmap' \in [Table -> 0 .. TblSize]
         /\ runs' \in SUBSET Run
         /\ RunsDisjoint'
         /\ MapIsExact'
<1>0. \A r \in runs : /\ r \in Run /\ r.off \in Table /\ r.n \in 1 .. TblSize
                      /\ r.off + r.n <= TblSize
  BY DEF MallocTypeOK, Run, RunsDisjoint
<1>1. runs' = runs \ {q}
  BY OffsetsDiffer DEF mymem_free
<1>2. memmap[i] = q.n
  <2>1. i \in Cells(q)
    BY <1>0, TblAssumption DEF Cells, Table
  <2> QED
    BY <2>1 DEF MapIsExact
<1>3. memmap' = [b \in Table |-> IF b \in Cells(q) THEN 0 ELSE memmap[b]]
  BY <1>2 DEF mymem_free, Cells
<1>4. memmap' \in [Table -> 0 .. TblSize]
  BY <1>3, TblAssumption DEF MallocTypeOK
<1>5. runs' \in SUBSET Run
  BY <1>1 DEF MallocTypeOK
<1>6. RunsDisjoint'
  BY <1>1 DEF RunsDisjoint, Cells
<1>7. MapIsExact'
  <2>1. ASSUME NEW r \in runs', NEW b \in Cells(r)
        PROVE  memmap'[b] = r.n
    <3>1. b \in Table
      BY <1>0, <1>1, <2>1, TblAssumption DEF Cells, Table
    <3>2. b \notin Cells(q)
      BY <1>1, <2>1 DEF RunsDisjoint
    <3> QED
      BY <1>1, <1>3, <2>1, <3>1, <3>2 DEF MapIsExact
  <2>2. ASSUME NEW b \in Table, memmap'[b] # 0
        PROVE  \E r \in runs' : b \in Cells(r)
    BY <1>1, <1>3, <2>2 DEF MapIsExact
  <2> QED
    BY <2>1, <2>2 DEF MapIsExact, Cells
<1> QED
  BY <1>1, <1>4, <1>5, <1>6, <1>7

\* Marking a free run keeps the runs apart and the table exact.
LEMMA MarkStep ==
  ASSUME MallocInv, Mark
  PROVE  /\ memmap' \in [Table -> 0 .. TblSize]
         /\ runs' \in SUBSET Run
         /\ RunsDisjoint'
         /\ MapIsExact'
<1> DEFINE new == [off |-> offset, n |-> n]
<1>0. /\ n \in 1 .. TblSize /\ offset \in Table /\ offset + n <= TblSize
      /\ \A b \in Cells(new) : memmap[b] = 0
      /\ memmap \in [Table -> 0 .. TblSize]
      /\ TblSize \in Nat
  BY TblAssumption
  DEF MallocInv, MallocTypeOK, MarkInv, Mark, Cells, Table
<1>1. new \in Run /\ new.off = offset /\ new.n = n /\ runs' = runs \cup {new}
  BY <1>0 DEF Run, Mark
<1>2. \A r \in runs : /\ r \in Run /\ r.off \in Table /\ r.n \in 1 .. TblSize
                      /\ r.off + r.n <= TblSize
                      /\ \A b \in Cells(r) : memmap[b] = r.n
  BY DEF MallocInv, MallocTypeOK, Run, RunsDisjoint, MapIsExact
<1>3. \A r \in runs : Cells(r) \cap Cells(new) = {}
  BY <1>0, <1>2
<1>4. memmap' = [b \in Table |-> IF b \in Cells(new) THEN n ELSE memmap[b]]
  BY <1>1 DEF Mark, Cells
<1>5. memmap' \in [Table -> 0 .. TblSize]
  BY <1>0, <1>4
<1>6. RunsDisjoint'
  <2>1. \A r \in runs' : r.off + r.n <= TblSize
    BY <1>0, <1>1, <1>2
  <2>2. \A r, s \in runs' : r # s => Cells(r) \cap Cells(s) = {}
    BY <1>1, <1>3 DEF MallocInv, RunsDisjoint
  <2> QED
    BY <2>1, <2>2 DEF RunsDisjoint, Cells
<1>7. MapIsExact'
  <2>1. ASSUME NEW r \in runs', NEW b \in Cells(r)
        PROVE  memmap'[b] = r.n
    <3>1. CASE r = new
      BY <1>0, <1>1, <1>4, <2>1, <3>1 DEF Cells, Table
    <3>2. CASE r \in runs
      <4>1. b \in Table
        BY <1>2, <2>1, <3>2, TblAssumption DEF Cells, Table
      <4>2. b \notin Cells(new)
        BY <1>3, <2>1, <3>2
      <4> QED
        BY <1>2, <1>4, <2>1, <3>2, <4>1, <4>2
    <3> QED
      BY <1>1, <2>1, <3>1, <3>2
  <2>2. ASSUME NEW b \in Table, memmap'[b] # 0
        PROVE  \E r \in runs' : b \in Cells(r)
    <3>1. CASE b \in Cells(new)
      BY <1>1, <3>1
    <3>2. CASE b \notin Cells(new)
      BY <1>1, <1>4, <2>2, <3>2 DEF MallocInv, MapIsExact
    <3> QED
      BY <3>1, <3>2
  <2> QED
    BY <2>1, <2>2 DEF MapIsExact, Cells
<1> QED
  BY <1>1, <1>5, <1>6, <1>7 DEF MallocInv, MallocTypeOK

-----------------------------------------------------------------------------
(* Every step preserves it.                                                *)

\* A u16 that is not full does not wrap.
LEMMA SmallMod == \A a \in Nat, m \in Nat : a < m => a % m = a
  OBVIOUS

\* One turn of the loop preserves the loop invariant.
LEMMA ScanStep ==
  ASSUME MallocInv, Scan
  PROVE  MallocInv'
<1> DEFINE c == IF memmap[offset] = 0 THEN (cmemb + 1) % CountMod ELSE 0
<1>0. /\ TblSize \in Nat \ {0} /\ CountMod \in Nat /\ TblSize < CountMod
      /\ memmap \in [Table -> 0 .. TblSize]
      /\ n \in Nat /\ n > 0 /\ cmemb \in 0 .. TblSize /\ cmemb < n
      /\ offset \in Table /\ offset + cmemb < TblSize
      /\ \A b \in offset + 1 .. offset + cmemb : memmap[b] = 0
      /\ offset + cmemb + 1 < TblSize => memmap[offset + cmemb + 1] # 0
      /\ NoFitAbove(offset)
      /\ pc = "scan"
  BY TblAssumption, MallocAssumption
  DEF MallocInv, MallocTypeOK, ScanInv, Scan
<1>1. (cmemb + 1) % CountMod = cmemb + 1
  <2>1. cmemb + 1 \in Nat /\ cmemb + 1 < CountMod
    BY <1>0 DEF Table
  <2> QED
    BY <2>1, <1>0, SmallMod
<1>2. UNCHANGED <<memmap, runs, n, old, ret>> /\ cmemb' = c
  BY DEF Scan
<1>3. RunsDisjoint' /\ MapIsExact'
  BY <1>2 DEF MallocInv, RunsDisjoint, MapIsExact, Cells
<1>4. CASE c = n
  <2>1. pc' = "mark" /\ offset' = offset
    BY <1>4 DEF Scan
  <2>2. memmap[offset] = 0 /\ n = cmemb + 1
    BY <1>0, <1>1, <1>4
  <2>3. MallocTypeOK'
    BY <1>0, <1>1, <1>2, <2>1 DEF MallocInv, MallocTypeOK, Table
  <2>4. MarkInv'
    <3>1. offset + n <= TblSize
      BY <1>0, <2>2 DEF Table
    <3>2. \A b \in offset .. offset + n - 1 : memmap[b] = 0
      BY <1>0, <2>2 DEF Table
    <3> QED
      BY <1>0, <1>2, <2>1, <3>1, <3>2 DEF MarkInv, NoFitAbove
  <2> QED
    BY <1>0, <1>2, <1>3, <2>1, <2>3, <2>4 DEF MallocInv, ScanInv, OldInv
<1>5. CASE c # n
  <2>1. pc' = "scan" /\ offset' = offset - 1
    BY <1>0, <1>5 DEF Scan
  <2>2. MallocTypeOK'
    BY <1>0, <1>1, <1>2, <2>1 DEF MallocInv, MallocTypeOK, Table
  <2>3. CASE memmap[offset] = 0
    <3>1. c = cmemb + 1 /\ cmemb + 1 < n
      BY <1>0, <1>1, <1>5, <2>3
    <3>2. \A b \in offset .. offset + cmemb : memmap[b] = 0
      BY <1>0, <2>3 DEF Table
    <3>3. \A p \in Table : p > offset - 1 /\ p + n <= TblSize
                             => \E b \in p .. p + n - 1 : memmap[b] # 0
      <4> SUFFICES ASSUME NEW p \in Table, p > offset - 1, p + n <= TblSize
                   PROVE  \E b \in p .. p + n - 1 : memmap[b] # 0
        OBVIOUS
      <4>1. CASE p > offset
        BY <1>0, <4>1 DEF NoFitAbove
      <4>2. CASE p = offset
        <5>1. offset + cmemb + 1 \in p .. p + n - 1
          BY <1>0, <3>1, <4>2 DEF Table
        <5>2. offset + cmemb + 1 < TblSize
          BY <1>0, <3>1, <4>2 DEF Table
        <5> QED
          BY <1>0, <5>1, <5>2
      <4> QED
        BY <1>0, <4>1, <4>2 DEF Table
    <3>4. ScanInv'
      <4>0. cmemb' = cmemb + 1
        BY <1>2, <3>1
      <4>1. /\ offset' + cmemb' = offset + cmemb
            /\ offset' + cmemb' + 1 = offset + cmemb + 1
            /\ offset' + 1 = offset
        BY <1>0, <2>1, <4>0 DEF Table
      <4> QED
        BY <1>0, <1>2, <2>1, <3>1, <3>2, <3>3, <4>0, <4>1 DEF ScanInv, NoFitAbove
    <3> QED
      BY <1>0, <1>2, <1>3, <2>1, <2>2, <3>4 DEF MallocInv, MarkInv, OldInv
  <2>4. CASE memmap[offset] # 0
    <3>1. cmemb' = 0
      BY <1>2, <2>4
    <3>2. \A p \in Table : p > offset - 1 /\ p + n <= TblSize
                             => \E b \in p .. p + n - 1 : memmap[b] # 0
      <4> SUFFICES ASSUME NEW p \in Table, p > offset - 1, p + n <= TblSize
                   PROVE  \E b \in p .. p + n - 1 : memmap[b] # 0
        OBVIOUS
      <4>1. CASE p > offset
        BY <1>0, <4>1 DEF NoFitAbove
      <4>2. CASE p = offset
        BY <1>0, <2>4, <4>2 DEF Table
      <4> QED
        BY <1>0, <4>1, <4>2 DEF Table
    <3>3. ScanInv'
      <4>1. /\ offset' + cmemb' + 1 = offset /\ offset' + cmemb' < TblSize
            /\ cmemb' < n
            /\ \A b \in offset' + 1 .. offset' + cmemb' : memmap[b] = 0
        BY <1>0, <2>1, <3>1 DEF Table
      <4> QED
        BY <1>0, <1>2, <2>1, <2>4, <3>2, <4>1 DEF ScanInv, NoFitAbove
    <3> QED
      BY <1>0, <1>2, <1>3, <2>1, <2>2, <3>3 DEF MallocInv, MarkInv, OldInv
  <2> QED
    BY <2>3, <2>4
<1> QED
  BY <1>4, <1>5

\* Every step of the allocator preserves the invariant.
LEMMA MallocNextInv == MallocInv /\ [MallocNext]_vars => MallocInv'
<1> SUFFICES ASSUME MallocInv, [MallocNext]_vars PROVE MallocInv'
  OBVIOUS
<1>1. ASSUME NEW size \in Sizes, NEW o \in Table \cup {FAIL},
             mymem_malloc(size, o)
      PROVE  MallocInv'
  <2>1. RunsDisjoint' /\ MapIsExact'
    BY <1>1 DEF mymem_malloc, MallocInv, RunsDisjoint, MapIsExact, Cells
  <2>2. CASE size = 0
    BY <1>1, <2>1, <2>2
    DEF mymem_malloc, MallocInv, MallocTypeOK, ScanInv, MarkInv, OldInv
  <2>3. CASE size # 0
    <3>1. nmemb(size) \in Nat /\ nmemb(size) > 0
      BY <2>3, MallocAssumption
    <3>2. /\ pc' = "scan" /\ n' = nmemb(size) /\ cmemb' = 0 /\ old' = o
          /\ offset' = TblSize - 1 /\ UNCHANGED <<memmap, runs, ret>>
          /\ o # FAIL => \E r \in runs : r.off = o
      BY <1>1, <2>3 DEF mymem_malloc
    <3>3. MallocTypeOK'
      BY <3>1, <3>2, TblAssumption DEF MallocInv, MallocTypeOK, Table
    <3>4. ScanInv'
      BY <3>1, <3>2, TblAssumption DEF ScanInv, NoFitAbove, Table
    <3> QED
      BY <2>1, <3>2, <3>3, <3>4 DEF MallocInv, MarkInv, OldInv
  <2> QED
    BY <2>2, <2>3
<1>2. CASE Scan
  BY <1>2, ScanStep
<1>3. CASE ScanFails
  BY <1>3 DEF ScanFails, MallocInv, MallocTypeOK, RunsDisjoint, MapIsExact,
              ScanInv, MarkInv, OldInv, Cells
<1>4. CASE Mark
  <2>1. /\ memmap' \in [Table -> 0 .. TblSize] /\ runs' \in SUBSET Run
        /\ RunsDisjoint' /\ MapIsExact'
    BY <1>4, MarkStep
  <2>2. MallocTypeOK'
    BY <1>4, <2>1 DEF Mark, MallocInv, MallocTypeOK, MarkInv
  <2>3. ScanInv' /\ MarkInv' /\ OldInv'
    BY <1>4 DEF Mark, MallocInv, ScanInv, MarkInv, OldInv
  <2> QED
    BY <2>1, <2>2, <2>3 DEF MallocInv
<1>5. ASSUME NEW i \in Table, myfree(i)
      PROVE  MallocInv'
  <2>1. PICK q \in runs : q.off = i
    BY <1>5 DEF myfree
  <2>2. /\ memmap' \in [Table -> 0 .. TblSize] /\ runs' \in SUBSET Run
        /\ RunsDisjoint' /\ MapIsExact'
    BY <1>5, <2>1, FreeStep DEF myfree, MallocInv
  <2> QED
    BY <1>5, <2>2 DEF myfree, MallocInv, MallocTypeOK, ScanInv, MarkInv, OldInv
<1>6. CASE ReallocFrees
  <2>1. PICK q \in runs : q.off = old
    BY <1>6 DEF ReallocFrees, MallocInv, OldInv
  <2>2. old \in Table
    BY <2>1 DEF MallocInv, MallocTypeOK, Run
  <2>3. /\ memmap' \in [Table -> 0 .. TblSize] /\ runs' \in SUBSET Run
        /\ RunsDisjoint' /\ MapIsExact'
    BY <1>6, <2>1, <2>2, FreeStep DEF ReallocFrees, MallocInv
  <2> QED
    BY <1>6, <2>3
    DEF ReallocFrees, MallocInv, MallocTypeOK, ScanInv, MarkInv, OldInv
<1>7. CASE UNCHANGED vars
  BY <1>7 DEF vars, MallocInv, MallocTypeOK, RunsDisjoint, MapIsExact,
              ScanInv, MarkInv, OldInv, NoFitAbove, Cells
<1> QED
  BY <1>1, <1>2, <1>3, <1>4, <1>5, <1>6, <1>7 DEF MallocNext

\* The invariant holds in every state the allocator can reach.
LEMMA MallocAlwaysInv == MallocSpec => []MallocInv
<1>1. MallocInv /\ UNCHANGED vars => MallocInv'
  BY MallocNextInv
<1> QED
  BY MallocInitInv, MallocNextInv, PTL DEF MallocSpec

-----------------------------------------------------------------------------
(* The theorems.                                                           *)

\* The allocator's variables keep their types: no count overflows its
\* u16 and the scan never leaves the table.
THEOREM MallocTypeCorrect == MallocSpec => []MallocTypeOK
<1>1. MallocInv => MallocTypeOK
  BY DEF MallocInv
<1> QED
  BY <1>1, MallocAlwaysInv, PTL

\* Whatever mymalloc, myrealloc and myfree do, in any order, no two callers
\* ever hold the same block.
THEOREM RunsStayDisjoint == MallocSpec => []RunsDisjoint
<1>1. MallocInv => RunsDisjoint
  BY DEF MallocInv
<1> QED
  BY <1>1, MallocAlwaysInv, PTL

\* The table of lengths describes exactly the runs that are handed out.
THEOREM MapStaysExact == MallocSpec => []MapIsExact
<1>1. MallocInv => MapIsExact
  BY DEF MallocInv
<1> QED
  BY <1>1, MallocAlwaysInv, PTL

-----------------------------------------------------------------------------
(* The allocator implements the abstract pool.                             *)

\* A place is free in the abstract pool exactly when all its entries of the
\* table are 0.
LEMMA FitsIsFree ==
  ASSUME MallocTypeOK, RunsDisjoint, MapIsExact,
         NEW o \in Table, n \in Nat, n > 0
  PROVE  o \in Pool!Fits(runs, n) <=>
           /\ o + n <= TblSize
           /\ \A b \in o .. o + n - 1 : memmap[b] = 0
<1>0. \A r \in runs : r.off \in Table /\ r.n \in 1 .. TblSize
  BY DEF MallocTypeOK, Run
<1>1. ASSUME o + n <= TblSize, NEW r \in runs,
             ~ (r.off + r.n <= o \/ o + n <= r.off)
      PROVE  \E b \in o .. o + n - 1 : memmap[b] # 0
  <2> DEFINE b == IF o >= r.off THEN o ELSE r.off
  <2>1. b \in o .. o + n - 1 /\ b \in Cells(r)
    BY <1>0, <1>1, TblAssumption DEF Cells, Table
  <2>2. memmap[b] = r.n /\ r.n # 0
    BY <1>0, <2>1 DEF MapIsExact
  <2> QED
    BY <2>1, <2>2
<1>2. ASSUME o + n <= TblSize, NEW b \in o .. o + n - 1, memmap[b] # 0
      PROVE  \E r \in runs : ~ (r.off + r.n <= o \/ o + n <= r.off)
  <2>1. b \in Table
    BY <1>2, TblAssumption DEF Table
  <2>2. PICK r \in runs : b \in Cells(r)
    BY <1>2, <2>1 DEF MapIsExact
  <2> QED
    BY <1>0, <1>2, <2>2, TblAssumption DEF Cells, Table
<1> QED
  BY <1>1, <1>2 DEF Pool!Fits, Pool!Table, Table

\* Every step of the allocator is a step of the pool or changes nothing in
\* it.
LEMMA PoolStep ==
  MallocInv /\ [MallocNext]_vars => [Pool!Next]_(Pool!vars)
<1> SUFFICES ASSUME MallocInv, [MallocNext]_vars
             PROVE  [Pool!Next]_(Pool!vars)
  OBVIOUS
<1>1. ASSUME NEW size \in Sizes, NEW o \in Table \cup {FAIL},
             mymem_malloc(size, o)
      PROVE  Pool!Request \/ Pool!Refuse
  <2>1. CASE size = 0
    BY <1>1, <2>1 DEF mymem_malloc, Pool!Refuse, Pool!FAIL
  <2>2. CASE size # 0
    BY <1>1, <2>2, MallocAssumption DEF mymem_malloc, Pool!Request
  <2> QED
    BY <2>1, <2>2
<1>2. CASE Scan
  BY <1>2 DEF Scan, Pool!vars
<1>3. CASE ScanFails
  <2>1. /\ n \in Nat /\ n > 0 /\ pc = "scan" /\ offset = FAIL
        /\ NoFitAbove(offset)
    BY <1>3, TblAssumption
    DEF ScanFails, MallocInv, ScanInv, MallocTypeOK, Table
  <2>2. Pool!Fits(runs, n) = {}
    <3> SUFFICES ASSUME NEW o \in Pool!Fits(runs, n) PROVE FALSE
      OBVIOUS
    <3>1. o \in Table
      BY DEF Pool!Fits, Pool!Table, Table
    <3>2. o > offset
      BY <2>1, <3>1, TblAssumption DEF Table
    <3> QED
      BY <2>1, <3>1, <3>2, FitsIsFree DEF NoFitAbove, MallocInv
  <2> QED
    BY <1>3, <2>1, <2>2 DEF ScanFails, Pool!Refuse, Pool!Next, Pool!FAIL
<1>4. CASE Mark
  <2>1. /\ n \in Nat /\ n > 0 /\ pc = "mark" /\ offset \in Table
        /\ offset + n <= TblSize
        /\ \A b \in offset .. offset + n - 1 : memmap[b] = 0
        /\ NoFitAbove(offset)
    BY <1>4 DEF Mark, MallocInv, MarkInv, MallocTypeOK
  <2>2. offset \in Pool!Fits(runs, n)
    BY <2>1, FitsIsFree DEF MallocInv
  <2>3. ASSUME NEW p \in Pool!Fits(runs, n) PROVE p <= offset
    <3>1. p \in Table
      BY DEF Pool!Fits, Pool!Table, Table
    <3>2. ~ (p > offset)
      BY <2>1, <3>1, FitsIsFree DEF NoFitAbove, MallocInv
    <3> QED
      BY <2>1, <3>1, <3>2, TblAssumption DEF Table
  <2>4. Pool!Grant(offset)
    BY <1>4, <2>1, <2>2, <2>3 DEF Mark, Pool!Grant, Pool!IsPlace
  <2> QED
    BY <2>1, <2>4 DEF Pool!Next, Pool!Table, Table
<1>5. ASSUME NEW i \in Table, myfree(i)
      PROVE  Pool!Next
  <2>1. PICK q \in runs : q.off = i
    BY <1>5 DEF myfree
  <2>2. runs' = runs \ {q}
    BY <1>5, <2>1, FreeStep DEF myfree, MallocInv
  <2> QED
    BY <1>5, <2>1, <2>2 DEF myfree, Pool!Next, Pool!Release
<1>6. CASE ReallocFrees
  <2>1. PICK q \in runs : q.off = old
    BY <1>6 DEF ReallocFrees, MallocInv, OldInv
  <2>2. old \in Table
    BY <2>1 DEF MallocInv, MallocTypeOK, Run
  <2>3. runs' = runs \ {q}
    BY <1>6, <2>1, <2>2, FreeStep DEF ReallocFrees, MallocInv
  <2> QED
    BY <1>6, <2>1, <2>3 DEF ReallocFrees, Pool!Next, Pool!Release
<1>7. CASE UNCHANGED vars
  BY <1>7 DEF vars, Pool!vars
<1> QED
  BY <1>1, <1>2, <1>3, <1>4, <1>5, <1>6, <1>7 DEF MallocNext, Pool!Next

\* The table and its scan implement the abstract pool of runs.
THEOREM MallocRefinesPool == MallocSpec => ImplementsPool
<1>1. mymem_init => Pool!Init
  BY DEF mymem_init, Pool!Init, Pool!FAIL
<1> QED
  BY <1>1, PoolStep, MallocAlwaysInv, PTL
  DEF MallocSpec, ImplementsPool, Pool!Spec
=============================================================================
