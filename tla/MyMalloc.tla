------------------------------ MODULE MyMalloc ------------------------------
(***************************************************************************)
(* One pool of project/MALLOC/malloc.c.  memmap[b] is 0 when block b is    *)
(* free and else the length of the run it belongs to; nothing in it tells  *)
(* where a run begins.  mymem_malloc looks for a place from the top of the *)
(* table down, one entry at a time; each turn of that loop is a step here. *)
(* The calls come from one context (main, at boot), so the loops that mark *)
(* and clear a run are one step each.                                      *)
(***************************************************************************)
EXTENDS PoolBlocks

CONSTANTS BlkSize,   \* memblksize[memx], in bytes
          CountMod,  \* the values a u16 can hold
          Sizes      \* the sizes, in bytes, that callers ask for

\* size / memblksize, rounded up, in a u16.
nmemb(size) ==
  (size \div BlkSize + (IF size % BlkSize # 0 THEN 1 ELSE 0)) % CountMod

\* The table is shorter than a u16 counts, and no caller asks for so much
\* that the number of blocks wraps around.
ASSUME MallocAssumption ==
  /\ BlkSize \in Nat \ {0}
  /\ CountMod \in Nat /\ TblSize < CountMod
  /\ Sizes \subseteq Nat
  /\ \A s \in Sizes : nmemb(s) \in Nat /\ (nmemb(s) = 0 <=> s = 0)

VARIABLES
  memmap,   \* mallco_dev.memmap[memx]
  runs,     \* history: the runs that callers hold
  pc,       \* "idle", or the loop being executed
  offset,   \* mymem_malloc's variables
  cmemb,
  n,        \* ... its nmemb
  old,      \* the block number myrealloc will free, FAIL in mymalloc
  ret       \* what the last mymem_malloc returned, in blocks

vars == <<memmap, runs, pc, offset, cmemb, n, old, ret>>

MallocTypeOK ==
  /\ memmap \in [Table -> 0 .. TblSize]
  /\ runs \in SUBSET Run
  /\ pc \in {"idle", "scan", "mark", "free"}
  /\ offset \in Table \cup {FAIL}
  /\ cmemb \in 0 .. TblSize
  /\ n \in Nat
  /\ old \in Table \cup {FAIL}
  /\ ret \in Table \cup {FAIL}

\* mymem_init.
mymem_init ==
  /\ memmap = [b \in Table |-> 0]
  /\ runs = {}
  /\ pc = "idle"
  /\ offset = FAIL
  /\ cmemb = 0
  /\ n = 0
  /\ old = FAIL
  /\ ret = FAIL

-----------------------------------------------------------------------------
\* mymalloc (o = FAIL) and myrealloc of the run at o, up to the loop.
mymem_malloc(size, o) ==
  /\ pc = "idle"
  /\ o # FAIL => \E r \in runs : r.off = o
  /\ IF size = 0
     THEN ret' = FAIL /\ UNCHANGED <<pc, offset, cmemb, n, old>>
     ELSE /\ n' = nmemb(size)
          /\ cmemb' = 0
          /\ offset' = TblSize - 1
          /\ old' = o
          /\ pc' = "scan"
          /\ UNCHANGED ret
  /\ UNCHANGED <<memmap, runs>>

\* Mutant of the loop: the count is not reset at a block in use.
ScanNoReset ==
  LET c == IF memmap[offset] = 0 THEN cmemb + 1 ELSE cmemb
  IN  /\ pc = "scan" /\ offset >= 0
      /\ cmemb' = c
      /\ IF c = n THEN pc' = "mark" /\ UNCHANGED offset
                  ELSE offset' = offset - 1 /\ UNCHANGED pc
      /\ UNCHANGED <<memmap, runs, n, old, ret>>

\* Mutant of the loop: the last entry is never looked at (offset > 0).
ScanStopsEarly ==
  LET c == IF memmap[offset] = 0 THEN cmemb + 1 ELSE 0
  IN  /\ pc = "scan" /\ offset >= 0
      /\ cmemb' = c
      /\ IF c = n /\ offset > 0 THEN pc' = "mark" /\ UNCHANGED offset
                  ELSE offset' = offset - 1 /\ UNCHANGED pc
      /\ UNCHANGED <<memmap, runs, n, old, ret>>

\* One turn of the loop.
Scan ==
  LET c == IF memmap[offset] = 0 THEN (cmemb + 1) % CountMod ELSE 0
  IN  /\ pc = "scan" /\ offset >= 0
      /\ cmemb' = c
      /\ IF c = n THEN pc' = "mark" /\ UNCHANGED offset
                  ELSE offset' = offset - 1 /\ UNCHANGED pc
      /\ UNCHANGED <<memmap, runs, n, old, ret>>

\* The loop ends without a place: mymalloc and myrealloc return NULL, and
\* myrealloc leaves the old run alone.
ScanFails ==
  /\ pc = "scan" /\ offset < 0
  /\ ret' = FAIL
  /\ pc' = "idle"
  /\ UNCHANGED <<memmap, runs, offset, cmemb, n, old>>

\* Mutant of the marking: one too many is counted.
MarkOneMore ==
  /\ pc = "mark"
  /\ memmap' = [b \in Table |-> IF b \in offset .. offset + n - 1
                                THEN n + 1 ELSE memmap[b]]
  /\ runs' = runs \cup {[off |-> offset, n |-> n]}
  /\ ret' = offset
  /\ pc' = IF old = FAIL THEN "idle" ELSE "free"
  /\ UNCHANGED <<offset, cmemb, n, old>>

\* The run is marked and handed out; myrealloc copies and goes on to free.
Mark ==
  /\ pc = "mark"
  /\ memmap' = [b \in Table |-> IF b \in offset .. offset + n - 1
                                THEN n ELSE memmap[b]]
  /\ runs' = runs \cup {[off |-> offset, n |-> n]}
  /\ ret' = offset
  /\ pc' = IF old = FAIL THEN "idle" ELSE "free"
  /\ UNCHANGED <<offset, cmemb, n, old>>

\* Mutant of mymem_free: the last block of the run stays marked.
ClearAllButLast(i) ==
  /\ memmap' = [b \in Table |-> IF b \in i .. i + memmap[i] - 2
                                THEN 0 ELSE memmap[b]]
  /\ runs' = {r \in runs : r.off # i}

\* mymem_free at block number i: the length is read from the table.
mymem_free(i) ==
  /\ memmap' = [b \in Table |-> IF b \in i .. i + memmap[i] - 1
                                THEN 0 ELSE memmap[b]]
  /\ runs' = {r \in runs : r.off # i}

\* myfree of a run a caller holds (myfree(NULL) does nothing).
myfree(i) ==
  /\ pc = "idle"
  /\ \E r \in runs : r.off = i
  /\ mymem_free(i)
  /\ UNCHANGED <<pc, offset, cmemb, n, old, ret>>

\* The end of myrealloc.
ReallocFrees ==
  /\ pc = "free"
  /\ mymem_free(old)
  /\ pc' = "idle"
  /\ UNCHANGED <<offset, cmemb, n, old, ret>>

MallocNext ==
  \/ \E size \in Sizes, o \in Table \cup {FAIL} : mymem_malloc(size, o)
  \/ Scan
  \/ ScanFails
  \/ Mark
  \/ \E i \in Table : myfree(i)
  \/ ReallocFrees

MallocSpec == mymem_init /\ [][MallocNext]_vars

-----------------------------------------------------------------------------
(* What holds.                                                             *)

\* No two callers share a block and no run reaches beyond the table,
\* although mymem_malloc decides from lengths alone where a run may lie.
RunsDisjoint ==
  /\ \A r \in runs : r.off + r.n <= TblSize
  /\ \A r, s \in runs : r # s => Cells(r) \cap Cells(s) = {}

\* The table says exactly what is handed out: every block of a run holds
\* its length, every other block is 0.  It is what makes mymem_free clear
\* one run and not its neighbour, over any sequence of calls.
MapIsExact ==
  /\ \A r \in runs : \A b \in Cells(r) : memmap[b] = r.n
  /\ \A b \in Table : memmap[b] # 0 => \E r \in runs : b \in Cells(r)

Pool == INSTANCE BlockPool WITH
          want <- IF pc \in {"scan", "mark"} THEN n ELSE 0

\* The table and its scan implement the pool: a request gets the highest
\* place where it fits and fails only if there is none, and myrealloc
\* releases the old run only after the new one has been granted.
ImplementsPool == Pool!Spec
=============================================================================
