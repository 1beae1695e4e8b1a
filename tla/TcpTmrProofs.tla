---------------------------- MODULE TcpTmrProofs ----------------------------
(***************************************************************************)
(* The walks of tcp_tmr over a list that the interrupt changes, for any    *)
(* number of connections and any width of the pass number.                 *)
(*                                                                         *)
(* That the list is exact is not inductive: tcp_slowtmr unlinks by way of  *)
(* prev, so prev must still be the predecessor of pcb; it is as long as    *)
(* tcp_slowtmr skips nothing, so what lies ahead of a walk must not carry  *)
(* the number of the pass; and it does not because nothing that a walk     *)
(* leaves behind is overdue, so that the number comes round on none of     *)
(* them.  The invariant says this of a sequence q that the pointers spell  *)
(* and of the number w of its members that the walk has behind it.         *)
(***************************************************************************)
EXTENDS TcpTmr, Integers, FiniteSetTheorems, WellFoundedInduction, TLAPS

\* The i-th member of q, or the end of the list.
At(q, n, i) == IF i \in 1..n THEN q[i] ELSE NULL

\* The pointers h and nx spell q, whose members are A, each once.
Chain(h, nx, A, q, n) ==
  /\ A = {q[i] : i \in 1..n}
  /\ \A i, j \in 1..n : q[i] = q[j] => i = j
  /\ h = At(q, n, 1)
  /\ \A i \in 1..n : nx[q[i]] = At(q, n, i + 1)

Unlinking == pc \in {"slow", "body", "unlink", "unlinked", "clear", "callback"}
Walking == pc \in {"fast", "ack"} \/ Unlinking
Served == pc \in {"ack", "body", "unlink"}

\* The first member that the walk does not have behind it.
Ahead == IF pc = "unlinked" THEN nxt ELSE pcb

\* Behind the walk, all that is owed has been served, and nothing is so old
\* that the pass number could come round on it; ahead, nothing carries the
\* number of this pass.
Passed(q, n, w) ==
  \A i \in 1..n :
    IF i <= w
    THEN ~Overdue(q[i]) /\ (q[i] \in owed => last_timer[q[i]] = tcp_timer_ctr)
    ELSE last_timer[q[i]] = tcp_timer_ctr <=> Served /\ i = w + 1

\* The successor of the member to unlink, loaded before the store and read
\* again after it.
Successor(q, n, w) ==
  /\ pc = "unlink" => nxt = At(q, n, (w + 1) + 1)
  /\ pc = "unlinked" => pcb \notin active /\ next[pcb] = nxt

WalkOK(q, n, w) ==
  /\ Walking => Ahead = At(q, n, w + 1) /\ Passed(q, n, w)
  /\ prev = IF Unlinking THEN At(q, n, w) ELSE NULL
  /\ pc \in {"fastfirst", "slowfirst"} =>
       \A p \in active : last_timer[p] # tcp_timer_ctr
  /\ pc \in {"idle", "fastdone"} => \A p \in active : ~Overdue(p)
  /\ pc = "callback" => ~tcp_active_pcbs_changed
  /\ Successor(q, n, w)

Whole ==
  \E n \in Nat : \E q \in [1..n -> Pcbs] : \E w \in 0..n :
    Chain(tcp_active_pcbs, next, active, q, n) /\ WalkOK(q, n, w)

\* The walk is in the middle of its work on a pcb.
Holds == Served \/ pc = "unlinked"

TmrInv ==
  /\ TmrTypeOK
  /\ Holds => pcb # NULL
  /\ ~torn => Whole

-----------------------------------------------------------------------------
(* Chains.                                                                 *)

\* A set of naturals that is not empty has a least member.
LEMMA LeastMember ==
  ASSUME NEW T, T \subseteq Nat, T # {}
  PROVE  \E x \in T : \A y \in T : ~(y < x)
<1>1. IsWellFoundedOn(OpToRel(<, Nat), Nat)
  BY NatLessThanWellFounded
<1>2. PICK x \in T : \A y \in T : ~(<<y, x>> \in OpToRel(<, Nat))
  BY <1>1, WFMin
<1>3. \A y \in T : <<y, x>> \in OpToRel(<, Nat) <=> y < x
  BY DEF OpToRel
<1> QED BY <1>2, <1>3

\* A chain is no longer than there are pcbs.
LEMMA ChainFits ==
  ASSUME NEW n \in Nat, NEW q \in [1..n -> Pcbs],
         \A i, j \in 1..n : q[i] = q[j] => i = j
  PROVE  Cardinality(Pcbs) \in Nat /\ n <= Cardinality(Pcbs)
<1>1. IsFiniteSet(Pcbs)
  BY TcpTmrAssumption
<1>2. q \in Injection(1..n, Pcbs)
  BY DEF Injection, IsInjective
<1>3. Cardinality(1..n) <= Cardinality(Pcbs)
  BY <1>1, <1>2, FS_Injection
<1>4. Cardinality(1..n) = n
  BY FS_Interval
<1> QED BY <1>1, <1>3, <1>4, FS_CardinalityType

\* What it takes for g to be the search that Listed makes.
IsSearch(g) ==
  g = [k \in 0 .. Cardinality(Pcbs) |->
         IF k = 0 THEN {tcp_active_pcbs}
         ELSE g[k - 1] \cup {next[c] : c \in g[k - 1] \ {NULL}}]

\* The steps of a search, one by one.
LEMMA SearchSteps ==
  ASSUME NEW g, IsSearch(g), Cardinality(Pcbs) \in Nat
  PROVE  /\ g[0] = {tcp_active_pcbs}
         /\ \A k \in 0 .. Cardinality(Pcbs) : k # 0 =>
              g[k] = g[k - 1] \cup {next[c] : c \in g[k - 1] \ {NULL}}
<1>1. PICK h : h = [k \in 0 .. Cardinality(Pcbs) |->
                      IF k = 0 THEN {tcp_active_pcbs}
                      ELSE g[k - 1] \cup {next[c] : c \in g[k - 1] \ {NULL}}]
  OBVIOUS
<1>2. g = h
  BY <1>1, Zenon DEF IsSearch
<1>3. /\ h[0] = {tcp_active_pcbs}
      /\ \A k \in 0 .. Cardinality(Pcbs) : k # 0 =>
           h[k] = g[k - 1] \cup {next[c] : c \in g[k - 1] \ {NULL}}
  BY <1>1
<1> QED BY <1>2, <1>3, Zenon

\* A search of a chain comes to its members and to its end.
LEMMA ListedChain ==
  ASSUME NEW n \in Nat, NEW q \in [1..n -> Pcbs],
         Chain(tcp_active_pcbs, next, active, q, n)
  PROVE  Listed = active \cup {NULL}
<1> DEFINE C == Cardinality(Pcbs)
           f == [k \in 0..C |-> {At(q, n, i) : i \in 1..(k + 1)}]
           g == CHOOSE h : IsSearch(h)
<1>1. /\ active = {q[i] : i \in 1..n} /\ tcp_active_pcbs = At(q, n, 1)
      /\ \A i \in 1..n : next[q[i]] = At(q, n, i + 1)
      /\ \A i \in 1..n : q[i] \in Pcbs /\ q[i] # NULL
  BY TcpTmrAssumption DEF Chain
<1>2. C \in Nat /\ n <= C
  BY ChainFits DEF Chain
<1> HIDE DEF C
<1>3. IsSearch(f)
  <2>1. f[0] = {tcp_active_pcbs}
    <3>1. 0 \in 0..C /\ 1..(0 + 1) = {1}
      BY <1>2
    <3> QED BY <1>1, <3>1
  <2>2. ASSUME NEW k \in 0..C, k # 0
        PROVE  f[k] = f[k - 1] \cup {next[c] : c \in f[k - 1] \ {NULL}}
    <3>1. k - 1 \in 0..C /\ (k - 1) + 1 = k /\ k \in Nat /\ k >= 1
      BY <1>2, <2>2
    <3>2. f[k] = {At(q, n, i) : i \in 1..(k + 1)} /\ f[k - 1] = {At(q, n, i) : i \in 1..k}
      BY <3>1
    <3> HIDE DEF f
    <3>3. ASSUME NEW i \in 1..(k + 1)
          PROVE  At(q, n, i) \in f[k - 1] \cup {next[c] : c \in f[k - 1] \ {NULL}}
      <4>1. CASE i <= k
        BY <3>1, <3>2, <4>1
      <4>2. CASE i = k + 1 /\ k <= n
        <5>1. At(q, n, k) = q[k] /\ q[k] # NULL /\ next[q[k]] = At(q, n, i)
          BY <1>1, <3>1, <4>2 DEF At
        <5>2. q[k] \in f[k - 1]
          BY <3>1, <3>2, <5>1
        <5> QED BY <5>1, <5>2
      <4>3. CASE i = k + 1 /\ k > n
        <5>1. At(q, n, i) = At(q, n, n + 1) /\ n + 1 \in 1..k
          BY <3>1, <4>3 DEF At
        <5> QED BY <3>2, <5>1
      <4> QED BY <3>1, <4>1, <4>2, <4>3
    <3>4. ASSUME NEW c \in f[k - 1], c # NULL
          PROVE  next[c] \in f[k]
      <4>1. PICK i \in 1..k : c = At(q, n, i)
        BY <3>2
      <4>2. i \in 1..n /\ c = q[i]
        BY <3>4, <4>1 DEF At
      <4>3. next[c] = At(q, n, i + 1) /\ i + 1 \in 1..(k + 1)
        BY <1>1, <3>1, <4>1, <4>2
      <4> QED BY <3>2, <4>3
    <3>5. f[k - 1] \subseteq f[k]
      BY <3>1, <3>2
    <3> QED BY <3>2, <3>3, <3>4, <3>5
  <2>3. f = [k \in 0..C |-> f[k]]
    OBVIOUS
  <2> HIDE DEF f
  <2> QED BY <2>1, <2>2, <2>3 DEF IsSearch, C
<1>4. IsSearch(g)
  BY <1>3
<1>5. Listed = g[C]
  BY DEF Listed, IsSearch, C
<1> HIDE DEF g
<1>6. /\ g[0] = {tcp_active_pcbs}
      /\ \A k \in 0..C : k # 0 =>
           g[k] = g[k - 1] \cup {next[c] : c \in g[k - 1] \ {NULL}}
  BY <1>2, <1>4, SearchSteps DEF C
<1>7. /\ f[0] = {tcp_active_pcbs}
      /\ \A k \in 0..C : k # 0 =>
           f[k] = f[k - 1] \cup {next[c] : c \in f[k - 1] \ {NULL}}
  <2> HIDE DEF f
  <2> QED BY <1>2, <1>3, SearchSteps DEF C
<1>8. f[C] = active \cup {NULL}
  <2>1. f[C] = {At(q, n, i) : i \in 1..(C + 1)}
    BY <1>2
  <2>2. At(q, n, n + 1) = NULL /\ n + 1 \in 1..(C + 1)
    BY <1>2 DEF At
  <2>3. \A i \in 1..n : At(q, n, i) = q[i] /\ i \in 1..(C + 1)
    BY <1>2 DEF At
  <2>4. \A i \in 1..(C + 1) : At(q, n, i) \in active \cup {NULL}
    BY <1>1 DEF At
  <2> HIDE DEF f
  <2> QED BY <1>1, <2>1, <2>2, <2>3, <2>4
<1> HIDE DEF f
<1>9. g[C] = f[C]
  <2> SUFFICES ASSUME g[C] # f[C] PROVE FALSE
    OBVIOUS
  <2> DEFINE T == {k \in 0..C : g[k] # f[k]}
  <2>1. T \subseteq Nat /\ T # {}
    BY <1>2
  <2>2. PICK x \in T : \A y \in T : ~(y < x)
    BY <2>1, LeastMember
  <2>3. x # 0
    BY <1>6, <1>7
  <2>4. x - 1 \in 0..C /\ x - 1 < x
    BY <1>2, <2>3
  <2>5. g[x - 1] = f[x - 1]
    BY <2>2, <2>4
  <2> QED BY <1>6, <1>7, <2>3, <2>5
<1> QED BY <1>5, <1>8, <1>9

\* q without its k-th member, and q with p before its first.
Cut(q, n, k) == [i \in 1..(n - 1) |-> IF i < k THEN q[i] ELSE q[i + 1]]
Push(q, n, p) == [i \in 1..(n + 1) |-> IF i = 1 THEN p ELSE q[i - 1]]

\* What the latter holds at each place.
IsPush(r, q, n, p) ==
  /\ r \in [1..(n + 1) -> Pcbs] /\ r[1] = p
  /\ \A i \in 1..(n + 1) : i # 1 => r[i] = q[i - 1]
  /\ At(r, n + 1, 1) = p
  /\ \A i \in Nat : i # 0 => At(r, n + 1, i + 1) = At(q, n, i)

\* Cut and Push at each place.
LEMMA CutAt ==
  ASSUME NEW n \in Nat, NEW q \in [1..n -> Pcbs], NEW k \in 1..n
  PROVE  /\ Cut(q, n, k) \in [1..(n - 1) -> Pcbs] /\ n - 1 \in Nat
         /\ \A i \in 1..(n - 1) :
              Cut(q, n, k)[i] = IF i < k THEN q[i] ELSE q[i + 1]
         /\ \A i \in Nat : At(Cut(q, n, k), n - 1, i)
                             = IF i < k THEN At(q, n, i) ELSE At(q, n, i + 1)
BY DEF Cut, At

LEMMA PushAt ==
  ASSUME NEW n \in Nat, NEW q \in [1..n -> Pcbs], NEW p \in Pcbs
  PROVE  IsPush(Push(q, n, p), q, n, p)
BY DEF Push, At, IsPush

\* Going from h and nx to h2 and nx2 unlinks the k-th member.
Unlinks(h, nx, h2, nx2, q, n, k) ==
  /\ h2 = IF k = 1 THEN nx[q[k]] ELSE h
  /\ \A i \in 1..n : i # k =>
       nx2[q[i]] = IF i = k - 1 THEN nx[q[k]] ELSE nx[q[i]]

\* What it leaves is the chain without that member.
LEMMA CutChain ==
  ASSUME NEW n \in Nat, NEW q \in [1..n -> Pcbs], NEW k \in 1..n,
         NEW h, NEW nx, NEW A, Chain(h, nx, A, q, n), NEW h2, NEW nx2,
         Unlinks(h, nx, h2, nx2, q, n, k)
  PROVE  Chain(h2, nx2, A \ {q[k]}, Cut(q, n, k), n - 1)
<1> DEFINE c == Cut(q, n, k)
<1>1. /\ A = {q[i] : i \in 1..n} /\ h = At(q, n, 1)
      /\ \A i, j \in 1..n : q[i] = q[j] => i = j
      /\ \A i \in 1..n : nx[q[i]] = At(q, n, i + 1)
      /\ h2 = IF k = 1 THEN nx[q[k]] ELSE h
      /\ \A i \in 1..n : i # k =>
           nx2[q[i]] = IF i = k - 1 THEN nx[q[k]] ELSE nx[q[i]]
  BY DEF Chain, Unlinks
<1>m. A = {q[i] : i \in 1..n}
  BY <1>1
<1>i. \A i, j \in 1..n : q[i] = q[j] => i = j
  BY <1>1
<1>2. /\ \A i \in 1..(n - 1) : c[i] = IF i < k THEN q[i] ELSE q[i + 1]
      /\ \A i \in Nat : At(c, n - 1, i) = IF i < k THEN At(q, n, i) ELSE At(q, n, i + 1)
  BY CutAt
<1> HIDE DEF c
<1>3. A \ {q[k]} = {c[i] : i \in 1..(n - 1)}
  <2>1. ASSUME NEW i \in 1..(n - 1) PROVE c[i] \in A \ {q[k]}
    <3>1. PICK a \in 1..n : a = (IF i < k THEN i ELSE i + 1)
      OBVIOUS
    <3>2. c[i] = q[a] /\ a # k
      BY <1>2, <3>1
    <3>3. q[a] # q[k]
      BY <1>i, <3>2
    <3>4. q[a] \in A
      BY <1>m
    <3> QED BY <3>2, <3>3, <3>4
  <2>2. ASSUME NEW i \in 1..n, i # k PROVE \E j \in 1..(n - 1) : q[i] = c[j]
    <3>1. CASE i < k
      <4>1. i \in 1..(n - 1)
        BY <3>1
      <4>2. c[i] = q[i]
        BY <1>2, <3>1, <4>1
      <4> QED BY <4>1, <4>2
    <3>2. CASE i > k
      <4>1. i - 1 \in 1..(n - 1) /\ ~(i - 1 < k) /\ (i - 1) + 1 = i
        BY <3>2
      <4> QED BY <1>2, <4>1
    <3> QED BY <2>2, <3>1, <3>2
  <2> QED BY <1>m, <2>1, <2>2
<1>4. ASSUME NEW i \in 1..(n - 1), NEW j \in 1..(n - 1), c[i] = c[j] PROVE i = j
  <2>1. PICK a \in 1..n : a = (IF i < k THEN i ELSE i + 1)
    OBVIOUS
  <2>b. PICK b \in 1..n : b = (IF j < k THEN j ELSE j + 1)
    OBVIOUS
  <2>2. c[i] = q[a] /\ c[j] = q[b]
    BY <1>2, <2>1, <2>b
  <2>3. a = b
    BY <1>i, <1>4, <2>2
  <2> QED BY <2>1, <2>b, <2>3
<1>5. h2 = At(c, n - 1, 1)
  BY <1>1, <1>2
<1>6. ASSUME NEW i \in 1..(n - 1) PROVE nx2[c[i]] = At(c, n - 1, i + 1)
  <2>1. i \in 1..n /\ i + 1 \in 1..n /\ i \in Nat /\ i + 1 \in Nat
    OBVIOUS
  <2>2. CASE i < k - 1
    <3>1. c[i] = q[i] /\ i # k /\ i # k - 1
      BY <1>2, <2>2
    <3>2. nx2[q[i]] = At(q, n, i + 1)
      BY <1>1, <2>1, <3>1
    <3>3. At(c, n - 1, i + 1) = At(q, n, i + 1)
      BY <1>2, <2>1, <2>2
    <3> QED BY <3>1, <3>2, <3>3
  <2>3. CASE i = k - 1
    <3>1. c[i] = q[i] /\ i # k
      BY <1>2, <2>3
    <3>2. nx2[q[i]] = At(q, n, k + 1)
      BY <1>1, <2>1, <2>3, <3>1
    <3>3. At(c, n - 1, i + 1) = At(q, n, k + 1)
      BY <1>2, <2>1, <2>3
    <3> QED BY <3>1, <3>2, <3>3
  <2>4. CASE i >= k
    <3>1. c[i] = q[i + 1] /\ i + 1 # k /\ i + 1 # k - 1
      BY <1>2, <2>4
    <3>2. nx2[q[i + 1]] = At(q, n, i + 2)
      <4>1. nx2[q[i + 1]] = nx[q[i + 1]] /\ nx[q[i + 1]] = At(q, n, (i + 1) + 1)
        BY <1>1, <2>1, <3>1
      <4> QED BY <4>1
    <3>3. At(c, n - 1, i + 1) = At(q, n, i + 2)
      <4>1. At(c, n - 1, i + 1) = At(q, n, (i + 1) + 1)
        BY <1>2, <2>1, <2>4
      <4> QED BY <4>1
    <3> QED BY <3>1, <3>2, <3>3
  <2> QED BY <2>2, <2>3, <2>4
<1>7. Chain(h2, nx2, A \ {q[k]}, c, n - 1)
  BY <1>3, <1>4, <1>5, <1>6 DEF Chain
<1> QED BY <1>7 DEF c

\* Linking p in at the front.
LEMMA PushChain ==
  ASSUME NEW n \in Nat, NEW q \in [1..n -> Pcbs], NEW p \in Pcbs,
         NEW h, NEW nx, NEW A, Chain(h, nx, A, q, n), p \notin A, NEW nx2,
         nx2[p] = h, \A i \in 1..n : nx2[q[i]] = nx[q[i]]
  PROVE  Chain(p, nx2, A \cup {p}, Push(q, n, p), n + 1)
<1> DEFINE c == Push(q, n, p)
<1>1. /\ A = {q[i] : i \in 1..n} /\ h = At(q, n, 1)
      /\ \A i, j \in 1..n : q[i] = q[j] => i = j
      /\ \A i \in 1..n : nx[q[i]] = At(q, n, i + 1)
  BY DEF Chain
<1>p. IsPush(c, q, n, p)
  BY PushAt, Zenon
<1> HIDE DEF c
<1>2. c[1] = p /\ \A i \in 1..(n + 1) : i # 1 => c[i] = q[i - 1]
  BY <1>p, Zenon DEF IsPush
<1>a. p = At(c, n + 1, 1)
  BY <1>p, Zenon DEF IsPush
<1>b. \A i \in Nat : i # 0 => At(c, n + 1, i + 1) = At(q, n, i)
  BY <1>p, Zenon DEF IsPush
<1>3. A \cup {p} = {c[i] : i \in 1..(n + 1)}
  <2>1. ASSUME NEW i \in 1..(n + 1) PROVE c[i] \in A \cup {p}
    <3>1. i = 1 \/ i - 1 \in 1..n
      OBVIOUS
    <3> QED BY <1>1, <1>2, <3>1
  <2>2. ASSUME NEW i \in 1..n PROVE \E j \in 1..(n + 1) : q[i] = c[j]
    <3>1. i + 1 \in 1..(n + 1) /\ i + 1 # 1 /\ (i + 1) - 1 = i
      OBVIOUS
    <3> QED BY <1>2, <3>1
  <2>3. 1 \in 1..(n + 1) /\ c[1] = p
    BY <1>2
  <2> QED BY <1>1, <2>1, <2>2, <2>3
<1>4. ASSUME NEW i \in 1..(n + 1), NEW j \in 1..(n + 1), c[i] = c[j] PROVE i = j
  <2>1. (i = 1 \/ i - 1 \in 1..n) /\ (j = 1 \/ j - 1 \in 1..n)
    OBVIOUS
  <2>2. CASE i = 1 /\ j = 1
    BY <2>2
  <2>3. ASSUME NEW x \in 1..(n + 1), x # 1 PROVE c[x] # p /\ x - 1 \in 1..n
    <3>1. x - 1 \in 1..n /\ c[x] = q[x - 1]
      BY <1>2, <2>3
    <3>2. q[x - 1] \in A
      BY <1>1, <3>1
    <3> QED BY <3>1, <3>2
  <2>4. CASE i # 1 /\ j # 1
    <3>1. c[i] = q[i - 1] /\ c[j] = q[j - 1] /\ i - 1 \in 1..n /\ j - 1 \in 1..n
      BY <1>2, <2>3, <2>4
    <3>2. i - 1 = j - 1
      BY <1>1, <1>4, <3>1
    <3> QED BY <3>2
  <2>5. c[1] = p
    BY <1>2
  <2> QED BY <1>4, <2>2, <2>3, <2>4, <2>5
<1>5. ASSUME NEW i \in 1..(n + 1) PROVE nx2[c[i]] = At(c, n + 1, i + 1)
  <2>1. CASE i = 1
    <3>1. c[i] = p /\ At(c, n + 1, 1 + 1) = At(q, n, 1)
      BY <1>2, <1>b, <2>1
    <3> QED BY <1>1, <2>1, <3>1
  <2>2. CASE i # 1
    <3>1. i - 1 \in 1..n /\ (i - 1) + 1 = i /\ i \in Nat /\ i # 0
      BY <2>2
    <3>2. c[i] = q[i - 1]
      BY <1>2, <2>2
    <3>3. nx2[q[i - 1]] = At(q, n, (i - 1) + 1)
      BY <1>1, <3>1
    <3>4. At(c, n + 1, i + 1) = At(q, n, i)
      BY <1>b, <3>1
    <3> QED BY <3>1, <3>2, <3>3, <3>4
  <2> QED BY <2>1, <2>2
<1>6. Chain(p, nx2, A \cup {p}, c, n + 1)
  BY <1>a, <1>3, <1>4, <1>5 DEF Chain
<1> QED BY <1>6 DEF c

-----------------------------------------------------------------------------
(* The pass number.                                                        *)

\* What is not overdue does not carry the next pass's number, and what
\* carries this pass's number is not overdue.
LEMMA PassNumbers ==
  \A a, c \in 0..(CtrMod - 1) :
    /\ (a + CtrMod - 1) % CtrMod # c => a # (c + 1) % CtrMod
    /\ (a + CtrMod - 1) % CtrMod # a
<1>1. \A m \in Nat : m > 2 =>
        \A a, c \in 0..(m - 1) : /\ (a + m - 1) % m # c => a # (c + 1) % m
                                 /\ (a + m - 1) % m # a
  OBVIOUS
<1> QED BY <1>1, TcpTmrAssumption

-----------------------------------------------------------------------------
(* Types.                                                                  *)

\* The variables keep their types, torn or not.
LEMMA NextType ==
  ASSUME TmrTypeOK, Holds => pcb # NULL, [TmrNext]_tmrVars
  PROVE  TmrTypeOK' /\ (Holds => pcb # NULL)'
<1> USE DEF TmrTypeOK, Holds, Served, MaybePcb
<1>1. ASSUME NEW p \in Pcbs, Register(p) PROVE TmrTypeOK' /\ (Holds => pcb # NULL)'
  BY <1>1 DEF Register, walk
<1>2. ASSUME NEW p \in Pcbs, NEW told \in BOOLEAN, Remove(p, told)
      PROVE  TmrTypeOK' /\ (Holds => pcb # NULL)'
  BY <1>2 DEF Remove, walk
<1>3. ASSUME NEW p \in Pcbs, MoveToFront(p)
      PROVE  TmrTypeOK' /\ (Holds => pcb # NULL)'
  BY <1>3 DEF MoveToFront, walk
<1>4. CASE Enter("idle", "fastfirst") \/ Enter("fastdone", "slowfirst")
  <2>1. (tcp_timer_ctr + 1) % CtrMod \in 0..(CtrMod - 1)
    BY TcpTmrAssumption
  <2> QED BY <1>4, <2>1 DEF Enter
<1>5. CASE First("fastfirst", "fast") \/ First("slowfirst", "slow")
  BY <1>5 DEF First, history
<1>6. CASE Serve("fast", "ack") \/ Serve("slow", "body")
  BY <1>6 DEF Serve, history
<1>7. CASE FastNext
  BY <1>7 DEF FastNext, history
<1>8. CASE FastDone \/ SlowDone
  BY <1>8 DEF FastDone, SlowDone
<1>9. CASE SlowSkip
  BY <1>9 DEF SlowSkip, history
<1>10. CASE SlowRemove \/ SlowFree \/ ClearChanged
  BY <1>10 DEF SlowRemove, SlowFree, ClearChanged, history
<1>u. CASE Unlink
  BY <1>u DEF Unlink
<1>11. ASSUME NEW poll \in BOOLEAN, SlowKeep(poll)
       PROVE  TmrTypeOK' /\ (Holds => pcb # NULL)'
  BY <1>11 DEF SlowKeep, history
<1>12. CASE Returned
  BY <1>12 DEF Returned, history
<1>13. CASE UNCHANGED tmrVars
  BY <1>13 DEF tmrVars, walk, history
<1> QED BY <1>1, <1>2, <1>3, <1>4, <1>5, <1>6, <1>7, <1>8, <1>9, <1>10, <1>11,
           <1>12, <1>13, <1>u
        DEF TmrNext, EthIrq, tcp_fasttmr, tcp_slowtmr, FastSpins

-----------------------------------------------------------------------------
(* The interrupt, outside the windows.                                     *)

\* A connection registered while a walk is under way goes behind it.
LEMMA RegisterWhole ==
  ASSUME TmrInv, NEW n \in Nat, NEW q \in [1..n -> Pcbs], NEW w \in 0..n,
         Chain(tcp_active_pcbs, next, active, q, n), WalkOK(q, n, w),
         NEW p \in Pcbs, Register(p), ~torn'
  PROVE  Whole'
<1>1. /\ ~torn /\ ~FrontTears /\ p \notin active
      /\ next' = [next EXCEPT ![p] = tcp_active_pcbs]
      /\ last_timer' = [last_timer EXCEPT ![p] = tcp_timer_ctr]
      /\ tcp_active_pcbs' = p /\ active' = active \cup {p}
      /\ (pc = "unlinked" => pcb # p)
      /\ UNCHANGED <<tcp_timer_ctr, pc, pcb, prev, nxt, owed>>
  BY DEF Register, walk
<1>2. TmrTypeOK /\ TmrTypeOK'
  BY NextType DEF TmrInv, TmrNext, EthIrq
<1>3. /\ \A i \in 1..n : q[i] \in active /\ q[i] # p /\ q[i] \in Pcbs
      /\ owed \subseteq active /\ p \notin owed
  BY <1>1, <1>2 DEF Chain, TmrTypeOK
<1>4. /\ next'[p] = tcp_active_pcbs /\ last_timer'[p] = tcp_timer_ctr
      /\ \A c \in Pcbs : c # p => next'[c] = next[c] /\ last_timer'[c] = last_timer[c]
  BY <1>1, <1>2 DEF TmrTypeOK
<1> DEFINE r == Push(q, n, p)
<1>p. IsPush(r, q, n, p)
  BY PushAt, Zenon
<1>6. Chain(tcp_active_pcbs', next', active', r, n + 1)
  <2>1. \A i \in 1..n : next'[q[i]] = next[q[i]]
    BY <1>3, <1>4
  <2>2. next'[p] = tcp_active_pcbs /\ p \notin active
    BY <1>1, <1>4
  <2>3. Chain(p, next', active \cup {p}, Push(q, n, p), n + 1)
    BY <2>1, <2>2, PushChain, Zenon
  <2> QED BY <1>1, <2>3
<1> HIDE DEF r
<1>5. /\ r \in [1..(n + 1) -> Pcbs] /\ n + 1 \in Nat /\ w + 1 \in 0..(n + 1)
      /\ r[1] = p /\ \A i \in 1..(n + 1) : i # 1 => r[i] = q[i - 1]
      /\ At(r, n + 1, 1) = p
      /\ \A i \in Nat : i # 0 => At(r, n + 1, i + 1) = At(q, n, i)
  BY <1>p DEF IsPush
<1>7. ~Overdue(p)' /\ \A c \in Pcbs : c # p => (Overdue(c)' <=> Overdue(c))
  <2>1. ~Overdue(p)'
    BY <1>1, <1>2, <1>4, PassNumbers DEF Overdue, TmrTypeOK
  <2> QED BY <1>1, <1>4, <2>1 DEF Overdue
<1>8. pc \in {"idle", "fastdone"} \/ (Walking /\ pc # "callback")
  BY <1>1, <1>2 DEF TmrTypeOK, FrontTears, InSlow, WalkOK, Walking, Unlinking
<1>9. CASE pc \in {"idle", "fastdone"}
  <2>1. WalkOK(r, n + 1, w + 1)'
    <3>1. pc' = pc /\ prev' = prev /\ ~Walking /\ ~Unlinking
      BY <1>1, <1>9 DEF Walking, Unlinking
    <3>2. ~Walking' /\ ~Unlinking'
      BY <1>1, <3>1 DEF Walking, Unlinking
    <3>3. active \subseteq Pcbs /\ \A c \in active : ~Overdue(c)
      BY <1>2, <1>9 DEF WalkOK, TmrTypeOK
    <3>4. \A c \in active' : ~Overdue(c)'
      BY <1>1, <1>7, <3>3
    <3>5. prev' = NULL
      BY <3>1 DEF WalkOK
    <3> QED BY <1>1, <1>9, <3>2, <3>4, <3>5 DEF WalkOK, Successor
  <2> QED BY <1>5, <1>6, <2>1 DEF Whole
<1>10. CASE Walking /\ pc # "callback"
  <2>1. Ahead = At(q, n, w + 1) /\ Passed(q, n, w)
        /\ prev = IF Unlinking THEN At(q, n, w) ELSE NULL
    BY <1>10 DEF WalkOK
  <2>2. Ahead' = At(r, n + 1, (w + 1) + 1)
    <3>1. Ahead' = Ahead
      BY <1>1 DEF Ahead
    <3> QED BY <1>5, <2>1, <3>1
  <2>3. prev' = IF Unlinking' THEN At(r, n + 1, w + 1) ELSE NULL
    <3>1. Unlinking => w # 0
      BY <1>1, <1>10, <2>1 DEF FrontTears, InSlow, Unlinking, At
    <3> QED BY <1>1, <1>5, <2>1, <3>1 DEF Unlinking
  <2>4. Passed(r, n + 1, w + 1)'
    <3> SUFFICES ASSUME NEW i \in 1..(n + 1)
        PROVE  IF i <= w + 1
               THEN /\ ~Overdue(r[i])'
                    /\ r[i] \in owed' => last_timer'[r[i]] = tcp_timer_ctr'
               ELSE last_timer'[r[i]] = tcp_timer_ctr' <=> Served' /\ i = (w + 1) + 1
      BY DEF Passed
    <3>1. CASE i = 1
      BY <1>1, <1>3, <1>5, <1>7, <3>1
    <3>2. CASE i # 1
      <4>1. i - 1 \in 1..n /\ r[i] = q[i - 1]
        BY <1>5, <3>2
      <4>2. IF i - 1 <= w
            THEN /\ ~Overdue(q[i - 1])
                 /\ q[i - 1] \in owed => last_timer[q[i - 1]] = tcp_timer_ctr
            ELSE last_timer[q[i - 1]] = tcp_timer_ctr <=> Served /\ i - 1 = w + 1
        BY <2>1, <4>1 DEF Passed
      <4> QED BY <1>1, <1>3, <1>4, <1>7, <4>1, <4>2 DEF Served
    <3> QED BY <3>1, <3>2
  <2>s. Successor(r, n + 1, w + 1)'
    <3>1. Successor(q, n, w)
      BY DEF WalkOK
    <3>2. CASE pc = "unlink"
      <4>1. (w + 1) + 1 \in Nat /\ (w + 1) + 1 # 0
        OBVIOUS
      <4>2. At(r, n + 1, ((w + 1) + 1) + 1) = At(q, n, (w + 1) + 1)
        BY <1>5, <4>1
      <4> QED BY <1>1, <3>1, <3>2, <4>2 DEF Successor
    <3>3. CASE pc = "unlinked"
      <4>1. pcb # NULL
        BY <3>3 DEF TmrInv, Holds
      <4>2. pcb \in Pcbs /\ pcb # p
        BY <1>1, <1>2, <3>3, <4>1 DEF TmrTypeOK, MaybePcb
      <4> QED BY <1>1, <1>4, <3>1, <3>3, <4>2 DEF Successor
    <3> QED BY <1>1, <3>2, <3>3 DEF Successor
  <2>5. WalkOK(r, n + 1, w + 1)'
    <3>1. pc' = pc /\ pc \notin {"idle", "fastdone", "fastfirst", "slowfirst", "callback"}
      BY <1>1, <1>10 DEF Walking, Unlinking
    <3> QED BY <2>2, <2>3, <2>4, <2>s, <3>1 DEF WalkOK
  <2> QED BY <1>5, <1>6, <2>5 DEF Whole
<1> QED BY <1>8, <1>9, <1>10

\* What a search finds before a member of the chain is its predecessor.
LEMMA Predecessor ==
  ASSUME NEW n \in Nat, NEW q \in [1..n -> Pcbs],
         Chain(tcp_active_pcbs, next, active, q, n),
         NEW k \in 1..n, NEW b \in Before(q[k])
  PROVE  k # 1 /\ b = q[k - 1]
<1>1. b \in active /\ next[b] = q[k]
  BY ListedChain DEF Before
<1>2. PICK j \in 1..n : b = q[j] /\ next[b] = At(q, n, j + 1)
  BY <1>1 DEF Chain
<1>3. j + 1 \in 1..n /\ q[j + 1] = q[k]
  BY <1>1, <1>2, TcpTmrAssumption DEF At
<1>4. j + 1 = k
  BY <1>3 DEF Chain
<1> QED BY <1>2, <1>4

\* A member of the chain is at its front just when it is the first.
LEMMA AtFront ==
  ASSUME NEW n \in Nat, NEW q \in [1..n -> Pcbs], NEW k \in 1..n,
         Chain(tcp_active_pcbs, next, active, q, n)
  PROVE  tcp_active_pcbs = q[k] <=> k = 1
BY DEF Chain, At

\* Removing a connection that the walk does not stand on leaves the walk
\* where it is.
LEMMA RemoveWhole ==
  ASSUME TmrInv, NEW n \in Nat, NEW q \in [1..n -> Pcbs], NEW w \in 0..n,
         Chain(tcp_active_pcbs, next, active, q, n), WalkOK(q, n, w),
         NEW p \in Pcbs, NEW told \in BOOLEAN, Remove(p, told), ~torn'
  PROVE  Whole'
<1>1. /\ ~PcbTears(p) /\ p \in active
      /\ active' = active \ {p} /\ owed' = owed \ {p}
      /\ UNCHANGED <<last_timer, tcp_timer_ctr, pc, pcb, prev, nxt>>
  BY DEF Remove, walk
<1>2. TmrTypeOK
  BY DEF TmrInv
<1>a. pc = "callback" => ~tcp_active_pcbs_changed'
  BY DEF Remove, WalkOK
<1>3. PICK k \in 1..n : q[k] = p
  BY <1>1 DEF Chain
<1>4. \A i, j \in 1..n : q[i] = q[j] => i = j
  BY DEF Chain
<1>5. /\ tcp_active_pcbs' = IF k = 1 THEN next[q[k]] ELSE tcp_active_pcbs
      /\ \A i \in 1..n : i # k =>
           next'[q[i]] = IF i = k - 1 THEN next[q[k]] ELSE next[q[i]]
  <2>1. CASE k = 1
    <3>1. tcp_active_pcbs' = next[p] /\ next' = [next EXCEPT ![p] = NULL]
      BY <1>3, <2>1, AtFront DEF Remove
    <3> QED BY <1>2, <1>3, <1>4, <2>1, <3>1 DEF TmrTypeOK
  <2>2. CASE k # 1
    <3>1. tcp_active_pcbs # p
      BY <1>3, <2>2, AtFront
    <3>2. PICK b \in Before(p) : next' = [next EXCEPT ![b] = next[p], ![p] = NULL]
      BY <3>1 DEF Remove
    <3>3. b = q[k - 1] /\ k - 1 \in 1..n
      <4>1. b \in Before(q[k])
        BY <1>3, <3>2
      <4>2. b = q[k - 1]
        BY <4>1, Predecessor, Zenon
      <4> QED BY <2>2, <4>2
    <3>4. tcp_active_pcbs' = tcp_active_pcbs
      BY <3>1 DEF Remove
    <3>5. ASSUME NEW i \in 1..n, i # k
          PROVE  next'[q[i]] = IF i = k - 1 THEN next[q[k]] ELSE next[q[i]]
      <4>1. q[i] # p /\ (q[i] = b <=> i = k - 1)
        BY <1>3, <1>4, <3>3, <3>5
      <4> QED BY <1>2, <1>3, <3>2, <4>1 DEF TmrTypeOK
    <3> QED BY <2>2, <3>4, <3>5
  <2> QED BY <2>1, <2>2
<1> DEFINE c == Cut(q, n, k)
<1>6. /\ c \in [1..(n - 1) -> Pcbs] /\ n - 1 \in Nat
      /\ \A i \in 1..(n - 1) : c[i] = IF i < k THEN q[i] ELSE q[i + 1]
      /\ \A i \in Nat : At(c, n - 1, i) = IF i < k THEN At(q, n, i) ELSE At(q, n, i + 1)
  BY CutAt
<1>7. Chain(tcp_active_pcbs', next', active', c, n - 1)
  <2>1. Chain(tcp_active_pcbs', next', active \ {q[k]}, Cut(q, n, k), n - 1)
    <3>1. Unlinks(tcp_active_pcbs, next, tcp_active_pcbs', next', q, n, k)
      BY <1>5 DEF Unlinks
    <3> QED BY <3>1, CutChain, Zenon
  <2> QED BY <1>1, <1>3, <2>1
<1> HIDE DEF c
<1>8. CASE ~Walking
  <2>1. ~Walking' /\ ~Unlinking' /\ ~Unlinking
    BY <1>1, <1>8 DEF Walking, Unlinking
  <2>2. \A x \in active : Overdue(x)' <=> Overdue(x)
    BY <1>1 DEF Overdue
  <2>3. WalkOK(c, n - 1, 0)'
    BY <1>1, <1>8, <2>1, <2>2 DEF WalkOK, Successor, Walking, Unlinking
  <2>4. 0 \in 0..(n - 1)
    BY <1>6
  <2> QED BY <1>6, <1>7, <2>3, <2>4 DEF Whole
<1>9. CASE Walking
  <2>1. /\ Ahead = At(q, n, w + 1) /\ Passed(q, n, w)
        /\ prev = IF Unlinking THEN At(q, n, w) ELSE NULL
    BY <1>9 DEF WalkOK
  <2>2. k # w + 1 /\ (Unlinking => k # w)
    BY <1>1, <1>3, <1>9, <2>1 DEF PcbTears, InSlow, Walking, Unlinking, Ahead, At
  <2> DEFINE v == IF k <= w THEN w - 1 ELSE w
  <2>3. v \in 0..(n - 1) /\ v \in Nat /\ v + 1 \in Nat
    BY <2>2
  <2>a. Ahead' = Ahead
    BY <1>1 DEF Ahead
  <2>4. Ahead' = At(c, n - 1, v + 1)
    <3>1. At(c, n - 1, v + 1) = At(q, n, w + 1)
      <4>1. CASE k <= w
        BY <1>6, <4>1
      <4>2. CASE k > w + 1
        BY <1>6, <4>2
      <4> QED BY <2>2, <4>1, <4>2
    <3> QED BY <2>1, <2>a, <3>1
  <2>5. prev' = IF Unlinking' THEN At(c, n - 1, v) ELSE NULL
    <3>1. Unlinking => At(c, n - 1, v) = At(q, n, w)
      <4>1. CASE k < w
        <5>1. w - 1 \in Nat /\ ~(w - 1 < k) /\ (w - 1) + 1 = w
          BY <4>1
        <5>2. At(c, n - 1, w - 1) = At(q, n, (w - 1) + 1)
          BY <1>6, <5>1
        <5> QED BY <4>1, <5>1, <5>2
      <4>2. CASE k > w
        BY <1>6, <4>2
      <4> QED BY <2>2, <4>1, <4>2
    <3>2. Unlinking' <=> Unlinking
      BY <1>1 DEF Unlinking
    <3> QED BY <1>1, <2>1, <3>1, <3>2
  <2>6. Passed(c, n - 1, v)'
    <3> SUFFICES ASSUME NEW i \in 1..(n - 1)
        PROVE  IF i <= v
               THEN /\ ~Overdue(c[i])'
                    /\ c[i] \in owed' => last_timer'[c[i]] = tcp_timer_ctr'
               ELSE last_timer'[c[i]] = tcp_timer_ctr' <=> Served' /\ i = v + 1
      BY DEF Passed
    <3>1. PICK j \in 1..n : j = IF i < k THEN i ELSE i + 1
      OBVIOUS
    <3>2. c[i] = q[j]
      BY <1>6, <3>1
    <3>3. (j <= w <=> i <= v) /\ (j = w + 1 <=> i = v + 1)
      BY <2>2, <3>1
    <3>4. IF j <= w
          THEN /\ ~Overdue(q[j])
               /\ q[j] \in owed => last_timer[q[j]] = tcp_timer_ctr
          ELSE last_timer[q[j]] = tcp_timer_ctr <=> Served /\ j = w + 1
      BY <2>1 DEF Passed
    <3>5. (Overdue(c[i])' <=> Overdue(q[j])) /\ (Served' <=> Served)
      BY <1>1, <3>2 DEF Overdue, Served
    <3> HIDE DEF v
    <3> QED BY <1>1, <3>2, <3>3, <3>4, <3>5
  <2>s. Successor(c, n - 1, v)'
    <3>1. Successor(q, n, w)
      BY DEF WalkOK
    <3>2. CASE pc = "unlink"
      <4>1. k # (w + 1) + 1
        BY <1>1, <1>3, <3>1, <3>2 DEF PcbTears, Successor, At
      <4>2. At(c, n - 1, (v + 1) + 1) = At(q, n, (w + 1) + 1)
        <5>1. CASE k <= w
          BY <1>6, <5>1
        <5>2. CASE k > (w + 1) + 1
          BY <1>6, <5>2
        <5> QED BY <2>2, <4>1, <5>1, <5>2
      <4> QED BY <1>1, <3>1, <3>2, <4>2 DEF Successor
    <3>3. CASE pc = "unlinked"
      <4>1. pcb # NULL
        BY <3>3 DEF TmrInv, Holds
      <4>2. pcb \in Pcbs /\ pcb \notin active
        BY <1>2, <3>1, <3>3, <4>1 DEF TmrTypeOK, MaybePcb, Successor
      <4>3. next'[pcb] = next[pcb]
        <5>1. \A b \in Before(p) : b # pcb
          BY <4>2, ListedChain DEF Before
        <5> QED BY <1>1, <1>2, <4>2, <5>1 DEF Remove, TmrTypeOK
      <4> QED BY <1>1, <3>1, <3>3, <4>2, <4>3 DEF Successor
    <3> QED BY <1>1, <3>2, <3>3 DEF Successor
  <2> HIDE DEF v
  <2>7. WalkOK(c, n - 1, v)'
    BY <1>1, <1>a, <1>9, <2>4, <2>5, <2>6, <2>s DEF WalkOK, Walking, Unlinking
  <2> QED BY <1>6, <1>7, <2>3, <2>7 DEF Whole
<1> QED BY <1>8, <1>9

\* A connection moved to the front goes behind the walk, which it may have
\* stood ahead of: then it is not owed any more.
LEMMA MoveToFrontWhole ==
  ASSUME TmrInv, NEW n \in Nat, NEW q \in [1..n -> Pcbs], NEW w \in 0..n,
         Chain(tcp_active_pcbs, next, active, q, n), WalkOK(q, n, w),
         NEW p \in Pcbs, MoveToFront(p), ~torn'
  PROVE  Whole'
<1>1. /\ ~PcbTears(p) /\ ~Overdue(p) /\ tcp_active_pcbs # p /\ p \in Listed
      /\ ~(InSlow /\ pc # "slowfirst" /\ prev = NULL)
      /\ owed' = IF last_timer[p] = tcp_timer_ctr THEN owed ELSE owed \ {p}
      /\ tcp_active_pcbs' = p
      /\ UNCHANGED <<last_timer, tcp_timer_ctr, tcp_active_pcbs_changed, active,
                     pc, pcb, prev, nxt>>
  BY DEF MoveToFront, walk
<1>2. TmrTypeOK
  BY DEF TmrInv
<1>3. PICK k \in 1..n : q[k] = p
  <2>1. p \in active
    BY <1>1, ListedChain, TcpTmrAssumption
  <2> QED BY <2>1 DEF Chain
<1>4. \A i, j \in 1..n : q[i] = q[j] => i = j
  BY DEF Chain
<1>5. k # 1
  BY <1>1, <1>3, AtFront
<1>6. /\ next'[p] = tcp_active_pcbs
      /\ \A i \in 1..n : i # k =>
           next'[q[i]] = IF i = k - 1 THEN next[q[k]] ELSE next[q[i]]
  <2>1. PICK b \in Before(p) :
          next' = [next EXCEPT ![b] = next[p], ![p] = tcp_active_pcbs]
    BY DEF MoveToFront
  <2>2. b \in Before(q[k])
    BY <1>3, <2>1
  <2>3. b = q[k - 1]
    BY <2>2, Predecessor, Zenon
  <2>4. ASSUME NEW i \in 1..n, i # k
        PROVE  next'[q[i]] = IF i = k - 1 THEN next[q[k]] ELSE next[q[i]]
    <3>1. q[i] # p /\ (q[i] = b <=> i = k - 1)
      BY <1>3, <1>4, <1>5, <2>3, <2>4
    <3> QED BY <1>2, <1>3, <2>1, <3>1 DEF TmrTypeOK
  <2>5. next'[p] = tcp_active_pcbs
    BY <1>2, <2>1 DEF TmrTypeOK
  <2> QED BY <2>4, <2>5
<1> DEFINE c == Cut(q, n, k)
           r == Push(c, n - 1, p)
<1>7. /\ c \in [1..(n - 1) -> Pcbs] /\ n - 1 \in Nat /\ (n - 1) + 1 = n
      /\ \A i \in 1..(n - 1) : c[i] = IF i < k THEN q[i] ELSE q[i + 1]
      /\ \A i \in Nat : At(c, n - 1, i) = IF i < k THEN At(q, n, i) ELSE At(q, n, i + 1)
  <2>1. (n - 1) + 1 = n
    OBVIOUS
  <2> QED BY <2>1, CutAt, Zenon
<1>8. Chain(tcp_active_pcbs, next', active \ {p}, c, n - 1)
  <2>1. tcp_active_pcbs = IF k = 1 THEN next[q[k]] ELSE tcp_active_pcbs
    BY <1>5
  <2>2. Chain(tcp_active_pcbs, next', active \ {q[k]}, Cut(q, n, k), n - 1)
    <3>1. Unlinks(tcp_active_pcbs, next, tcp_active_pcbs, next', q, n, k)
      BY <1>6, <2>1 DEF Unlinks
    <3> QED BY <3>1, CutChain, Zenon
  <2> QED BY <1>3, <2>2
<1> HIDE DEF c
<1>9. Chain(tcp_active_pcbs', next', active', r, n)
  <2>1. p \notin active \ {p} /\ \A i \in 1..(n - 1) : next'[c[i]] = next'[c[i]]
    OBVIOUS
  <2>2. Chain(p, next', (active \ {p}) \cup {p}, Push(c, n - 1, p), (n - 1) + 1)
    BY <1>6, <1>7, <1>8, <2>1, PushChain, Zenon
  <2>3. (active \ {p}) \cup {p} = active
    BY <1>1, <1>3 DEF Chain
  <2> QED BY <1>1, <1>7, <2>2, <2>3
<1>p. IsPush(r, c, n - 1, p)
  BY <1>7, PushAt, Zenon
<1> HIDE DEF r
<1>10. /\ r \in [1..n -> Pcbs] /\ r[1] = p
       /\ \A i \in 1..n : i # 1 => r[i] = c[i - 1]
       /\ At(r, n, 1) = p
       /\ \A i \in Nat : i # 0 => At(r, n, i + 1) = At(c, n - 1, i)
  BY <1>7, <1>p, Zenon DEF IsPush
<1>11. /\ \A i \in 1..n : i # 1 => r[i] = IF i <= k THEN q[i - 1] ELSE q[i]
       /\ \A i \in Nat : i # 0 =>
            At(r, n, i + 1) = IF i < k THEN At(q, n, i) ELSE At(q, n, i + 1)
  <2>1. ASSUME NEW i \in 1..n, i # 1
        PROVE  r[i] = IF i <= k THEN q[i - 1] ELSE q[i]
    <3>1. i - 1 \in 1..(n - 1) /\ (i - 1) + 1 = i /\ (i - 1 < k <=> i <= k)
      BY <2>1
    <3> QED BY <1>7, <1>10, <2>1, <3>1
  <2> QED BY <1>7, <1>10, <2>1
<1>12. CASE ~Walking
  <2>1. ~Walking' /\ ~Unlinking' /\ ~Unlinking
    BY <1>1, <1>12 DEF Walking, Unlinking
  <2>2. \A x \in active : Overdue(x)' <=> Overdue(x)
    BY <1>1 DEF Overdue
  <2>3. WalkOK(r, n, 0)'
    BY <1>1, <1>12, <2>1, <2>2 DEF WalkOK, Successor, Walking, Unlinking
  <2>4. 0 \in 0..n
    OBVIOUS
  <2> QED BY <1>9, <1>10, <2>3, <2>4 DEF Whole
<1>13. CASE Walking
  <2>1. /\ Ahead = At(q, n, w + 1) /\ Passed(q, n, w)
        /\ prev = IF Unlinking THEN At(q, n, w) ELSE NULL
    BY <1>13 DEF WalkOK
  <2>a. Ahead' = Ahead
    BY <1>1 DEF Ahead
  <2>2. k # w + 1 /\ (Unlinking => k # w)
    BY <1>1, <1>3, <1>13, <2>1 DEF PcbTears, InSlow, Walking, Unlinking, Ahead, At
  <2>3. Unlinking => w # 0
    BY <1>1, <2>1 DEF InSlow, Unlinking, At
  <2> DEFINE v == IF k <= w THEN w ELSE w + 1
  <2>4. v \in 0..n /\ v \in Nat /\ v + 1 \in Nat
    BY <2>2
  <2>5. Ahead' = At(r, n, v + 1)
    <3>1. At(r, n, v + 1) = At(q, n, w + 1)
      <4>1. CASE k <= w
        BY <1>11, <4>1
      <4>2. CASE k > w + 1
        <5>1. At(r, n, (w + 1) + 1) = At(q, n, w + 1)
          BY <1>11, <4>2
        <5> QED BY <4>2, <5>1
      <4> QED BY <2>2, <4>1, <4>2
    <3> QED BY <2>1, <2>a, <3>1
  <2>6. prev' = IF Unlinking' THEN At(r, n, v) ELSE NULL
    <3>1. Unlinking => At(r, n, v) = At(q, n, w)
      <4>1. CASE k < w
        <5>1. w - 1 \in Nat /\ w - 1 # 0 /\ ~(w - 1 < k) /\ (w - 1) + 1 = w
          BY <1>5, <4>1
        <5>2. At(r, n, (w - 1) + 1) = At(q, n, (w - 1) + 1)
          BY <1>11, <5>1
        <5> QED BY <4>1, <5>1, <5>2
      <4>2. CASE k > w
        BY <1>11, <2>3, <4>2
      <4> QED BY <2>2, <4>1, <4>2
    <3>2. Unlinking' <=> Unlinking
      BY <1>1 DEF Unlinking
    <3> QED BY <1>1, <2>1, <3>1, <3>2
  <2>7. Passed(r, n, v)'
    <3> SUFFICES ASSUME NEW i \in 1..n
        PROVE  IF i <= v
               THEN /\ ~Overdue(r[i])'
                    /\ r[i] \in owed' => last_timer'[r[i]] = tcp_timer_ctr'
               ELSE last_timer'[r[i]] = tcp_timer_ctr' <=> Served' /\ i = v + 1
      BY DEF Passed
    <3>1. CASE i = 1
      <4>1. i <= v
        BY <1>5, <3>1
      <4>2. ~Overdue(r[i])'
        BY <1>1, <1>10, <3>1 DEF Overdue
      <4> QED BY <1>1, <1>10, <3>1, <4>1, <4>2
    <3>2. CASE i # 1
      <4>1. PICK j \in 1..n : j = IF i <= k THEN i - 1 ELSE i
        BY <3>2
      <4>2. r[i] = q[j] /\ j # k
        BY <1>11, <3>2, <4>1
      <4>3. (j <= w <=> i <= v) /\ (j = w + 1 <=> i = v + 1)
        BY <2>2, <3>2, <4>1
      <4>4. IF j <= w
            THEN /\ ~Overdue(q[j])
                 /\ q[j] \in owed => last_timer[q[j]] = tcp_timer_ctr
            ELSE last_timer[q[j]] = tcp_timer_ctr <=> Served /\ j = w + 1
        BY <2>1 DEF Passed
      <4>5. (Overdue(r[i])' <=> Overdue(q[j])) /\ (Served' <=> Served)
        BY <1>1, <4>2 DEF Overdue, Served
      <4>6. q[j] \in owed' <=> q[j] \in owed
        BY <1>1, <1>3, <1>4, <4>2
      <4> HIDE DEF v
      <4> QED BY <1>1, <4>2, <4>3, <4>4, <4>5, <4>6
    <3> QED BY <3>1, <3>2
  <2>s. Successor(r, n, v)'
    <3>1. Successor(q, n, w)
      BY DEF WalkOK
    <3>2. CASE pc = "unlink"
      <4>1. k # (w + 1) + 1
        BY <1>1, <1>3, <3>1, <3>2 DEF PcbTears, Successor, At
      <4>2. At(r, n, (v + 1) + 1) = At(q, n, (w + 1) + 1)
        <5>1. CASE k <= w
          BY <1>11, <5>1
        <5>2. CASE k > (w + 1) + 1
          <6>1. At(r, n, ((w + 1) + 1) + 1) = At(q, n, (w + 1) + 1)
            BY <1>11, <5>2
          <6> QED BY <5>2, <6>1
        <5> QED BY <2>2, <4>1, <5>1, <5>2
      <4> QED BY <1>1, <3>1, <3>2, <4>2 DEF Successor
    <3>3. CASE pc = "unlinked"
      <4>1. pcb # NULL
        BY <3>3 DEF TmrInv, Holds
      <4>2. pcb \in Pcbs /\ pcb \notin active
        BY <1>2, <3>1, <3>3, <4>1 DEF TmrTypeOK, MaybePcb, Successor
      <4>3. next'[pcb] = next[pcb]
        <5>1. \A b \in Before(p) : b # pcb
          BY <4>2, ListedChain DEF Before
        <5>2. p # pcb
          BY <1>3, <4>2 DEF Chain
        <5> QED BY <1>2, <4>2, <5>1, <5>2 DEF MoveToFront, TmrTypeOK
      <4> QED BY <1>1, <3>1, <3>3, <4>2, <4>3 DEF Successor
    <3> QED BY <1>1, <3>2, <3>3 DEF Successor
  <2> HIDE DEF v
  <2>8. WalkOK(r, n, v)'
    BY <1>1, <1>13, <2>5, <2>6, <2>7, <2>s DEF WalkOK, Walking, Unlinking
  <2> QED BY <1>9, <1>10, <2>4, <2>8 DEF Whole
<1> QED BY <1>12, <1>13

-----------------------------------------------------------------------------
(* The walks.                                                              *)

\* A walk that stands on a pcb stands on the member after those behind it;
\* one that has come to the end has all of them behind it.
LEMMA Stands ==
  ASSUME NEW n \in Nat, NEW q \in [1..n -> Pcbs], NEW w \in 0..n,
         Chain(tcp_active_pcbs, next, active, q, n), WalkOK(q, n, w),
         Walking, pc # "unlinked"
  PROVE  /\ pcb # NULL => /\ w + 1 \in 1..n /\ pcb = q[w + 1]
                          /\ next[pcb] = At(q, n, (w + 1) + 1)
         /\ pcb = NULL => w = n
<1>1. pcb = At(q, n, w + 1)
  BY DEF WalkOK, Ahead
<1>2. CASE w + 1 \in 1..n
  BY <1>1, <1>2, TcpTmrAssumption DEF At, Chain
<1>3. CASE w + 1 \notin 1..n
  BY <1>1, <1>3 DEF At
<1> QED BY <1>2, <1>3

\* A pass begins with a number that no connection carries.
LEMMA EnterWhole ==
  ASSUME TmrInv, NEW n \in Nat, NEW q \in [1..n -> Pcbs], NEW w \in 0..n,
         Chain(tcp_active_pcbs, next, active, q, n), WalkOK(q, n, w),
         Enter("idle", "fastfirst") \/ Enter("fastdone", "slowfirst")
  PROVE  Whole'
<1>1. /\ pc \in {"idle", "fastdone"} /\ pc' \in {"fastfirst", "slowfirst"}
      /\ tcp_timer_ctr' = (tcp_timer_ctr + 1) % CtrMod
      /\ UNCHANGED <<tcp_active_pcbs, next, last_timer, prev, active>>
  BY DEF Enter
<1>2. \A p \in active' : last_timer'[p] # tcp_timer_ctr'
  <2> SUFFICES ASSUME NEW p \in active
      PROVE  last_timer[p] # (tcp_timer_ctr + 1) % CtrMod
    BY <1>1
  <2>1. ~Overdue(p) /\ last_timer[p] \in 0..(CtrMod - 1)
        /\ tcp_timer_ctr \in 0..(CtrMod - 1)
    BY <1>1 DEF WalkOK, TmrInv, TmrTypeOK
  <2> QED BY <2>1, PassNumbers DEF Overdue
<1>3. prev' = NULL /\ ~Walking' /\ ~Unlinking'
  BY <1>1 DEF WalkOK, Walking, Unlinking
<1>4. WalkOK(q, n, w)'
  BY <1>1, <1>2, <1>3 DEF WalkOK, Successor
<1>5. Chain(tcp_active_pcbs', next', active', q, n)
  BY <1>1
<1> QED BY <1>4, <1>5 DEF Whole

\* A walk begins with nothing behind it.
LEMMA FirstWhole ==
  ASSUME TmrInv, NEW n \in Nat, NEW q \in [1..n -> Pcbs], NEW w \in 0..n,
         Chain(tcp_active_pcbs, next, active, q, n), WalkOK(q, n, w),
         First("fastfirst", "fast") \/ First("slowfirst", "slow")
  PROVE  Whole'
<1>1. /\ pc \in {"fastfirst", "slowfirst"} /\ pc' \in {"fast", "slow"}
      /\ pcb' = tcp_active_pcbs /\ prev' = NULL
      /\ UNCHANGED <<tcp_active_pcbs, next, last_timer, tcp_timer_ctr, active>>
  BY DEF First, history
<1>2. pcb' = At(q, n, 0 + 1) /\ At(q, n, 0) = NULL /\ 0 \in 0..n
  BY <1>1 DEF Chain, At
<1>3. Passed(q, n, 0)'
  <2>1. \A i \in 1..n : q[i] \in active /\ ~(i <= 0)
    BY DEF Chain
  <2>2. \A i \in 1..n : last_timer'[q[i]] # tcp_timer_ctr' /\ ~(i <= 0)
    BY <1>1, <2>1 DEF WalkOK
  <2>3. ~Served'
    BY <1>1 DEF Served
  <2> QED BY <2>2, <2>3 DEF Passed
<1>4. WalkOK(q, n, 0)'
  BY <1>1, <1>2, <1>3 DEF WalkOK, Successor, Ahead
<1>5. Chain(tcp_active_pcbs', next', active', q, n)
  BY <1>1
<1> QED BY <1>2, <1>4, <1>5 DEF Whole

\* The member the walk stands on is marked with the number of the pass.
LEMMA ServeWhole ==
  ASSUME TmrInv, NEW n \in Nat, NEW q \in [1..n -> Pcbs], NEW w \in 0..n,
         Chain(tcp_active_pcbs, next, active, q, n), WalkOK(q, n, w),
         Serve("fast", "ack") \/ Serve("slow", "body")
  PROVE  Whole'
<1>1. /\ pcb # NULL /\ last_timer' = [last_timer EXCEPT ![pcb] = tcp_timer_ctr]
      /\ \/ pc = "fast" /\ pc' = "ack"
         \/ pc = "slow" /\ pc' = "body"
      /\ UNCHANGED <<tcp_active_pcbs, next, tcp_timer_ctr, pcb, prev, active, owed>>
  BY DEF Serve, history
<1>2. ~Served /\ Served' /\ Walking /\ Walking' /\ (Unlinking' <=> Unlinking)
  BY <1>1 DEF Served, Walking, Unlinking
<1>3. w + 1 \in 1..n /\ pcb = q[w + 1]
  BY <1>1, <1>2, Stands
<1>4. /\ Ahead = At(q, n, w + 1) /\ Passed(q, n, w)
      /\ prev = IF Unlinking THEN At(q, n, w) ELSE NULL
  BY <1>2 DEF WalkOK
<1>5. /\ last_timer'[q[w + 1]] = tcp_timer_ctr
      /\ \A i \in 1..n : i # w + 1 => last_timer'[q[i]] = last_timer[q[i]]
  <2>1. \A i \in 1..n : i # w + 1 => q[i] # pcb
    BY <1>3 DEF Chain
  <2> QED BY <1>1, <1>3, <2>1 DEF TmrInv, TmrTypeOK
<1>6. Passed(q, n, w)'
  <2> SUFFICES ASSUME NEW i \in 1..n
      PROVE  IF i <= w
             THEN /\ ~Overdue(q[i])'
                  /\ q[i] \in owed' => last_timer'[q[i]] = tcp_timer_ctr'
             ELSE last_timer'[q[i]] = tcp_timer_ctr' <=> Served' /\ i = w + 1
    BY DEF Passed
  <2>1. CASE i = w + 1
    BY <1>1, <1>2, <1>5, <2>1
  <2>2. CASE i # w + 1
    <3>1. last_timer'[q[i]] = last_timer[q[i]] /\ (Overdue(q[i])' <=> Overdue(q[i]))
      BY <1>1, <1>5, <2>2 DEF Overdue
    <3>2. IF i <= w
          THEN ~Overdue(q[i]) /\ (q[i] \in owed => last_timer[q[i]] = tcp_timer_ctr)
          ELSE last_timer[q[i]] # tcp_timer_ctr
      BY <1>2, <1>4, <2>2 DEF Passed
    <3> QED BY <1>1, <2>2, <3>1, <3>2
  <2> QED BY <2>1, <2>2
<1>7. WalkOK(q, n, w)'
  BY <1>1, <1>2, <1>4, <1>6 DEF WalkOK, Successor, Ahead
<1>8. Chain(tcp_active_pcbs', next', active', q, n)
  BY <1>1
<1> QED BY <1>7, <1>8 DEF Whole

\* The walk leaves the member it has served behind it.
LEMMA NextWhole ==
  ASSUME TmrInv, NEW n \in Nat, NEW q \in [1..n -> Pcbs], NEW w \in 0..n,
         Chain(tcp_active_pcbs, next, active, q, n), WalkOK(q, n, w),
         FastNext \/ \E poll \in BOOLEAN : SlowKeep(poll)
  PROVE  Whole'
<1>1. /\ \/ pc = "ack" /\ pc' = "fast" /\ prev' = prev
         \/ pc = "body" /\ pc' \in {"slow", "clear"} /\ prev' = pcb
      /\ pcb' = next[pcb]
      /\ UNCHANGED <<tcp_active_pcbs, next, last_timer, tcp_timer_ctr, active, owed>>
  BY DEF FastNext, SlowKeep, history
<1>2. Served /\ ~Served' /\ Walking /\ Walking' /\ (Unlinking' <=> Unlinking)
  BY <1>1 DEF Served, Walking, Unlinking
<1>3. /\ w + 1 \in 1..n /\ w + 1 \in 0..n /\ pcb = q[w + 1]
      /\ next[pcb] = At(q, n, (w + 1) + 1)
  <2>1. pcb # NULL
    BY <1>2 DEF TmrInv, Holds
  <2> QED BY <1>1, <1>2, <2>1, Stands
<1>4. /\ pcb = At(q, n, w + 1) /\ Passed(q, n, w)
      /\ prev = IF Unlinking THEN At(q, n, w) ELSE NULL
  BY <1>1, <1>2 DEF WalkOK, Ahead
<1>5. Passed(q, n, w + 1)'
  <2> SUFFICES ASSUME NEW i \in 1..n
      PROVE  IF i <= w + 1
             THEN /\ ~Overdue(q[i])'
                  /\ q[i] \in owed' => last_timer'[q[i]] = tcp_timer_ctr'
             ELSE last_timer'[q[i]] = tcp_timer_ctr' <=> Served' /\ i = (w + 1) + 1
    BY DEF Passed
  <2>1. IF i <= w
        THEN ~Overdue(q[i]) /\ (q[i] \in owed => last_timer[q[i]] = tcp_timer_ctr)
        ELSE last_timer[q[i]] = tcp_timer_ctr <=> Served /\ i = w + 1
    BY <1>4 DEF Passed
  <2>2. Overdue(q[i])' <=> Overdue(q[i])
    BY <1>1 DEF Overdue
  <2>3. i = w + 1 => last_timer[q[i]] = tcp_timer_ctr /\ ~Overdue(q[i])
    <3>1. last_timer[q[i]] \in 0..(CtrMod - 1) /\ tcp_timer_ctr \in 0..(CtrMod - 1)
      BY DEF TmrInv, TmrTypeOK
    <3>2. i = w + 1 => last_timer[q[i]] = tcp_timer_ctr
      BY <1>2, <2>1
    <3> QED BY <3>1, <3>2, PassNumbers DEF Overdue
  <2> QED BY <1>1, <1>2, <2>1, <2>2, <2>3
<1>6. pcb' = At(q, n, (w + 1) + 1)
  BY <1>1, <1>3
<1>7. prev' = IF Unlinking' THEN At(q, n, w + 1) ELSE NULL
  BY <1>1, <1>2, <1>4 DEF Unlinking
<1>8. WalkOK(q, n, w + 1)'
  BY <1>1, <1>5, <1>6, <1>7 DEF WalkOK, Successor, Ahead
<1>9. Chain(tcp_active_pcbs', next', active', q, n)
  BY <1>1
<1> QED BY <1>3, <1>8, <1>9 DEF Whole

\* A walk that has come to the end leaves nothing overdue.
LEMMA DoneWhole ==
  ASSUME TmrInv, NEW n \in Nat, NEW q \in [1..n -> Pcbs], NEW w \in 0..n,
         Chain(tcp_active_pcbs, next, active, q, n), WalkOK(q, n, w),
         FastDone \/ SlowDone
  PROVE  Whole'
<1>1. /\ pc \in {"fast", "slow"} /\ pcb = NULL /\ pc' \in {"idle", "fastdone"}
      /\ prev' = IF pc = "slow" THEN NULL ELSE prev
      /\ UNCHANGED <<tcp_active_pcbs, next, last_timer, tcp_timer_ctr, active>>
  BY DEF FastDone, SlowDone
<1>2. w = n /\ Passed(q, n, w)
  BY <1>1, Stands DEF Walking, Unlinking, WalkOK
<1>3. \A p \in active' : ~Overdue(p)'
  <2> SUFFICES ASSUME NEW p \in active PROVE ~Overdue(p)
    BY <1>1 DEF Overdue
  <2>1. PICK i \in 1..n : p = q[i]
    BY DEF Chain
  <2> QED BY <1>2, <2>1 DEF Passed
<1>4. prev' = NULL /\ ~Walking' /\ ~Unlinking'
  BY <1>1 DEF WalkOK, Walking, Unlinking
<1>5. WalkOK(q, n, w)'
  BY <1>1, <1>3, <1>4 DEF WalkOK, Successor
<1>6. Chain(tcp_active_pcbs', next', active', q, n)
  BY <1>1
<1> QED BY <1>5, <1>6 DEF Whole

\* tcp_slowtmr has nothing to skip.
LEMMA NothingSkipped ==
  ASSUME TmrInv, NEW n \in Nat, NEW q \in [1..n -> Pcbs], NEW w \in 0..n,
         Chain(tcp_active_pcbs, next, active, q, n), WalkOK(q, n, w)
  PROVE  ~SlowSkip
<1> SUFFICES ASSUME SlowSkip PROVE FALSE
  OBVIOUS
<1>1. pc = "slow" /\ pcb # NULL /\ last_timer[pcb] = tcp_timer_ctr
  BY DEF SlowSkip
<1>2. w + 1 \in 1..n /\ pcb = q[w + 1] /\ Passed(q, n, w)
  BY <1>1, Stands DEF Walking, Unlinking, WalkOK
<1>3. ~Served /\ ~(w + 1 <= w)
  BY <1>1 DEF Served
<1> QED BY <1>1, <1>2, <1>3 DEF Passed

\* The successor of the member that timed out is loaded.
LEMMA SlowRemoveWhole ==
  ASSUME TmrInv, NEW n \in Nat, NEW q \in [1..n -> Pcbs], NEW w \in 0..n,
         Chain(tcp_active_pcbs, next, active, q, n), WalkOK(q, n, w), SlowRemove
  PROVE  Whole'
<1>1. /\ pc = "body" /\ pc' = "unlink" /\ nxt' = next[pcb]
      /\ UNCHANGED <<tcp_active_pcbs, next, last_timer, tcp_timer_ctr, pcb, prev,
                     active, owed>>
  BY DEF SlowRemove, history
<1>2. Served /\ Served' /\ Walking /\ Walking' /\ Unlinking /\ Unlinking'
  BY <1>1 DEF Served, Walking, Unlinking
<1>3. next[pcb] = At(q, n, (w + 1) + 1)
  <2>1. pcb # NULL
    BY <1>2 DEF TmrInv, Holds
  <2> QED BY <1>1, <1>2, <2>1, Stands
<1>4. Passed(q, n, w)'
  <2>1. Passed(q, n, w)
    BY <1>2 DEF WalkOK
  <2> QED BY <1>1, <1>2, <2>1 DEF Passed, Overdue
<1>5. WalkOK(q, n, w)'
  BY <1>1, <1>2, <1>3, <1>4 DEF WalkOK, Successor, Ahead
<1>6. Chain(tcp_active_pcbs', next', active', q, n)
  BY <1>1
<1> QED BY <1>5, <1>6 DEF Whole

\* The member that timed out is unlinked: prev is its predecessor.
LEMMA UnlinkWhole ==
  ASSUME TmrInv, NEW n \in Nat, NEW q \in [1..n -> Pcbs], NEW w \in 0..n,
         Chain(tcp_active_pcbs, next, active, q, n), WalkOK(q, n, w), Unlink
  PROVE  Whole'
<1>1. /\ pc = "unlink" /\ pc' = "unlinked" /\ pcb' = pcb /\ nxt' = nxt
      /\ active' = active \ {pcb} /\ owed' = owed \ {pcb}
      /\ UNCHANGED <<last_timer, tcp_timer_ctr, prev>>
  BY DEF Unlink
<1>2. Served /\ ~Served' /\ Walking /\ Walking' /\ Unlinking /\ Unlinking'
  BY <1>1 DEF Served, Walking, Unlinking
<1>3. PICK k \in 1..n : k = w + 1 /\ pcb = q[k] /\ next[pcb] = At(q, n, k + 1)
  <2>1. pcb # NULL
    BY <1>2 DEF TmrInv, Holds
  <2> QED BY <1>1, <1>2, <2>1, Stands
<1>4. Passed(q, n, w) /\ prev = At(q, n, w)
  BY <1>2 DEF WalkOK
<1>n. nxt = next[pcb]
  BY <1>1, <1>3 DEF WalkOK, Successor
<1>5. /\ tcp_active_pcbs' = IF k = 1 THEN next[q[k]] ELSE tcp_active_pcbs
      /\ \A i \in 1..n : i # k =>
           next'[q[i]] = IF i = k - 1 THEN next[q[k]] ELSE next[q[i]]
  <2>1. CASE k = 1
    <3>1. prev = NULL
      BY <1>3, <1>4, <2>1 DEF At
    <3>2. tcp_active_pcbs' = next[pcb] /\ next' = next
      BY <1>n, <3>1 DEF Unlink
    <3>3. \A i \in 1..n : i # k - 1
      BY <2>1
    <3> QED BY <1>3, <2>1, <3>2, <3>3
  <2>2. CASE k # 1
    <3>1. k - 1 \in 1..n /\ prev = q[k - 1] /\ prev # NULL
      BY <1>3, <1>4, <2>2, TcpTmrAssumption DEF At
    <3>2. next' = [next EXCEPT ![prev] = next[pcb]] /\ tcp_active_pcbs' = tcp_active_pcbs
      BY <1>n, <3>1 DEF Unlink
    <3>3. ASSUME NEW i \in 1..n, i # k
          PROVE  next'[q[i]] = IF i = k - 1 THEN next[q[k]] ELSE next[q[i]]
      <4>1. q[i] = prev <=> i = k - 1
        BY <3>1 DEF Chain
      <4> QED BY <1>3, <3>2, <4>1 DEF TmrInv, TmrTypeOK
    <3> QED BY <2>2, <3>2, <3>3
  <2> QED BY <2>1, <2>2
<1> DEFINE c == Cut(q, n, k)
<1>6. /\ c \in [1..(n - 1) -> Pcbs] /\ n - 1 \in Nat
      /\ \A i \in 1..(n - 1) : c[i] = IF i < k THEN q[i] ELSE q[i + 1]
      /\ \A i \in Nat : At(c, n - 1, i) = IF i < k THEN At(q, n, i) ELSE At(q, n, i + 1)
  BY CutAt
<1>7. Chain(tcp_active_pcbs', next', active', c, n - 1)
  <2>1. Chain(tcp_active_pcbs', next', active \ {q[k]}, Cut(q, n, k), n - 1)
    <3>1. Unlinks(tcp_active_pcbs, next, tcp_active_pcbs', next', q, n, k)
      BY <1>5 DEF Unlinks
    <3> QED BY <3>1, CutChain, Zenon
  <2> QED BY <1>1, <1>3, <2>1
<1> HIDE DEF c
<1>8. w \in 0..(n - 1) /\ w \in Nat /\ w + 1 \in Nat /\ w < k
  BY <1>3
<1>9. Ahead' = At(c, n - 1, w + 1)
  BY <1>1, <1>3, <1>n, <1>6, <1>8 DEF Ahead
<1>10. prev' = At(c, n - 1, w)
  BY <1>1, <1>4, <1>6, <1>8
<1>11. Passed(c, n - 1, w)'
  <2> SUFFICES ASSUME NEW i \in 1..(n - 1)
      PROVE  IF i <= w
             THEN /\ ~Overdue(c[i])'
                  /\ c[i] \in owed' => last_timer'[c[i]] = tcp_timer_ctr'
             ELSE last_timer'[c[i]] = tcp_timer_ctr' <=> Served' /\ i = w + 1
    BY DEF Passed
  <2>1. PICK j \in 1..n : j = IF i < k THEN i ELSE i + 1
    OBVIOUS
  <2>2. c[i] = q[j] /\ (j <= w <=> i <= w) /\ j # w + 1
    <3>1. c[i] = q[j]
      BY <1>6, <2>1
    <3>2. k = w + 1
      BY <1>3
    <3> QED BY <2>1, <3>1, <3>2
  <2>3. IF j <= w
        THEN ~Overdue(q[j]) /\ (q[j] \in owed => last_timer[q[j]] = tcp_timer_ctr)
        ELSE last_timer[q[j]] # tcp_timer_ctr
    BY <1>4, <2>2 DEF Passed
  <2>4. Overdue(c[i])' <=> Overdue(q[j])
    BY <1>1, <2>2 DEF Overdue
  <2> QED BY <1>1, <1>2, <2>2, <2>3, <2>4
<1>s. Successor(c, n - 1, w)'
  <2>1. next'[pcb] = next[pcb]
    <3>1. prev # NULL => prev # pcb
      <4>1. CASE w = 0
        BY <1>4, <4>1 DEF At
      <4>2. CASE w # 0
        <5>1. w \in 1..n /\ w # k
          BY <1>3, <4>2
        <5>2. prev = q[w] /\ q[w] # q[k]
          BY <1>4, <5>1 DEF At, Chain
        <5> QED BY <1>3, <5>2
      <4> QED BY <4>1, <4>2
    <3> QED BY <1>3, <3>1 DEF Unlink, TmrInv, TmrTypeOK
  <2> QED BY <1>1, <1>n, <2>1 DEF Successor
<1>12. WalkOK(c, n - 1, w)'
  BY <1>1, <1>2, <1>9, <1>10, <1>11, <1>s DEF WalkOK
<1> QED BY <1>6, <1>7, <1>8, <1>12 DEF Whole

\* The walk goes on to the successor, and the list stays as it is.
LEMMA SlowFreeWhole ==
  ASSUME TmrInv, NEW n \in Nat, NEW q \in [1..n -> Pcbs], NEW w \in 0..n,
         Chain(tcp_active_pcbs, next, active, q, n), WalkOK(q, n, w),
         SlowFree \/ ClearChanged
  PROVE  Whole'
<1>1. /\ \/ pc = "unlinked" /\ pc' = "clear" /\ pcb' = next[pcb]
         \/ pc = "clear" /\ pc' = "callback" /\ pcb' = pcb /\ ~tcp_active_pcbs_changed'
      /\ UNCHANGED <<tcp_active_pcbs, next, last_timer, tcp_timer_ctr, prev,
                     active, owed>>
  BY DEF SlowFree, ClearChanged, history
<1>2. ~Served /\ ~Served' /\ Walking /\ Walking' /\ Unlinking /\ Unlinking'
  BY <1>1 DEF Served, Walking, Unlinking
<1>3. Ahead' = Ahead
  BY <1>1 DEF Ahead, WalkOK, Successor
<1>4. Passed(q, n, w)'
  <2>1. Passed(q, n, w)
    BY <1>2 DEF WalkOK
  <2> QED BY <1>1, <1>2, <2>1 DEF Passed, Overdue
<1>5. WalkOK(q, n, w)'
  BY <1>1, <1>2, <1>3, <1>4 DEF WalkOK, Successor
<1>6. Chain(tcp_active_pcbs', next', active', q, n)
  BY <1>1
<1> QED BY <1>5, <1>6 DEF Whole

\* The callback has left the list alone, so the walk goes on.
LEMMA ReturnedWhole ==
  ASSUME TmrInv, NEW n \in Nat, NEW q \in [1..n -> Pcbs], NEW w \in 0..n,
         Chain(tcp_active_pcbs, next, active, q, n), WalkOK(q, n, w), Returned
  PROVE  Whole'
<1>1. /\ pc = "callback" /\ pc' = "slow"
      /\ UNCHANGED <<tcp_active_pcbs, next, last_timer, tcp_timer_ctr, pcb, prev,
                     active, owed>>
  BY DEF Returned, WalkOK, history
<1>2. ~Served /\ ~Served' /\ Walking /\ Walking' /\ Unlinking /\ Unlinking'
  BY <1>1 DEF Served, Walking, Unlinking
<1>3. Passed(q, n, w)'
  <2>1. Passed(q, n, w)
    BY <1>2 DEF WalkOK
  <2> QED BY <1>1, <1>2, <2>1 DEF Passed, Overdue
<1>4. WalkOK(q, n, w)'
  BY <1>1, <1>2, <1>3 DEF WalkOK, Successor, Ahead
<1>5. Chain(tcp_active_pcbs', next', active', q, n)
  BY <1>1
<1> QED BY <1>4, <1>5 DEF Whole

-----------------------------------------------------------------------------
(* The theorems.                                                           *)

\* Every step that hits no window keeps the list and the walk whole.
LEMMA NextInv ==
  ASSUME TmrInv, [TmrNext]_tmrVars
  PROVE  TmrInv'
<1>1. TmrTypeOK' /\ (Holds => pcb # NULL)'
  BY NextType DEF TmrInv
<1>2. ASSUME ~torn' PROVE Whole'
  <2>1. ~torn
    <3>1. CASE EthIrq
      BY <1>2, <3>1 DEF EthIrq, Register, Remove, MoveToFront
    <3>2. CASE UNCHANGED torn
      BY <1>2, <3>2
    <3>3. tcp_fasttmr => UNCHANGED torn
      BY DEF tcp_fasttmr, Enter, First, Serve, FastNext, FastSpins, FastDone,
             history, tmrVars
    <3>4. tcp_slowtmr => UNCHANGED torn
      BY DEF tcp_slowtmr, Enter, First, Serve, SlowSkip, SlowRemove, Unlink, SlowFree,
             SlowKeep, ClearChanged, Returned, SlowDone, history
    <3> QED BY <3>1, <3>2, <3>3, <3>4 DEF TmrNext, tmrVars, history
  <2>n. PICK n \in Nat : \E q \in [1..n -> Pcbs] : \E w \in 0..n :
          Chain(tcp_active_pcbs, next, active, q, n) /\ WalkOK(q, n, w)
    BY <2>1, Zenon DEF TmrInv, Whole
  <2>q. PICK q \in [1..n -> Pcbs] : \E w \in 0..n :
          Chain(tcp_active_pcbs, next, active, q, n) /\ WalkOK(q, n, w)
    BY <2>n, Zenon
  <2>2. PICK w \in 0..n :
          Chain(tcp_active_pcbs, next, active, q, n) /\ WalkOK(q, n, w)
    BY <2>q, Zenon
  <2>3. CASE EthIrq
    <3>1. PICK p \in Pcbs : \/ Register(p) \/ MoveToFront(p)
                            \/ \E told \in BOOLEAN : Remove(p, told)
      BY <2>3 DEF EthIrq
    <3> QED BY <1>2, <2>2, <3>1, RegisterWhole, RemoveWhole, MoveToFrontWhole, Zenon
  <2>4. CASE Enter("idle", "fastfirst") \/ Enter("fastdone", "slowfirst")
    BY <2>2, <2>4, EnterWhole, Zenon
  <2>5. CASE First("fastfirst", "fast") \/ First("slowfirst", "slow")
    BY <2>2, <2>5, FirstWhole, Zenon
  <2>6. CASE Serve("fast", "ack") \/ Serve("slow", "body")
    BY <2>2, <2>6, ServeWhole, Zenon
  <2>7. CASE FastNext \/ \E poll \in BOOLEAN : SlowKeep(poll)
    BY <2>2, <2>7, NextWhole, Zenon
  <2>8. CASE FastDone \/ SlowDone
    BY <2>2, <2>8, DoneWhole, Zenon
  <2>9. CASE SlowSkip
    BY <2>2, <2>9, NothingSkipped, Zenon
  <2>10. CASE SlowRemove
    BY <2>2, <2>10, SlowRemoveWhole, Zenon
  <2>u. CASE Unlink
    BY <2>2, <2>u, UnlinkWhole, Zenon
  <2>f. CASE SlowFree \/ ClearChanged
    BY <2>2, <2>f, SlowFreeWhole, Zenon
  <2>11. CASE Returned
    BY <2>2, <2>11, ReturnedWhole, Zenon
  <2>12. CASE UNCHANGED tmrVars
    <3>1. /\ UNCHANGED <<tcp_active_pcbs, next, last_timer, tcp_timer_ctr, pc, pcb, nxt>>
          /\ UNCHANGED <<prev, active, owed, tcp_active_pcbs_changed>>
      BY <2>12 DEF tmrVars, walk, history
    <3>2. Chain(tcp_active_pcbs', next', active', q, n)
      BY <2>2, <3>1
    <3>3. Passed(q, n, w) => Passed(q, n, w)'
      BY <3>1 DEF Passed, Overdue, Served
    <3>4. WalkOK(q, n, w)'
      BY <2>2, <3>1, <3>3 DEF WalkOK, Walking, Unlinking, Overdue, Successor, Ahead
    <3> QED BY <3>2, <3>4 DEF Whole
  <2> QED BY <2>3, <2>4, <2>5, <2>6, <2>7, <2>8, <2>9, <2>10, <2>11, <2>12,
             <2>u, <2>f
          DEF TmrNext, tcp_fasttmr, tcp_slowtmr, FastSpins
<1> QED BY <1>1, <1>2 DEF TmrInv

\* The invariant holds throughout.
LEMMA TmrInvariant == TmrSpec => []TmrInv
<1>1. TmrInit => TmrInv
  <2> SUFFICES ASSUME TmrInit PROVE TmrInv
    OBVIOUS
  <2>1. TmrTypeOK /\ ~Holds
    <3>1. 0 \in 0..(CtrMod - 1)
      BY TcpTmrAssumption
    <3>2. next \in [Pcbs -> MaybePcb] /\ last_timer \in [Pcbs -> 0..(CtrMod - 1)]
      BY <3>1 DEF TmrInit, MaybePcb
    <3> QED BY <3>1, <3>2 DEF TmrInit, TmrTypeOK, MaybePcb, Holds, Served
  <2> DEFINE e == [i \in 1..0 |-> NULL]
  <2>2. e \in [1..0 -> Pcbs] /\ 0 \in 0..0 /\ 0 \in Nat
    OBVIOUS
  <2>3. Chain(tcp_active_pcbs, next, active, e, 0)
    BY DEF TmrInit, Chain, At
  <2>4. WalkOK(e, 0, 0)
    BY DEF TmrInit, WalkOK, Successor, Walking, Unlinking
  <2> HIDE DEF e
  <2>5. Whole
    BY <2>2, <2>3, <2>4 DEF Whole
  <2> QED BY <2>1, <2>5 DEF TmrInv
<1>2. TmrInv /\ [TmrNext]_tmrVars => TmrInv'
  BY NextInv
<1> QED BY <1>1, <1>2, PTL DEF TmrSpec

\* The timers' variables keep their types, torn or not: the pass number keeps
\* its width, and what next, pcb and prev hold is a pcb or NULL.
THEOREM TmrTypeCorrect == TmrSpec => []TmrTypeOK
<1>1. TmrInv => TmrTypeOK
  BY DEF TmrInv
<1> QED BY <1>1, TmrInvariant, PTL

\* TCP_REG_ACTIVE, TCP_RMV_ACTIVE, the move to the front and the unlinking by
\* way of prev leave tcp_active_pcbs exact as long as no window is hit.
THEOREM ActiveListIsExact == TmrSpec => []ActiveListExact
<1>1. TmrInv => ActiveListExact
  <2> SUFFICES ASSUME TmrInv, ~torn PROVE Listed = active \cup {NULL}
    BY DEF ActiveListExact
  <2>n. PICK n \in Nat : \E q \in [1..n -> Pcbs] :
          Chain(tcp_active_pcbs, next, active, q, n)
    BY Zenon DEF TmrInv, Whole
  <2>1. PICK q \in [1..n -> Pcbs] : Chain(tcp_active_pcbs, next, active, q, n)
    BY <2>n, Zenon
  <2> QED BY <2>1, ListedChain, Zenon
<1> QED BY <1>1, TmrInvariant, PTL

\* A pass of tcp_fasttmr or tcp_slowtmr ends with every connection served that
\* it owed, whatever the interrupt did to the list outside the windows.
THEOREM PassServesEveryOne == TmrSpec => []PassServesAll
<1>1. TmrInv => PassServesAll
  <2> SUFFICES ASSUME TmrInv, ~torn, pc \in {"fast", "slow"}, pcb = NULL,
                      NEW p \in owed
      PROVE  last_timer[p] = tcp_timer_ctr
    BY DEF PassServesAll
  <2>n. PICK n \in Nat : \E q \in [1..n -> Pcbs] : \E w \in 0..n :
          Chain(tcp_active_pcbs, next, active, q, n) /\ WalkOK(q, n, w)
    BY Zenon DEF TmrInv, Whole
  <2>q. PICK q \in [1..n -> Pcbs] : \E w \in 0..n :
          Chain(tcp_active_pcbs, next, active, q, n) /\ WalkOK(q, n, w)
    BY <2>n, Zenon
  <2>1. PICK w \in 0..n :
          Chain(tcp_active_pcbs, next, active, q, n) /\ WalkOK(q, n, w)
    BY <2>q, Zenon
  <2>2. w = n /\ Passed(q, n, w)
    BY <2>1, Stands DEF WalkOK, Walking, Unlinking
  <2>3. PICK i \in 1..n : p = q[i]
    BY <2>1 DEF TmrInv, TmrTypeOK, Chain
  <2> QED BY <2>2, <2>3 DEF Passed
<1> QED BY <1>1, TmrInvariant, PTL

\* What tcp_slowtmr asserts before it unlinks a pcb: by way of prev, "middle
\* tcp != tcp_active_pcbs", and prev is still the one before it; as the first,
\* "first pcb == tcp_active_pcbs".
UnlinksRightly ==
  ~torn /\ pc \in {"body", "unlink"} =>
    IF prev # NULL
    THEN pcb # tcp_active_pcbs /\ prev \in active /\ next[prev] = pcb
    ELSE tcp_active_pcbs = pcb

\* The two assertions of tcp_slowtmr hold, although prev and pcb were read
\* before the interrupt registered, removed and moved connections: whatever it
\* did outside the windows, the unlinking cuts out pcb and nothing else.
THEOREM SlowUnlinksRightly == TmrSpec => []UnlinksRightly
<1>1. TmrInv => UnlinksRightly
  <2> SUFFICES ASSUME TmrInv, ~torn, pc \in {"body", "unlink"}
      PROVE  IF prev # NULL
             THEN pcb # tcp_active_pcbs /\ prev \in active /\ next[prev] = pcb
             ELSE tcp_active_pcbs = pcb
    BY DEF UnlinksRightly
  <2>n. PICK n \in Nat : \E q \in [1..n -> Pcbs] : \E w \in 0..n :
          Chain(tcp_active_pcbs, next, active, q, n) /\ WalkOK(q, n, w)
    BY Zenon DEF TmrInv, Whole
  <2>q. PICK q \in [1..n -> Pcbs] : \E w \in 0..n :
          Chain(tcp_active_pcbs, next, active, q, n) /\ WalkOK(q, n, w)
    BY <2>n, Zenon
  <2>1. PICK w \in 0..n :
          Chain(tcp_active_pcbs, next, active, q, n) /\ WalkOK(q, n, w)
    BY <2>q, Zenon
  <2>2. Walking /\ Unlinking /\ pcb # NULL
    BY DEF Walking, Unlinking, Holds, Served, TmrInv
  <2>3. w + 1 \in 1..n /\ pcb = q[w + 1]
    BY <2>1, <2>2, Stands
  <2>4. prev = At(q, n, w) /\ tcp_active_pcbs = At(q, n, 1)
    BY <2>1, <2>2 DEF WalkOK, Chain
  <2>5. CASE w = 0
    <3>1. prev = NULL /\ tcp_active_pcbs = pcb
      BY <2>3, <2>4, <2>5 DEF At
    <3> QED BY <3>1
  <2>6. CASE w # 0
    <3>1. w \in 1..n /\ 1 \in 1..n /\ w + 1 # 1
      BY <2>3, <2>6
    <3>2. prev = q[w] /\ tcp_active_pcbs = q[1] /\ prev # NULL
      BY <2>4, <3>1, TcpTmrAssumption DEF At
    <3>3. q[w] \in active /\ next[q[w]] = At(q, n, w + 1)
      BY <2>1, <3>1 DEF Chain
    <3>4. next[q[w]] = pcb
      BY <2>3, <3>3 DEF At
    <3>5. q[w + 1] # q[1]
      BY <2>1, <2>3, <3>1 DEF Chain
    <3> QED BY <2>3, <3>2, <3>3, <3>4, <3>5
  <2> QED BY <2>5, <2>6
<1> QED BY <1>1, TmrInvariant, PTL

\* A walk goes on: it stands at no pcb that carries the number of the pass,
\* where tcp_fasttmr would stay, and no callback makes it start again.
WalkGoesOn ==
  ~torn =>
    /\ pc \in {"fast", "slow"} /\ pcb # NULL => last_timer[pcb] # tcp_timer_ctr
    /\ pc = "callback" => ~tcp_active_pcbs_changed

\* Outside the windows neither tcp_fasttmr nor tcp_slowtmr stands still, skips
\* or starts over, although tcp_fasttmr has no way past a pcb that carries the
\* pass number and the number wraps: the safety part of PassEnds.
THEOREM WalksGoOn == TmrSpec => []WalkGoesOn
<1>1. TmrInv => WalkGoesOn
  <2> SUFFICES ASSUME TmrInv, ~torn
      PROVE  /\ pc \in {"fast", "slow"} /\ pcb # NULL =>
                  last_timer[pcb] # tcp_timer_ctr
             /\ pc = "callback" => ~tcp_active_pcbs_changed
    BY DEF WalkGoesOn
  <2>n. PICK n \in Nat : \E q \in [1..n -> Pcbs] : \E w \in 0..n :
          Chain(tcp_active_pcbs, next, active, q, n) /\ WalkOK(q, n, w)
    BY Zenon DEF TmrInv, Whole
  <2>q. PICK q \in [1..n -> Pcbs] : \E w \in 0..n :
          Chain(tcp_active_pcbs, next, active, q, n) /\ WalkOK(q, n, w)
    BY <2>n, Zenon
  <2>1. PICK w \in 0..n :
          Chain(tcp_active_pcbs, next, active, q, n) /\ WalkOK(q, n, w)
    BY <2>q, Zenon
  <2>2. ASSUME pc \in {"fast", "slow"}, pcb # NULL
        PROVE  last_timer[pcb] # tcp_timer_ctr
    <3>1. Walking /\ ~Served
      BY <2>2 DEF Walking, Unlinking, Served
    <3>2. w + 1 \in 1..n /\ pcb = q[w + 1]
      BY <2>1, <2>2, <3>1, Stands
    <3>3. Passed(q, n, w) /\ ~(w + 1 <= w)
      BY <2>1, <3>1 DEF WalkOK
    <3> QED BY <3>1, <3>2, <3>3 DEF Passed
  <2>3. pc = "callback" => ~tcp_active_pcbs_changed
    BY <2>1 DEF WalkOK
  <2> QED BY <2>2, <2>3
<1> QED BY <1>1, TmrInvariant, PTL
=============================================================================
