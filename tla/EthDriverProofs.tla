--------------------------- MODULE EthDriverProofs ---------------------------
(***************************************************************************)
(* For rings of any size: the driver keeps its types, the handler never    *)
(* meets a descriptor it may not have, a frame is refused only when every  *)
(* buffer is under way, and both rings are queues; the transmit ring until *)
(* the interrupt hands a descriptor over in the middle of the main loop's  *)
(* hand-over (mixed).                                                      *)
(*                                                                         *)
(* On either side the descriptors of one party are a run: n of them, from  *)
(* the index of that side that takes, up to the index of the side that     *)
(* puts.  A run on a ring is described by position (Place, Run, Along), so *)
(* that % occurs in the first lemmas only.                                 *)
(***************************************************************************)
EXTENDS EthDriver, SequenceTheorems, TLAPS

\* The k-th place after a on a ring of N.
Place(N, a, k) == (a + k) % N

\* The descriptors in S are the n from a on.
Run(N, a, n, S) == \A k \in 0 .. N - 1 : Place(N, a, k) \in S <=> k < n

\* What v holds at the n places from a on.
Along(N, a, n, v) == [k \in 1 .. n |-> v[Place(N, a, k - 1)]]

\* Places on a ring.
LEMMA RingPlaces ==
  ASSUME NEW N \in Nat \ {0}, NEW a \in 0 .. N - 1
  PROVE  \A k \in 0 .. N :
           /\ Place(N, a, k) = IF a + k < N THEN a + k ELSE a + k - N
           /\ Place(N, a, k) \in 0 .. N - 1
<1>1. ASSUME NEW k \in 0 .. N, a + k < N PROVE (a + k) % N = a + k
  BY <1>1
<1>2. ASSUME NEW k \in 0 .. N, ~(a + k < N) PROVE (a + k) % N = a + k - N
  BY <1>2
<1>3. \A k \in 0 .. N : (a + k) % N = IF a + k < N THEN a + k ELSE a + k - N
  BY <1>1, <1>2
<1>4. \A k \in 0 .. N : Place(N, a, k) = IF a + k < N THEN a + k ELSE a + k - N
  BY <1>3 DEF Place
<1> QED BY <1>4

\* A ring starts at its start.
LEMMA PlaceZero ==
  ASSUME NEW N \in Nat \ {0}, NEW a \in 0 .. N - 1
  PROVE  Place(N, a, 0) = a
<1>1. 0 \in 0 .. N /\ a + 0 < N /\ a + 0 = a
  OBVIOUS
<1> QED BY <1>1, RingPlaces

\* One step on, every place is the next.
LEMMA PlaceNext ==
  ASSUME NEW N \in Nat \ {0}, NEW a \in 0 .. N - 1, NEW k \in 0 .. N - 1
  PROVE  /\ Place(N, a, 1) \in 0 .. N - 1
         /\ Place(N, Place(N, a, 1), k) = Place(N, a, k + 1)
<1>1. /\ Place(N, a, 1) = (IF a + 1 < N THEN a + 1 ELSE 0)
      /\ Place(N, a, 1) \in 0 .. N - 1
  <2>1. 1 \in 0 .. N /\ (~(a + 1 < N) => a + 1 - N = 0)
    OBVIOUS
  <2> QED BY <2>1, RingPlaces
<1>2. /\ k + 1 \in 0 .. N /\ k \in 0 .. N
      /\ Place(N, a, k + 1) = IF a + (k + 1) < N THEN a + (k + 1) ELSE a + (k + 1) - N
  BY RingPlaces
<1>3. ASSUME NEW b \in 0 .. N - 1, b = (IF a + 1 < N THEN a + 1 ELSE 0)
      PROVE  Place(N, b, k) = Place(N, a, k + 1)
  <2>1. Place(N, b, k) = IF b + k < N THEN b + k ELSE b + k - N
    BY <1>2, RingPlaces
  <2> QED BY <1>2, <1>3, <2>1
<1> QED BY <1>1, <1>3

\* ... and the step after the k-th place is the one after that.
LEMMA PlaceSucc ==
  ASSUME NEW N \in Nat \ {0}, NEW a \in 0 .. N - 1, NEW k \in 0 .. N - 1
  PROVE  Place(N, Place(N, a, k), 1) = Place(N, a, k + 1)
<1>1. k \in 0 .. N /\ k + 1 \in 0 .. N /\ 1 \in 0 .. N
  OBVIOUS
<1>2. /\ Place(N, a, k) = IF a + k < N THEN a + k ELSE a + k - N
      /\ Place(N, a, k) \in 0 .. N - 1
      /\ Place(N, a, k + 1) = IF a + (k + 1) < N THEN a + (k + 1) ELSE a + (k + 1) - N
  BY <1>1, RingPlaces
<1>3. ASSUME NEW b \in 0 .. N - 1, b = (IF a + k < N THEN a + k ELSE a + k - N)
      PROVE  Place(N, b, 1) = Place(N, a, k + 1)
  <2>1. Place(N, b, 1) = IF b + 1 < N THEN b + 1 ELSE b + 1 - N
    BY <1>1, RingPlaces
  <2> QED BY <1>2, <1>3, <2>1
<1> QED BY <1>2, <1>3

\* Places less than a round apart differ.
LEMMA PlacesDiffer ==
  ASSUME NEW N \in Nat \ {0}, NEW a \in 0 .. N - 1, NEW k \in 0 .. N - 1,
         NEW j \in 0 .. N - 1, Place(N, a, k) = Place(N, a, j)
  PROVE  k = j
<1>1. k \in 0 .. N /\ j \in 0 .. N
  OBVIOUS
<1>2. /\ Place(N, a, k) = IF a + k < N THEN a + k ELSE a + k - N
      /\ Place(N, a, j) = IF a + j < N THEN a + j ELSE a + j - N
  BY <1>1, RingPlaces
<1>3. (IF a + k < N THEN a + k ELSE a + k - N) = (IF a + j < N THEN a + j ELSE a + j - N)
  BY <1>2
<1> QED BY <1>3

\* The place after the run is not in it, and joins it.
LEMMA RunAdd ==
  ASSUME NEW N \in Nat \ {0}, NEW a \in 0 .. N - 1, NEW n \in 0 .. N - 1, NEW S,
         Run(N, a, n, S)
  PROVE  /\ Place(N, a, n) \in 0 .. N - 1 /\ Place(N, a, n) \notin S
         /\ Run(N, a, n + 1, S \cup {Place(N, a, n)})
<1>1. Place(N, a, n) \in 0 .. N - 1
  BY RingPlaces
<1>2. Place(N, a, n) \notin S
  BY DEF Run
<1>3. ASSUME NEW k \in 0 .. N - 1
      PROVE  Place(N, a, k) \in S \cup {Place(N, a, n)} <=> k < n + 1
  <2>1. Place(N, a, k) = Place(N, a, n) => k = n
    BY PlacesDiffer
  <2>2. Place(N, a, k) \in S <=> k < n
    BY DEF Run
  <2> QED BY <2>1, <2>2
<1> QED BY <1>1, <1>2, <1>3 DEF Run

\* The first of a run leaves it.
LEMMA RunTake ==
  ASSUME NEW N \in Nat \ {0}, NEW a \in 0 .. N - 1, NEW n \in 1 .. N, NEW S,
         Run(N, a, n, S)
  PROVE  a \in S /\ Run(N, Place(N, a, 1), n - 1, S \ {a})
<1>1. Place(N, a, 0) = a
  BY PlaceZero
<1>2. a \in S
  <2>1. 0 \in 0 .. N - 1 /\ 0 < n
    OBVIOUS
  <2> QED BY <1>1, <2>1 DEF Run
<1>3. ASSUME NEW k \in 0 .. N - 1
      PROVE  Place(N, Place(N, a, 1), k) \in S \ {a} <=> k < n - 1
  <2>1. Place(N, Place(N, a, 1), k) = Place(N, a, k + 1)
    BY PlaceNext
  <2>2. CASE k = N - 1
    <3>1. k + 1 = N /\ N \in 0 .. N /\ a + N - N = a /\ ~(a + N < N)
      BY <2>2
    <3>2. Place(N, a, k + 1) = a
      BY <3>1, RingPlaces
    <3>3. ~(k < n - 1)
      BY <2>2
    <3> QED BY <2>1, <3>2, <3>3
  <2>3. CASE k # N - 1
    <3>1. k + 1 \in 0 .. N - 1 /\ k + 1 # 0 /\ (k < n - 1 <=> k + 1 < n)
          /\ 0 \in 0 .. N - 1
      BY <2>3
    <3>2. Place(N, a, k + 1) # a
      BY <1>1, <3>1, PlacesDiffer
    <3>3. Place(N, a, k + 1) \in S <=> k + 1 < n
      BY <3>1 DEF Run
    <3> QED BY <2>1, <3>1, <3>2, <3>3
  <2> QED BY <2>2, <2>3
<1> QED BY <1>2, <1>3 DEF Run

\* Every descriptor of a ring of N holds an element of T.
RingOf(N, v, T) == \A d \in 0 .. N - 1 : v[d] \in T

\* s is a sequence of n elements of T.
SeqOf(s, T, n) == s \in Seq(T) /\ Len(s) = n

\* A run as a sequence.
LEMMA AlongSeq ==
  ASSUME NEW N \in Nat \ {0}, NEW a \in 0 .. N - 1, NEW n \in 0 .. N,
         NEW T, NEW v, RingOf(N, v, T)
  PROVE  SeqOf(Along(N, a, n, v), T, n)
<1>1. n \in Nat /\ \A k \in 1 .. n : k - 1 \in 0 .. N
  OBVIOUS
<1>2. \A k \in 1 .. n : v[Place(N, a, k - 1)] \in T
  BY <1>1, RingPlaces DEF RingOf
<1> DEFINE q == Along(N, a, n, v)
<1>3. q \in [1 .. n -> T]
  BY <1>2 DEF Along
<1> HIDE DEF q
<1>4. q \in Seq(T) /\ Len(q) = n
  BY <1>1, <1>3
<1> QED BY <1>4 DEF q, SeqOf

\* A run that is not empty as a sequence that is not.
LEMMA AlongSome ==
  ASSUME NEW N, NEW a, NEW n \in Nat \ {0}, NEW v
  PROVE  Along(N, a, n, v) # <<>>
<1>1. DOMAIN Along(N, a, n, v) = 1 .. n /\ 1 \in 1 .. n
  BY DEF Along
<1>2. DOMAIN <<>> = {}
  OBVIOUS
<1> QED BY <1>1, <1>2

\* What is written behind the run is appended.
LEMMA AlongAdd ==
  ASSUME NEW N \in Nat \ {0}, NEW a \in 0 .. N - 1, NEW n \in 0 .. N - 1,
         NEW v, NEW f, NEW w,
         w[Place(N, a, n)] = f,
         \A d \in 0 .. N - 1 : d # Place(N, a, n) => w[d] = v[d]
  PROVE  Along(N, a, n + 1, w) = Append(Along(N, a, n, v), f)
<1> DEFINE T == {v[d] : d \in 0 .. N - 1} \cup {f}
           p == Along(N, a, n + 1, w)
           q == Along(N, a, n, v)
<1>1. Place(N, a, n) \in 0 .. N - 1
  BY RingPlaces
<1>2. /\ f \in T
      /\ \A d \in 0 .. N - 1 : v[d] \in T /\ w[d] \in T
  BY <1>1
<1>3. ASSUME NEW k \in 1 .. n
      PROVE  p[k] = q[k]
  <2>1. /\ k - 1 \in 0 .. N - 1 /\ k - 1 # n /\ k \in 1 .. n + 1
        /\ k - 1 \in 0 .. N
    OBVIOUS
  <2>2. Place(N, a, k - 1) # Place(N, a, n)
    BY <2>1, PlacesDiffer
  <2>3. Place(N, a, k - 1) \in 0 .. N - 1
    BY <2>1, RingPlaces
  <2> QED BY <1>1, <2>1, <2>2, <2>3 DEF Along
<1>4. p[n + 1] = f
  <2>1. n + 1 \in 1 .. n + 1 /\ (n + 1) - 1 = n
    OBVIOUS
  <2> QED BY <2>1 DEF Along
<1> HIDE DEF T
<1>5. p \in Seq(T) /\ Len(p) = n + 1 /\ q \in Seq(T) /\ Len(q) = n
  <2>1. n \in 0 .. N /\ n + 1 \in 0 .. N
    OBVIOUS
  <2>2. RingOf(N, v, T) /\ RingOf(N, w, T)
    BY <1>2 DEF RingOf
  <2>3. SeqOf(p, T, n + 1) /\ SeqOf(q, T, n)
    BY <2>1, <2>2, AlongSeq
  <2> HIDE DEF p, q
  <2> QED BY <2>3 DEF SeqOf
<1> HIDE DEF p, q
<1>6. /\ Append(q, f) \in Seq(T) /\ Len(Append(q, f)) = n + 1
      /\ \A k \in 1 .. n : Append(q, f)[k] = q[k]
      /\ Append(q, f)[n + 1] = f
  BY <1>2, <1>5, AppendProperties
<1>7. \A k \in 1 .. n + 1 : p[k] = Append(q, f)[k]
  BY <1>3, <1>4, <1>6
<1>8. p = Append(q, f)
  BY <1>5, <1>6, <1>7, SeqEqual
<1> QED BY <1>8 DEF p, q

\* When its first is taken the run is its tail, whatever is written there.
LEMMA AlongTake ==
  ASSUME NEW N \in Nat \ {0}, NEW a \in 0 .. N - 1, NEW n \in 1 .. N,
         NEW v, NEW w,
         \A d \in 0 .. N - 1 : d # a => w[d] = v[d]
  PROVE  Along(N, Place(N, a, 1), n - 1, w) = Tail(Along(N, a, n, v))
<1> DEFINE T == {v[d] : d \in 0 .. N - 1} \cup {w[a]}
           b == Place(N, a, 1)
           p == Along(N, b, n - 1, w)
           q == Along(N, a, n, v)
<1>1. /\ n \in 0 .. N /\ n - 1 \in 0 .. N /\ 1 \in 0 .. N
      /\ b \in 0 .. N - 1
  <2>1. n \in 0 .. N /\ n - 1 \in 0 .. N /\ 1 \in 0 .. N
    OBVIOUS
  <2> QED BY <2>1, RingPlaces
<1>2. \A d \in 0 .. N - 1 : v[d] \in T /\ w[d] \in T
  OBVIOUS
<1>3. ASSUME NEW k \in 1 .. n - 1
      PROVE  p[k] = q[k + 1]
  <2>1. /\ k - 1 \in 0 .. N - 1 /\ (k - 1) + 1 = k /\ (k + 1) - 1 = k
        /\ k \in 0 .. N - 1 /\ k # 0 /\ 0 \in 0 .. N - 1 /\ k + 1 \in 1 .. n
        /\ k \in 0 .. N
    OBVIOUS
  <2>2. Place(N, b, k - 1) = Place(N, a, k)
    BY <2>1, PlaceNext
  <2>3. Place(N, a, k) # a
    BY <2>1, PlaceZero, PlacesDiffer
  <2>4. Place(N, a, k) \in 0 .. N - 1
    BY <2>1, RingPlaces
  <2>5. q[k + 1] = v[Place(N, a, k)]
    BY <2>1 DEF Along
  <2>6. p[k] = w[Place(N, b, k - 1)]
    BY DEF Along
  <2> HIDE DEF b, p, q
  <2> QED BY <2>2, <2>3, <2>4, <2>5, <2>6
<1> HIDE DEF T, b
<1>4. p \in Seq(T) /\ Len(p) = n - 1 /\ q \in Seq(T) /\ Len(q) = n
  <2>1. RingOf(N, v, T)
    BY <1>2 DEF RingOf
  <2>2. RingOf(N, w, T)
    BY <1>2 DEF RingOf
  <2>3. SeqOf(p, T, n - 1)
    BY <1>1, <2>2, AlongSeq
  <2>4. SeqOf(q, T, n)
    BY <1>1, <2>1, AlongSeq
  <2> HIDE DEF p, q
  <2> QED BY <2>3, <2>4 DEF SeqOf
<1> HIDE DEF p, q
<1>5. q # <<>>
  BY <1>4
<1>6. /\ Tail(q) \in Seq(T) /\ Len(Tail(q)) = n - 1
      /\ \A k \in 1 .. n - 1 : Tail(q)[k] = q[k + 1]
  BY <1>4, <1>5, HeadTailProperties
<1>7. p = Tail(q)
  BY <1>3, <1>4, <1>6, SeqEqual
<1> QED BY <1>5, <1>7 DEF p, q, b

-----------------------------------------------------------------------------
(* Reception.                                                              *)

\* The descriptors of the CPU.
Full == {d \in RxRing : desc[d] # OWN}

\* They are a run from DMARxDescToGet to the DMA's.
RxRun(n) ==
  /\ Run(ETH_RXBUFNB, get, n, Full)
  /\ rxDma = Place(ETH_RXBUFNB, get, n)

RxInv ==
  /\ RxTypeOK
  /\ \E n \in 0 .. ETH_RXBUFNB : RxRun(n)
  /\ at = "packet" => desc[get] # OWN
  /\ at # "fault"

\* The same in the words of Held and Owned: S holds the first k places from
\* a on just if the run is as long.
LEMMA RunCounted ==
  ASSUME NEW N \in Nat \ {0}, NEW a \in 0 .. N - 1, NEW n \in 0 .. N, NEW S,
         Run(N, a, n, S)
  PROVE  /\ \A k \in 1 .. N : (\A j \in 1 .. k : (a + j - 1) % N \in S) <=> k <= n
         /\ \A k \in 1 .. N : /\ (a + k - 1) % N = Place(N, a, k - 1)
                             /\ (a + k - 1) % N \in 0 .. N - 1
<1>1. ASSUME NEW j \in 1 .. N
      PROVE  /\ (a + j - 1) % N = Place(N, a, j - 1)
             /\ Place(N, a, j - 1) \in 0 .. N - 1
             /\ Place(N, a, j - 1) \in S <=> j <= n
  <2>1. /\ a + j - 1 = a + (j - 1) /\ (j - 1 < n <=> j <= n)
        /\ j - 1 \in 0 .. N - 1 /\ j - 1 \in 0 .. N
    OBVIOUS
  <2>2. (a + j - 1) % N = Place(N, a, j - 1)
    BY <2>1 DEF Place
  <2>3. Place(N, a, j - 1) \in 0 .. N - 1
    BY <2>1, RingPlaces
  <2>4. Place(N, a, j - 1) \in S <=> j <= n
    BY <2>1 DEF Run
  <2> QED BY <2>2, <2>3, <2>4
<1>2. ASSUME NEW k \in 1 .. N
      PROVE  (\A j \in 1 .. k : (a + j - 1) % N \in S) <=> k <= n
  <2> DEFINE In(j) == (a + j - 1) % N \in S
  <2>1. ASSUME NEW j \in 1 .. k PROVE In(j) <=> j <= n
    <3>1. j \in 1 .. N
      OBVIOUS
    <3> QED BY <1>1, <3>1
  <2> HIDE DEF In
  <2>2. k \in 1 .. k
    OBVIOUS
  <2>3. (\A j \in 1 .. k : In(j)) <=> k <= n
    BY <2>1, <2>2
  <2> QED BY <2>3 DEF In
<1> QED BY <1>1, <1>2

\* What waits is what the run holds.
LEMMA RxWaiting ==
  ASSUME NEW g \in RxRing, NEW v, NEW n \in 0 .. ETH_RXBUFNB,
         Run(ETH_RXBUFNB, g, n, {d \in RxRing : v[d] # OWN})
  PROVE  [k \in {i \in 1 .. ETH_RXBUFNB :
                   \A j \in 1 .. i : v[(g + j - 1) % ETH_RXBUFNB] # OWN}
            |-> v[(g + k - 1) % ETH_RXBUFNB]] = Along(ETH_RXBUFNB, g, n, v)
<1> DEFINE S == {d \in RxRing : v[d] # OWN}
           H(i) == \A j \in 1 .. i : v[(g + j - 1) % ETH_RXBUFNB] # OWN
           G(i) == \A j \in 1 .. i : (g + j - 1) % ETH_RXBUFNB \in S
<1>1. ETH_RXBUFNB \in Nat \ {0} /\ g \in 0 .. ETH_RXBUFNB - 1
  BY RxAssumption DEF RxRing
<1>2. /\ \A k \in 1 .. ETH_RXBUFNB : G(k) <=> k <= n
      /\ \A k \in 1 .. ETH_RXBUFNB :
           /\ (g + k - 1) % ETH_RXBUFNB = Place(ETH_RXBUFNB, g, k - 1)
           /\ (g + k - 1) % ETH_RXBUFNB \in RxRing
  <2>1. Run(ETH_RXBUFNB, g, n, S)
    OBVIOUS
  <2> HIDE DEF S
  <2> QED BY <1>1, <2>1, RunCounted DEF RxRing
<1>3. \A j \in 1 .. ETH_RXBUFNB : v[(g + j - 1) % ETH_RXBUFNB] # OWN
                                   <=> (g + j - 1) % ETH_RXBUFNB \in S
  BY <1>2
<1>4. ASSUME NEW i \in 1 .. ETH_RXBUFNB PROVE H(i) <=> G(i)
  <2>1. \A j \in 1 .. i : j \in 1 .. ETH_RXBUFNB
    BY <1>1
  <2> HIDE DEF S
  <2> QED BY <1>3, <2>1
<1> HIDE DEF H, G
<1>5. {i \in 1 .. ETH_RXBUFNB : H(i)} = 1 .. n
  BY <1>1, <1>2, <1>4
<1>6. \A k \in 1 .. n : k \in 1 .. ETH_RXBUFNB
  BY <1>1
<1>7. [k \in {i \in 1 .. ETH_RXBUFNB : H(i)} |-> v[(g + k - 1) % ETH_RXBUFNB]]
        = Along(ETH_RXBUFNB, g, n, v)
  BY <1>2, <1>5, <1>6 DEF Along
<1> QED BY <1>7 DEF H

\* The ring starts empty.
LEMMA RxInitially == RxInit => RxInv /\ Waiting = <<>>
<1> SUFFICES ASSUME RxInit PROVE RxInv /\ Waiting = <<>>
  OBVIOUS
<1>1. ETH_RXBUFNB \in Nat \ {0} /\ 0 \in 0 .. ETH_RXBUFNB - 1 /\ Late \in Nat
  BY RxAssumption
<1>2. RxTypeOK
  <2>1. 0 \in 0 .. Late
    BY <1>1
  <2> QED BY <1>1, <2>1 DEF RxInit, RxTypeOK, RxRing
<1>3. Full = {}
  BY DEF RxInit, Full
<1>4. Place(ETH_RXBUFNB, 0, 0) = 0
  BY <1>1, PlaceZero
<1>5. RxRun(0) /\ 0 \in 0 .. ETH_RXBUFNB
  BY <1>1, <1>3, <1>4 DEF RxRun, Run, RxInit
<1>6. RxInv
  BY <1>2, <1>5 DEF RxInv, RxInit
<1>7. Waiting = Along(ETH_RXBUFNB, get, 0, desc)
  BY <1>2, <1>5, RxWaiting DEF RxTypeOK, RxRun, Full, Waiting, Held
<1>8. Along(ETH_RXBUFNB, get, 0, desc) = <<>>
  BY DEF Along
<1> QED BY <1>6, <1>7, <1>8

\* A step that leaves the descriptors and both indices alone.
LEMMA RxSame ==
  ASSUME RxInv, UNCHANGED <<desc, get, rxDma>>
  PROVE  Waiting' = Waiting /\ \E n \in 0 .. ETH_RXBUFNB : RxRun(n)'
<1>1. Waiting' = Waiting
  BY DEF Waiting, Held
<1>2. \A n : RxRun(n)' = RxRun(n)
  BY DEF RxRun, Run, Full
<1> QED BY <1>1, <1>2 DEF RxInv

\* The DMA puts a frame behind the run.
LEMMA StorePuts ==
  ASSUME RxInv, NEW f \in Frames, Store(f), beat' = ~beat
  PROVE  RxInv' /\ RxFifo!Next
<1>1. /\ ETH_RXBUFNB \in Nat \ {0} /\ OWN \notin Frames /\ Late \in Nat
      /\ RxTypeOK /\ get \in 0 .. ETH_RXBUFNB - 1 /\ rxDma \in RxRing
      /\ desc \in [0 .. ETH_RXBUFNB - 1 -> Frames \cup {OWN}]
      /\ RxRing = 0 .. ETH_RXBUFNB - 1
  BY RxAssumption DEF RxInv, RxTypeOK, RxRing
<1>2. /\ desc[rxDma] = OWN /\ desc' = [desc EXCEPT ![rxDma] = f]
      /\ rxDma' = RxSucc(rxDma) /\ r' = TRUE /\ nis' = TRUE
      /\ UNCHANGED <<rbus, get, at>> /\ InTime
  BY DEF Store, handler
<1>3. PICK n \in 0 .. ETH_RXBUFNB : RxRun(n)
  BY DEF RxInv
<1>4. n \in 0 .. ETH_RXBUFNB - 1
  <2> SUFFICES ASSUME n = ETH_RXBUFNB PROVE FALSE
    BY <1>1
  <2>1. /\ Place(ETH_RXBUFNB, get, n) = get
    <3>1. n \in 0 .. ETH_RXBUFNB /\ ~(get + n < ETH_RXBUFNB) /\ get + n - ETH_RXBUFNB = get
      BY <1>1
    <3> QED BY <1>1, <3>1, RingPlaces
  <2>2. 0 \in 0 .. ETH_RXBUFNB - 1 /\ 0 < n
    BY <1>1
  <2>3. Place(ETH_RXBUFNB, get, 0) = get
    BY <1>1, PlaceZero
  <2>4. get \in Full
    BY <1>3, <2>2, <2>3 DEF RxRun, Run
  <2> QED BY <1>2, <1>3, <2>1, <2>4 DEF RxRun, Full
<1>5. Full' = Full \cup {rxDma}
  BY <1>1, <1>2 DEF Full
<1>6. RxSucc(rxDma) = Place(ETH_RXBUFNB, rxDma, 1)
  BY DEF RxSucc, Place
<1>7. rxDma' = Place(ETH_RXBUFNB, get, n + 1)
  BY <1>1, <1>2, <1>3, <1>4, <1>6, PlaceSucc DEF RxRun
<1>8. Run(ETH_RXBUFNB, get, n + 1, Full')
  BY <1>1, <1>3, <1>4, <1>5, RunAdd DEF RxRun
<1>9. RxRun(n + 1)' /\ n + 1 \in 0 .. ETH_RXBUFNB
  <2>1. n + 1 \in 0 .. ETH_RXBUFNB
    BY <1>1, <1>4
  <2> QED BY <1>2, <1>7, <1>8, <2>1 DEF RxRun
<1>10. RxTypeOK'
  <2>1. late' \in 0 .. Late
    BY <1>1, <1>2 DEF InTime, RxTypeOK
  <2>2. rxDma' \in RxRing
    BY <1>1, <1>2, <1>6, PlaceNext
  <2> QED BY <1>1, <1>2, <2>1, <2>2 DEF RxTypeOK
<1>11. RxInv'
  <2>1. at' = "packet" => desc'[get'] # OWN
    BY <1>1, <1>2 DEF RxInv
  <2> QED BY <1>2, <1>9, <1>10, <2>1 DEF RxInv
<1>12. /\ Waiting = Along(ETH_RXBUFNB, get, n, desc)
       /\ Waiting' = Along(ETH_RXBUFNB, get', n + 1, desc')
  <2>1. Waiting = Along(ETH_RXBUFNB, get, n, desc)
    BY <1>1, <1>3, RxWaiting DEF RxRun, Full, Waiting, Held
  <2>2. Waiting' = Along(ETH_RXBUFNB, get', n + 1, desc')
    BY <1>9, <1>10, RxWaiting DEF RxTypeOK, RxRun, Full, Waiting, Held
  <2> QED BY <2>1, <2>2
<1>13. Waiting' = Append(Waiting, f)
  <2>1. Along(ETH_RXBUFNB, get, n + 1, desc') = Append(Along(ETH_RXBUFNB, get, n, desc), f)
    <3>2. /\ desc'[Place(ETH_RXBUFNB, get, n)] = f
          /\ \A d \in 0 .. ETH_RXBUFNB - 1 :
               d # Place(ETH_RXBUFNB, get, n) => desc'[d] = desc[d]
      BY <1>1, <1>2, <1>3 DEF RxRun
    <3> DEFINE w == desc'
    <3> HIDE DEF w
    <3>3. /\ w[Place(ETH_RXBUFNB, get, n)] = f
          /\ \A d \in 0 .. ETH_RXBUFNB - 1 :
               d # Place(ETH_RXBUFNB, get, n) => w[d] = desc[d]
      BY <3>2 DEF w
    <3>4. Along(ETH_RXBUFNB, get, n + 1, w) = Append(Along(ETH_RXBUFNB, get, n, desc), f)
      <4>1. ASSUME NEW a \in 0 .. ETH_RXBUFNB - 1, NEW u, NEW v,
                   u[Place(ETH_RXBUFNB, a, n)] = f,
                   \A d \in 0 .. ETH_RXBUFNB - 1 :
                     d # Place(ETH_RXBUFNB, a, n) => u[d] = v[d]
            PROVE  Along(ETH_RXBUFNB, a, n + 1, u) = Append(Along(ETH_RXBUFNB, a, n, v), f)
        BY <1>1, <1>4, <4>1, AlongAdd
      <4> QED BY <1>1, <3>3, <4>1
    <3> QED BY <3>4 DEF w
  <2> QED BY <1>2, <1>3, <1>12, <2>1 DEF RxRun
<1>14. Len(Waiting) < ETH_RXBUFNB
  <2>1. Len(Along(ETH_RXBUFNB, get, n, desc)) = n
    <3> DEFINE T == Frames \cup {OWN}
    <3>1. RingOf(ETH_RXBUFNB, desc, T)
      BY <1>1 DEF RingOf
    <3> HIDE DEF T
    <3>2. SeqOf(Along(ETH_RXBUFNB, get, n, desc), T, n)
      BY <1>1, <1>4, <3>1, AlongSeq
    <3> QED BY <3>2 DEF SeqOf
  <2> QED BY <1>1, <1>4, <1>12, <2>1
<1> QED BY <1>11, <1>13, <1>14 DEF RxFifo!Next, RxFifo!Put

\* ETH_Rx_Packet takes the first of the run.
LEMMA PacketTakes ==
  ASSUME RxInv, Packet
  PROVE  RxInv' /\ RxFifo!Next
<1>1. /\ ETH_RXBUFNB \in Nat \ {0} /\ OWN \notin Frames
      /\ RxTypeOK /\ get \in 0 .. ETH_RXBUFNB - 1 /\ rxDma \in RxRing
      /\ desc \in [0 .. ETH_RXBUFNB - 1 -> Frames \cup {OWN}]
      /\ RxRing = 0 .. ETH_RXBUFNB - 1
  BY RxAssumption DEF RxInv, RxTypeOK, RxRing
<1>2. /\ desc[get] # OWN /\ desc' = [desc EXCEPT ![get] = OWN]
      /\ get' = RxSucc(get) /\ at' = "giveBack"
      /\ UNCHANGED <<rbus, rxDma, r, nis, late, beat>>
  BY DEF Packet, RxInv
<1>3. PICK n \in 0 .. ETH_RXBUFNB : RxRun(n)
  BY DEF RxInv
<1>4. n \in 1 .. ETH_RXBUFNB
  <2>1. Place(ETH_RXBUFNB, get, 0) = get /\ 0 \in 0 .. ETH_RXBUFNB - 1
    BY <1>1, PlaceZero
  <2>2. 0 < n
    BY <1>1, <1>2, <1>3, <2>1 DEF RxRun, Run, Full
  <2> QED BY <2>2
<1>5. Full' = Full \ {get}
  BY <1>1, <1>2 DEF Full
<1>6. get' = Place(ETH_RXBUFNB, get, 1)
  BY <1>2 DEF RxSucc, Place
<1>7. Run(ETH_RXBUFNB, get', n - 1, Full')
  BY <1>1, <1>3, <1>4, <1>5, <1>6, RunTake DEF RxRun
<1>8. rxDma' = Place(ETH_RXBUFNB, get', n - 1)
  <2>1. n - 1 \in 0 .. ETH_RXBUFNB - 1 /\ (n - 1) + 1 = n
    BY <1>1, <1>4
  <2> QED BY <1>1, <1>2, <1>3, <1>6, <2>1, PlaceNext DEF RxRun
<1>9. RxRun(n - 1)' /\ n - 1 \in 0 .. ETH_RXBUFNB
  <2>1. n - 1 \in 0 .. ETH_RXBUFNB
    BY <1>1, <1>4
  <2> QED BY <1>7, <1>8, <2>1 DEF RxRun
<1>10. RxTypeOK'
  <2>1. get' \in RxRing
    BY <1>1, <1>6, PlaceNext
  <2> QED BY <1>1, <1>2, <2>1 DEF RxTypeOK
<1>11. RxInv'
  BY <1>2, <1>9, <1>10 DEF RxInv
<1>12. /\ Waiting = Along(ETH_RXBUFNB, get, n, desc)
       /\ Waiting' = Along(ETH_RXBUFNB, get', n - 1, desc')
  <2>1. Waiting = Along(ETH_RXBUFNB, get, n, desc)
    BY <1>1, <1>3, RxWaiting DEF RxRun, Full, Waiting, Held
  <2>2. Waiting' = Along(ETH_RXBUFNB, get', n - 1, desc')
    BY <1>9, <1>10, RxWaiting DEF RxTypeOK, RxRun, Full, Waiting, Held
  <2> QED BY <2>1, <2>2
<1>13. Waiting # <<>> /\ Waiting' = Tail(Waiting)
  <2>1. /\ Along(ETH_RXBUFNB, get, n, desc) # <<>>
        /\ Along(ETH_RXBUFNB, Place(ETH_RXBUFNB, get, 1), n - 1, desc')
             = Tail(Along(ETH_RXBUFNB, get, n, desc))
    <3>2. \A d \in 0 .. ETH_RXBUFNB - 1 : d # get => desc'[d] = desc[d]
      BY <1>1, <1>2
    <3> DEFINE w == desc'
    <3> HIDE DEF w
    <3>3. \A d \in 0 .. ETH_RXBUFNB - 1 : d # get => w[d] = desc[d]
      BY <3>2 DEF w
    <3>4. Along(ETH_RXBUFNB, Place(ETH_RXBUFNB, get, 1), n - 1, w)
            = Tail(Along(ETH_RXBUFNB, get, n, desc))
      <4>1. ASSUME NEW a \in 0 .. ETH_RXBUFNB - 1, NEW u, NEW v,
                   \A d \in 0 .. ETH_RXBUFNB - 1 : d # a => u[d] = v[d]
            PROVE  Along(ETH_RXBUFNB, Place(ETH_RXBUFNB, a, 1), n - 1, u)
                     = Tail(Along(ETH_RXBUFNB, a, n, v))
        BY <1>1, <1>4, <4>1, AlongTake
      <4> QED BY <1>1, <3>3, <4>1
    <3>5. n \in Nat \ {0}
      BY <1>1, <1>4
    <3> QED BY <3>4, <3>5, AlongSome DEF w
  <2> QED BY <1>2, <1>6, <1>12, <2>1
<1> QED BY <1>11, <1>13 DEF RxFifo!Next, RxFifo!Take

\* Every step of reception keeps the invariant and is a step of the queue
\* or none.
LEMMA RxStep ==
  ASSUME RxInv, Arrive \/ ETH_IRQHandler
  PROVE  RxInv' /\ (RxFifo!Next \/ Waiting' = Waiting)
<1>1. RxTypeOK /\ Late \in Nat
  BY RxAssumption DEF RxInv
<1>2. ASSUME NEW f \in Frames, Store(f), beat' = ~beat
      PROVE  RxInv' /\ (RxFifo!Next \/ Waiting' = Waiting)
  BY <1>2, StorePuts
<1>3. CASE Overrun /\ beat' = ~beat
  <2>1. UNCHANGED <<desc, get, rxDma, r, nis, at>> /\ rbus' = TRUE /\ InTime
    BY <1>3 DEF Overrun, handler
  <2>2. late' \in 0 .. Late
    BY <1>1, <2>1 DEF InTime, RxTypeOK
  <2>3. RxTypeOK'
    BY <1>1, <1>3, <2>1, <2>2 DEF RxTypeOK
  <2> QED BY <2>1, <2>3, RxSame DEF RxInv
<1>4. CASE Packet
  BY <1>4, PacketTakes
<1>5. CASE Loop
  <2>1. /\ UNCHANGED <<desc, get, rxDma, rbus, r, nis, late, beat>>
        /\ at' = IF desc[get] # OWN THEN "packet" ELSE "clearR"
    BY <1>5 DEF Loop
  <2>2. RxTypeOK'
    BY <1>1, <2>1 DEF RxTypeOK
  <2> QED BY <2>1, <2>2, RxSame DEF RxInv
<1>6. CASE Enter \/ GiveBack \/ InputDone \/ ClearR \/ ClearNIS
  <2>1. /\ UNCHANGED <<desc, get, rxDma, beat>>
        /\ at' \in {"loop", "input", "clearNIS", "idle"}
    BY <1>6 DEF Enter, GiveBack, InputDone, ClearR, ClearNIS
  <2>2. late' \in 0 .. Late
    BY <1>1, <1>6 DEF RxTypeOK, Enter, GiveBack, InputDone, ClearR, ClearNIS
  <2>3. rbus' \in BOOLEAN /\ r' \in BOOLEAN /\ nis' \in BOOLEAN
    BY <1>1, <1>6 DEF RxTypeOK, Enter, GiveBack, InputDone, ClearR, ClearNIS
  <2>4. RxTypeOK'
    BY <1>1, <2>1, <2>2, <2>3 DEF RxTypeOK
  <2> QED BY <2>1, <2>4, RxSame DEF RxInv
<1> QED BY <1>2, <1>3, <1>4, <1>5, <1>6 DEF Arrive, ETH_IRQHandler

\* So does a step that concerns transmission only.
LEMMA RxStutter ==
  ASSUME RxInv, UNCHANGED rxVars
  PROVE  RxInv' /\ Waiting' = Waiting
<1>1. UNCHANGED <<desc, rxDma, rbus, r, nis, get, at, late, beat>>
  BY DEF rxVars, handler
<1>2. RxTypeOK'
  BY <1>1 DEF RxInv, RxTypeOK
<1> QED BY <1>1, <1>2, RxSame DEF RxInv

-----------------------------------------------------------------------------
(* Transmission.                                                           *)

\* The descriptors of the DMA, if the OWN bits are o, and Pending, if the
\* DMA is at g and the history is v.
UnderOf(o) == {d \in TxRing : o[d]}

PendingOf(g, o, v) ==
  [k \in {i \in 1 .. ETH_TXBUFNB : \A j \in 1 .. i : o[(g + j - 1) % ETH_TXBUFNB]}
     |-> v[(g + k - 1) % ETH_TXBUFNB]]

Under == UnderOf(own)

\* Where the next frame goes: between OWN and the advance DMATxDescToSet is
\* one behind.
Behind == IF pc \in {"resume", "advance"} THEN TxSucc(set) ELSE set

\* They are a run from the DMA's descriptor to the senders'.
TxRun(n) ==
  /\ Run(ETH_TXBUFNB, txDma, n, Under)
  /\ Behind = Place(ETH_TXBUFNB, txDma, n)

\* Holds as long as no two hand-overs have been mixed.
TxInv ==
  /\ TxTypeOK
  /\ \E n \in 0 .. ETH_TXBUFNB : TxRun(n)
  /\ pc \in {"own", "resume", "advance"} => cached = set
  /\ pc = "own" => ~own[set]
  /\ pc # "idle" => frame \in Frames

\* What is pending is what the run holds.
LEMMA TxPending ==
  ASSUME NEW g \in TxRing, NEW o, NEW v, NEW n \in 0 .. ETH_TXBUFNB,
         Run(ETH_TXBUFNB, g, n, UnderOf(o))
  PROVE  PendingOf(g, o, v) = Along(ETH_TXBUFNB, g, n, v)
<1> DEFINE S == {d \in TxRing : o[d]}
           H(i) == \A j \in 1 .. i : o[(g + j - 1) % ETH_TXBUFNB]
           G(i) == \A j \in 1 .. i : (g + j - 1) % ETH_TXBUFNB \in S
<1>1. ETH_TXBUFNB \in Nat \ {0} /\ g \in 0 .. ETH_TXBUFNB - 1
  BY TxAssumption DEF TxRing
<1>2. /\ \A k \in 1 .. ETH_TXBUFNB : G(k) <=> k <= n
      /\ \A k \in 1 .. ETH_TXBUFNB :
           /\ (g + k - 1) % ETH_TXBUFNB = Place(ETH_TXBUFNB, g, k - 1)
           /\ (g + k - 1) % ETH_TXBUFNB \in TxRing
  <2>1. Run(ETH_TXBUFNB, g, n, S)
    BY DEF UnderOf
  <2> HIDE DEF S
  <2> QED BY <1>1, <2>1, RunCounted DEF TxRing
<1>3. \A j \in 1 .. ETH_TXBUFNB : o[(g + j - 1) % ETH_TXBUFNB]
                                   <=> (g + j - 1) % ETH_TXBUFNB \in S
  BY <1>2
<1>4. ASSUME NEW i \in 1 .. ETH_TXBUFNB PROVE H(i) <=> G(i)
  <2>1. \A j \in 1 .. i : j \in 1 .. ETH_TXBUFNB
    BY <1>1
  <2> HIDE DEF S
  <2> QED BY <1>3, <2>1
<1> HIDE DEF H, G
<1>5. {i \in 1 .. ETH_TXBUFNB : H(i)} = 1 .. n
  BY <1>1, <1>2, <1>4
<1>6. \A k \in 1 .. n : k \in 1 .. ETH_TXBUFNB
  BY <1>1
<1>7. [k \in {i \in 1 .. ETH_TXBUFNB : H(i)} |-> v[(g + k - 1) % ETH_TXBUFNB]]
        = Along(ETH_TXBUFNB, g, n, v)
  BY <1>2, <1>5, <1>6 DEF Along
<1> QED BY <1>7 DEF H, PendingOf

\* The ring starts empty.
LEMMA TxInitially == TxInit => TxInv /\ Pending = <<>>
<1> SUFFICES ASSUME TxInit PROVE TxInv /\ Pending = <<>>
  OBVIOUS
<1>1. ETH_TXBUFNB \in Nat \ {0} /\ 0 \in 0 .. ETH_TXBUFNB - 1
  BY TxAssumption
<1>2. TxTypeOK
  <2>1. NONE \in Piece /\ Filled(NONE) \in [1 .. Pbufs -> Piece] /\ 1 \in 1 .. Pbufs
    BY TxAssumption DEF Piece, Filled
  <2> QED BY <1>1, <2>1 DEF TxInit, TxTypeOK, TxRing
<1>3. Under = {}
  BY DEF TxInit, Under, UnderOf
<1>4. Place(ETH_TXBUFNB, 0, 0) = 0
  BY <1>1, PlaceZero
<1>5. TxRun(0) /\ 0 \in 0 .. ETH_TXBUFNB
  BY <1>1, <1>3, <1>4 DEF TxRun, Run, TxInit, Behind
<1>6. TxInv
  BY <1>2, <1>5 DEF TxInv, TxInit
<1>7. Pending = Along(ETH_TXBUFNB, txDma, 0, taken)
  <2>1. Pending = PendingOf(txDma, own, taken)
    BY DEF Pending, Owned, PendingOf
  <2> QED BY <1>2, <1>5, <2>1, TxPending DEF TxTypeOK, TxRun, Under
<1>8. Along(ETH_TXBUFNB, txDma, 0, taken) = <<>>
  BY DEF Along
<1> QED BY <1>6, <1>7, <1>8

\* A step that leaves the OWN bits, the history and both indices alone.
LEMMA TxSame ==
  ASSUME TxInv, UNCHANGED <<own, taken, txDma>>, Behind' = Behind
  PROVE  Pending' = Pending /\ \E n \in 0 .. ETH_TXBUFNB : TxRun(n)'
<1>1. Pending' = Pending
  BY DEF Pending, Owned
<1>2. \A n : TxRun(n)' = TxRun(n)
  BY DEF TxRun, Run, Under
<1> QED BY <1>1, <1>2 DEF TxInv

\* A descriptor is handed over behind the run.
LEMMA HandOver ==
  ASSUME TxInv, NEW f \in Frames, Behind = set, ~own[set],
         own' = [own EXCEPT ![set] = TRUE], taken' = [taken EXCEPT ![set] = f],
         Behind' = TxSucc(set), UNCHANGED txDma
  PROVE  /\ own' \in [TxRing -> BOOLEAN] /\ taken' \in [TxRing -> Piece]
         /\ TxSucc(set) \in TxRing
         /\ \E n \in 0 .. ETH_TXBUFNB : TxRun(n)'
         /\ TxFifo!Next
<1>1. /\ ETH_TXBUFNB \in Nat \ {0}
      /\ TxTypeOK /\ txDma \in 0 .. ETH_TXBUFNB - 1 /\ set \in 0 .. ETH_TXBUFNB - 1
      /\ own \in [TxRing -> BOOLEAN] /\ taken \in [TxRing -> Piece]
      /\ TxRing = 0 .. ETH_TXBUFNB - 1 /\ f \in Piece
  BY TxAssumption DEF TxInv, TxTypeOK, TxRing, Piece
<1>3. PICK n \in 0 .. ETH_TXBUFNB : TxRun(n)
  BY DEF TxInv
<1>4. n \in 0 .. ETH_TXBUFNB - 1
  <2> SUFFICES ASSUME n = ETH_TXBUFNB PROVE FALSE
    BY <1>1
  <2>1. /\ Place(ETH_TXBUFNB, txDma, n) = txDma
    <3>1. n \in 0 .. ETH_TXBUFNB /\ ~(txDma + n < ETH_TXBUFNB)
          /\ txDma + n - ETH_TXBUFNB = txDma
      BY <1>1
    <3> QED BY <1>1, <3>1, RingPlaces
  <2>2. 0 \in 0 .. ETH_TXBUFNB - 1 /\ 0 < n
    BY <1>1
  <2>3. Place(ETH_TXBUFNB, txDma, 0) = txDma
    BY <1>1, PlaceZero
  <2>4. txDma \in Under
    BY <1>3, <2>2, <2>3 DEF TxRun, Run
  <2> QED BY <1>3, <2>1, <2>4 DEF TxRun, Under, UnderOf
<1>5. Under' = Under \cup {set}
  BY <1>1 DEF Under, UnderOf
<1>6. TxSucc(set) = Place(ETH_TXBUFNB, set, 1)
  BY DEF TxSucc, Place
<1>7. Behind' = Place(ETH_TXBUFNB, txDma, n + 1)
  BY <1>1, <1>3, <1>4, <1>6, PlaceSucc DEF TxRun
<1>8. Run(ETH_TXBUFNB, txDma, n + 1, Under')
  BY <1>1, <1>3, <1>4, <1>5, RunAdd DEF TxRun
<1>9. TxRun(n + 1)' /\ n + 1 \in 0 .. ETH_TXBUFNB
  <2>1. n + 1 \in 0 .. ETH_TXBUFNB
    BY <1>1, <1>4
  <2> QED BY <1>7, <1>8, <2>1 DEF TxRun
<1>10. /\ own' \in [TxRing -> BOOLEAN] /\ taken' \in [TxRing -> Piece]
       /\ TxSucc(set) \in TxRing
  <2>1. TxSucc(set) \in TxRing
    BY <1>1, <1>6, PlaceNext
  <2> QED BY <1>1, <2>1
<1>12. /\ Pending = Along(ETH_TXBUFNB, txDma, n, taken)
       /\ Pending' = Along(ETH_TXBUFNB, txDma', n + 1, taken')
  <2>1. Pending = Along(ETH_TXBUFNB, txDma, n, taken)
    <3>1. Pending = PendingOf(txDma, own, taken)
      BY DEF Pending, Owned, PendingOf
    <3> QED BY <1>1, <1>3, <3>1, TxPending DEF TxRun, Under
  <2>2. txDma' \in TxRing
    BY <1>1
  <2>3. Pending' = Along(ETH_TXBUFNB, txDma', n + 1, taken')
    <3>1. Pending' = PendingOf(txDma', own', taken')
      BY DEF Pending, Owned, PendingOf
    <3> QED BY <1>9, <2>2, <3>1, TxPending DEF TxRun, Under
  <2> QED BY <2>1, <2>3
<1>13. Pending' = Append(Pending, f)
  <2>1. Along(ETH_TXBUFNB, txDma, n + 1, taken') = Append(Along(ETH_TXBUFNB, txDma, n, taken), f)
    <3>1. /\ taken'[Place(ETH_TXBUFNB, txDma, n)] = f
          /\ \A d \in 0 .. ETH_TXBUFNB - 1 :
               d # Place(ETH_TXBUFNB, txDma, n) => taken'[d] = taken[d]
      BY <1>1, <1>3 DEF TxRun
    <3> DEFINE w == taken'
    <3> HIDE DEF w
    <3>2. /\ w[Place(ETH_TXBUFNB, txDma, n)] = f
          /\ \A d \in 0 .. ETH_TXBUFNB - 1 :
               d # Place(ETH_TXBUFNB, txDma, n) => w[d] = taken[d]
      BY <3>1 DEF w
    <3>3. ASSUME NEW a \in 0 .. ETH_TXBUFNB - 1, NEW u, NEW v,
                 u[Place(ETH_TXBUFNB, a, n)] = f,
                 \A d \in 0 .. ETH_TXBUFNB - 1 :
                   d # Place(ETH_TXBUFNB, a, n) => u[d] = v[d]
          PROVE  Along(ETH_TXBUFNB, a, n + 1, u) = Append(Along(ETH_TXBUFNB, a, n, v), f)
      BY <1>1, <1>4, <3>3, AlongAdd
    <3>4. Along(ETH_TXBUFNB, txDma, n + 1, w) = Append(Along(ETH_TXBUFNB, txDma, n, taken), f)
      BY <1>1, <3>2, <3>3
    <3> QED BY <3>4 DEF w
  <2> QED BY <1>3, <1>12, <2>1 DEF TxRun
<1>14. Len(Pending) < ETH_TXBUFNB
  <2>1. Len(Along(ETH_TXBUFNB, txDma, n, taken)) = n
    <3>1. RingOf(ETH_TXBUFNB, taken, Piece)
      BY <1>1 DEF RingOf
    <3>2. SeqOf(Along(ETH_TXBUFNB, txDma, n, taken), Piece, n)
      BY <1>1, <1>4, <3>1, AlongSeq
    <3> QED BY <3>2 DEF SeqOf
  <2> QED BY <1>1, <1>4, <1>12, <2>1
<1> QED BY <1>9, <1>10, <1>13, <1>14 DEF TxFifo!Next, TxFifo!Put

\* The DMA takes the first of the run.
LEMMA TransmitTakes ==
  ASSUME TxInv, Transmit
  PROVE  TxInv' /\ TxFifo!Next
<1>1. /\ ETH_TXBUFNB \in Nat \ {0}
      /\ TxTypeOK /\ txDma \in 0 .. ETH_TXBUFNB - 1 /\ set \in 0 .. ETH_TXBUFNB - 1
      /\ own \in [TxRing -> BOOLEAN] /\ taken \in [TxRing -> Piece]
      /\ TxRing = 0 .. ETH_TXBUFNB - 1 /\ NONE \in Piece
  BY TxAssumption DEF TxInv, TxTypeOK, TxRing, Piece
<1>2. /\ own[txDma] /\ own' = [own EXCEPT ![txDma] = FALSE]
      /\ taken' = [taken EXCEPT ![txDma] = NONE] /\ txDma' = TxSucc(txDma)
      /\ UNCHANGED <<data, tbus, set, pc, frame, buffer, pbuf, cached, mixed>>
  BY DEF Transmit, local
<1>3. PICK n \in 0 .. ETH_TXBUFNB : TxRun(n)
  BY DEF TxInv
<1>4. n \in 1 .. ETH_TXBUFNB
  <2>1. Place(ETH_TXBUFNB, txDma, 0) = txDma /\ 0 \in 0 .. ETH_TXBUFNB - 1
    BY <1>1, PlaceZero
  <2>2. 0 < n
    BY <1>1, <1>2, <1>3, <2>1 DEF TxRun, Run, Under, UnderOf
  <2> QED BY <2>2
<1>5. Under' = Under \ {txDma}
  BY <1>1, <1>2 DEF Under, UnderOf
<1>6. txDma' = Place(ETH_TXBUFNB, txDma, 1)
  BY <1>2 DEF TxSucc, Place
<1>7. Run(ETH_TXBUFNB, txDma', n - 1, Under')
  BY <1>1, <1>3, <1>4, <1>5, <1>6, RunTake DEF TxRun
<1>8. Behind' = Place(ETH_TXBUFNB, txDma', n - 1)
  <2>1. n - 1 \in 0 .. ETH_TXBUFNB - 1 /\ (n - 1) + 1 = n
    BY <1>1, <1>4
  <2>2. Behind' = Behind
    BY <1>2 DEF Behind
  <2> QED BY <1>1, <1>3, <1>6, <2>1, <2>2, PlaceNext DEF TxRun
<1>9. TxRun(n - 1)' /\ n - 1 \in 0 .. ETH_TXBUFNB
  <2>1. n - 1 \in 0 .. ETH_TXBUFNB
    BY <1>1, <1>4
  <2> QED BY <1>7, <1>8, <2>1 DEF TxRun
<1>10. TxTypeOK'
  <2>1. txDma' \in TxRing
    BY <1>1, <1>6, PlaceNext
  <2> QED BY <1>1, <1>2, <2>1 DEF TxTypeOK
<1>11. TxInv'
  <2>1. pc' = "own" => ~own'[set']
    BY <1>1, <1>2 DEF TxInv
  <2> QED BY <1>2, <1>9, <1>10, <2>1 DEF TxInv
<1>12. /\ Pending = Along(ETH_TXBUFNB, txDma, n, taken)
       /\ Pending' = Along(ETH_TXBUFNB, txDma', n - 1, taken')
  <2>1. Pending = Along(ETH_TXBUFNB, txDma, n, taken)
    <3>1. Pending = PendingOf(txDma, own, taken)
      BY DEF Pending, Owned, PendingOf
    <3> QED BY <1>1, <1>3, <3>1, TxPending DEF TxRun, Under
  <2>2. Pending' = Along(ETH_TXBUFNB, txDma', n - 1, taken')
    <3>1. Pending' = PendingOf(txDma', own', taken')
      BY DEF Pending, Owned, PendingOf
    <3>2. txDma' \in TxRing
      BY <1>10 DEF TxTypeOK
    <3> QED BY <1>9, <3>1, <3>2, TxPending DEF TxRun, Under
  <2> QED BY <2>1, <2>2
<1>13. Pending # <<>> /\ Pending' = Tail(Pending)
  <2>1. /\ Along(ETH_TXBUFNB, txDma, n, taken) # <<>>
        /\ Along(ETH_TXBUFNB, Place(ETH_TXBUFNB, txDma, 1), n - 1, taken')
             = Tail(Along(ETH_TXBUFNB, txDma, n, taken))
    <3>1. \A d \in 0 .. ETH_TXBUFNB - 1 : d # txDma => taken'[d] = taken[d]
      BY <1>1, <1>2
    <3> DEFINE w == taken'
    <3> HIDE DEF w
    <3>2. \A d \in 0 .. ETH_TXBUFNB - 1 : d # txDma => w[d] = taken[d]
      BY <3>1 DEF w
    <3>3. ASSUME NEW a \in 0 .. ETH_TXBUFNB - 1, NEW u, NEW v,
                 \A d \in 0 .. ETH_TXBUFNB - 1 : d # a => u[d] = v[d]
          PROVE  Along(ETH_TXBUFNB, Place(ETH_TXBUFNB, a, 1), n - 1, u)
                   = Tail(Along(ETH_TXBUFNB, a, n, v))
      <4>1. ETH_TXBUFNB \in Nat \ {0} /\ n \in 1 .. ETH_TXBUFNB
        BY <1>1, <1>4
      <4> QED BY <3>3, <4>1, AlongTake
    <3>4. Along(ETH_TXBUFNB, Place(ETH_TXBUFNB, txDma, 1), n - 1, w)
            = Tail(Along(ETH_TXBUFNB, txDma, n, taken))
      BY <1>1, <3>2, <3>3
    <3>5. n \in Nat \ {0}
      BY <1>1, <1>4
    <3> QED BY <3>4, <3>5, AlongSome DEF w
  <2> QED BY <1>2, <1>6, <1>12, <2>1
<1> QED BY <1>11, <1>13 DEF TxFifo!Next, TxFifo!Take

\* A buffer of which a part is written is still a buffer.
LEMMA CopyKeepsType ==
  ASSUME TxTypeOK, NEW i \in 1 .. Pbufs, NEW b \in TxRing, NEW f \in Piece
  PROVE  [data EXCEPT ![b][i] = f] \in [TxRing -> [1 .. Pbufs -> Piece]]
<1>1. data \in [TxRing -> [1 .. Pbufs -> Piece]]
  BY DEF TxTypeOK
<1>2. data[b] \in [1 .. Pbufs -> Piece]
  BY <1>1
<1>3. [data[b] EXCEPT ![i] = f] \in [1 .. Pbufs -> Piece]
  BY <1>2
<1> QED BY <1>1, <1>3

\* The step of either sender.
LEMMA SenderStep ==
  ASSUME TxInv,
         Main \/ \E f \in Frames : Output(f) \/ (IrqOutput(f) /\ ~mixed')
  PROVE  TxInv' /\ (TxFifo!Next \/ Pending' = Pending)
<1>1. /\ TxTypeOK /\ Frames \subseteq Piece /\ NONE \in Piece /\ 0 \in TxRing
      /\ ETH_TXBUFNB \in Nat \ {0} /\ TxRing = 0 .. ETH_TXBUFNB - 1 /\ 1 \in 1 .. Pbufs
  BY TxAssumption DEF TxInv, TxRing, Piece
<1>2. ASSUME NEW f \in Frames, Output(f)
      PROVE  TxInv' /\ (TxFifo!Next \/ Pending' = Pending)
  <2>1. /\ UNCHANGED <<own, data, taken, txDma, tbus, set, pbuf, cached, mixed>>
        /\ pc = "idle" /\ pc' = "copy" /\ frame' = f /\ buffer' = set
    BY <1>2 DEF Output, ring, engine
  <2>2. TxTypeOK'
    BY <1>1, <2>1 DEF TxTypeOK
  <2>3. Behind' = Behind
    BY <2>1 DEF Behind
  <2> QED BY <2>1, <2>2, <2>3, TxSame DEF TxInv
<1>3. CASE Copy
  <2>1. /\ UNCHANGED <<own, taken, txDma, tbus, set, frame, buffer, cached, mixed>>
        /\ pc = "copy" /\ pc' \in {"copy", "check"} /\ pbuf' \in 1 .. Pbufs
        /\ data' = [data EXCEPT ![buffer][pbuf] = frame]
    BY <1>1, <1>3, TxAssumption DEF Copy, engine, TxTypeOK
  <2>2. data' \in [TxRing -> [1 .. Pbufs -> Piece]]
    BY <1>1, <2>1, CopyKeepsType DEF TxTypeOK
  <2>3. TxTypeOK'
    BY <1>1, <2>1, <2>2 DEF TxTypeOK
  <2>4. Behind' = Behind
    BY <2>1 DEF Behind
  <2> QED BY <2>1, <2>3, <2>4, TxSame DEF TxInv
<1>4. CASE Check
  <2>1. UNCHANGED <<own, data, taken, txDma, tbus, set, mixed>> /\ pc = "check"
    BY <1>4 DEF Check, ring, engine
  <2>2. CASE own[set]
    <3>1. pc' = "idle" /\ frame' = NONE /\ buffer' = 0 /\ pbuf' = 1 /\ cached' = 0
      BY <1>4, <2>2 DEF Check, Return
    <3>2. TxTypeOK'
      BY <1>1, <2>1, <3>1 DEF TxTypeOK
    <3>3. Behind' = Behind
      BY <2>1, <3>1 DEF Behind
    <3> QED BY <2>1, <3>1, <3>2, <3>3, TxSame DEF TxInv
  <2>3. CASE ~own[set]
    <3>1. pc' = "own" /\ cached' = set /\ UNCHANGED <<frame, buffer, pbuf>>
      BY <1>4, <2>3 DEF Check
    <3>2. TxTypeOK'
      BY <1>1, <2>1, <3>1 DEF TxTypeOK
    <3>3. Behind' = Behind
      BY <2>1, <3>1 DEF Behind
    <3> QED BY <2>1, <2>3, <3>1, <3>2, <3>3, TxSame DEF TxInv
  <2> QED BY <2>2, <2>3
<1>5. CASE SetOwn
  <2>1. /\ UNCHANGED <<data, txDma, tbus, set, frame, buffer, pbuf, cached, mixed>>
        /\ pc = "own" /\ pc' = "resume" /\ cached = set
        /\ own' = [own EXCEPT ![set] = TRUE] /\ taken' = [taken EXCEPT ![set] = frame]
    BY <1>5 DEF SetOwn, TxInv, engine, local
  <2>2. frame \in Frames /\ ~own[set] /\ Behind = set /\ Behind' = TxSucc(set)
    BY <2>1 DEF TxInv, Behind, TxSucc
  <2>3. /\ own' \in [TxRing -> BOOLEAN] /\ taken' \in [TxRing -> Piece]
        /\ \E n \in 0 .. ETH_TXBUFNB : TxRun(n)'
        /\ TxFifo!Next
    BY <2>1, <2>2, HandOver
  <2>4. TxTypeOK'
    BY <1>1, <2>1, <2>3 DEF TxTypeOK
  <2> QED BY <2>1, <2>2, <2>3, <2>4 DEF TxInv
<1>6. CASE Resume
  <2>1. /\ UNCHANGED <<own, data, taken, txDma, set, frame, buffer, pbuf, cached, mixed>>
        /\ pc = "resume" /\ pc' = "advance" /\ tbus' = FALSE
    BY <1>6 DEF Resume, ring, local
  <2>2. TxTypeOK'
    BY <1>1, <2>1 DEF TxTypeOK
  <2>3. Behind' = Behind
    BY <2>1 DEF Behind, TxSucc
  <2> QED BY <2>1, <2>2, <2>3, TxSame DEF TxInv
<1>7. CASE Advance
  <2>1. /\ UNCHANGED <<own, data, taken, txDma, tbus, mixed>>
        /\ pc = "advance" /\ pc' = "idle" /\ set' = TxSucc(set)
        /\ frame' = NONE /\ buffer' = 0 /\ pbuf' = 1 /\ cached' = 0
    BY <1>7 DEF Advance, Return, TxInv, ring, engine
  <2>2. TxSucc(set) \in TxRing
    <3>1. set \in 0 .. ETH_TXBUFNB - 1 /\ TxSucc(set) = Place(ETH_TXBUFNB, set, 1)
      BY <1>1 DEF TxTypeOK, TxSucc, Place
    <3> QED BY <1>1, <3>1, PlaceNext
  <2>3. TxTypeOK'
    BY <1>1, <2>1, <2>2 DEF TxTypeOK
  <2>4. Behind' = Behind
    BY <2>1 DEF Behind
  <2> QED BY <2>1, <2>3, <2>4, TxSame DEF TxInv
<1>8. ASSUME NEW f \in Frames, IrqOutput(f), ~mixed'
      PROVE  TxInv' /\ (TxFifo!Next \/ Pending' = Pending)
  <2>1. /\ UNCHANGED <<txDma, pc, frame, buffer, pbuf, cached>> /\ mixed' \in BOOLEAN
        /\ data' = [data EXCEPT ![set] = Filled(f)]
        /\ own[set] \/ pc \notin {"own", "resume", "advance"}
    BY <1>8 DEF IrqOutput, local, HandingOver
  <2>2. data' \in [TxRing -> [1 .. Pbufs -> Piece]]
    BY <1>1, <2>1 DEF TxTypeOK, Filled
  <2>3. CASE own[set]
    <3>1. UNCHANGED <<own, taken, tbus, set>>
      BY <1>8, <2>3 DEF IrqOutput
    <3>2. TxTypeOK'
      BY <1>1, <2>1, <2>2, <3>1 DEF TxTypeOK
    <3>3. Behind' = Behind
      BY <2>1, <3>1 DEF Behind
    <3> QED BY <2>1, <3>1, <3>2, <3>3, TxSame DEF TxInv
  <2>4. CASE ~own[set]
    <3>1. /\ own' = [own EXCEPT ![set] = TRUE] /\ taken' = [taken EXCEPT ![set] = f]
          /\ tbus' = FALSE /\ set' = TxSucc(set)
      BY <1>8, <2>4 DEF IrqOutput
    <3>2. Behind = set /\ Behind' = TxSucc(set)
      BY <2>1, <2>4, <3>1 DEF Behind
    <3>3. /\ own' \in [TxRing -> BOOLEAN] /\ taken' \in [TxRing -> Piece]
          /\ TxSucc(set) \in TxRing
          /\ \E n \in 0 .. ETH_TXBUFNB : TxRun(n)'
          /\ TxFifo!Next
      BY <2>1, <2>4, <3>1, <3>2, HandOver
    <3>4. TxTypeOK'
      BY <1>1, <2>1, <2>2, <3>1, <3>3 DEF TxTypeOK
    <3> QED BY <2>1, <2>4, <3>1, <3>3, <3>4 DEF TxInv
  <2> QED BY <2>3, <2>4
<1> QED BY <1>2, <1>3, <1>4, <1>5, <1>6, <1>7, <1>8 DEF Main

\* A step that concerns reception only, and the DMA's stop.
LEMMA TxStutter ==
  ASSUME TxInv, UNCHANGED txVars \/ Suspend
  PROVE  TxInv' /\ Pending' = Pending
<1>1. /\ UNCHANGED <<own, data, taken, txDma, set, pc, frame, buffer, pbuf, cached, mixed>>
      /\ tbus' = tbus \/ tbus' = TRUE
  BY DEF txVars, ring, engine, local, Suspend
<1>2. TxTypeOK'
  BY <1>1 DEF TxInv, TxTypeOK
<1>3. Behind' = Behind
  BY <1>1 DEF Behind, TxSucc
<1> QED BY <1>1, <1>2, <1>3, TxSame DEF TxInv

\* A full run is the whole ring, a shorter one ends at a free place.
LEMMA RunEnd ==
  ASSUME NEW N \in Nat \ {0}, NEW a \in 0 .. N - 1, NEW n \in 0 .. N, NEW S,
         Run(N, a, n, S), Place(N, a, n) \in S
  PROVE  \A d \in 0 .. N - 1 : d \in S
<1>1. n = N
  <2> SUFFICES ASSUME n # N PROVE FALSE
    OBVIOUS
  <2>1. n \in 0 .. N - 1
    OBVIOUS
  <2> QED BY <2>1 DEF Run
<1>2. ASSUME NEW d \in 0 .. N - 1
      PROVE  d \in S
  <2> DEFINE k == IF a <= d THEN d - a ELSE d - a + N
  <2>1. k \in 0 .. N - 1 /\ k \in 0 .. N /\ k < N
        /\ (IF a + k < N THEN a + k ELSE a + k - N) = d
    OBVIOUS
  <2> HIDE DEF k
  <2>2. Place(N, a, k) = d
    BY <2>1, RingPlaces
  <2> QED BY <1>1, <2>1, <2>2 DEF Run
<1> QED BY <1>2

\* The types of transmission need no rule for the callers.
LEMMA TxKeepsTypes ==
  ASSUME TxTypeOK,
         \/ Main \/ Transmit \/ Suspend \/ UNCHANGED txVars
         \/ \E f \in Frames : Output(f) \/ IrqOutput(f)
  PROVE  TxTypeOK'
<1>1. /\ NONE \in Piece /\ 0 \in TxRing /\ 1 \in 1 .. Pbufs
      /\ \A f \in Frames : f \in Piece /\ Filled(f) \in [1 .. Pbufs -> Piece]
  BY TxAssumption DEF TxRing, Piece, Filled
<1>2. \A d \in TxRing : TxSucc(d) \in TxRing
  <2>1. ETH_TXBUFNB \in Nat \ {0}
    BY TxAssumption
  <2>2. ASSUME NEW d \in 0 .. ETH_TXBUFNB - 1 PROVE Place(ETH_TXBUFNB, d, 1) \in 0 .. ETH_TXBUFNB - 1
    BY <2>1, PlaceNext
  <2> QED BY <2>2 DEF TxSucc, Place, TxRing
<1>3. [data EXCEPT ![buffer][pbuf] = frame] \in [TxRing -> [1 .. Pbufs -> Piece]]
  BY CopyKeepsType DEF TxTypeOK
<1>4. CASE (\E f \in Frames : Output(f)) \/ Suspend \/ UNCHANGED txVars \/ Resume
  BY <1>1, <1>4 DEF TxTypeOK, Output, Suspend, Resume, txVars, ring, engine, local
<1>5. CASE Copy
  BY <1>3, <1>5, TxAssumption DEF TxTypeOK, Copy, engine
<1>6. CASE Check
  BY <1>1, <1>6 DEF TxTypeOK, Check, Return, ring, engine
<1>7. CASE SetOwn
  BY <1>7 DEF TxTypeOK, SetOwn, engine, local
<1>8. CASE Advance
  BY <1>1, <1>2, <1>8 DEF TxTypeOK, Advance, Return, ring, engine
<1>9. CASE \E f \in Frames : IrqOutput(f)
  <2>1. PICK f \in Frames : IrqOutput(f)
    BY <1>9
  <2>2. /\ data \in [TxRing -> [1 .. Pbufs -> Piece]] /\ taken \in [TxRing -> Piece]
        /\ own \in [TxRing -> BOOLEAN] /\ set \in TxRing
    BY DEF TxTypeOK
  <2>3. data' \in [TxRing -> [1 .. Pbufs -> Piece]]
    <3>1. data' = [data EXCEPT ![set] = Filled(f)]
      BY <2>1 DEF IrqOutput
    <3>2. Filled(f) \in [1 .. Pbufs -> Piece]
      BY <1>1
    <3> QED BY <2>2, <3>1, <3>2
  <2>4. CASE own[set]
    BY <2>1, <2>3, <2>4 DEF TxTypeOK, IrqOutput, local
  <2>5. CASE ~own[set]
    <3>1. /\ own' = [own EXCEPT ![set] = TRUE] /\ taken' = [taken EXCEPT ![set] = f]
          /\ tbus' = FALSE /\ set' = TxSucc(set)
          /\ UNCHANGED <<txDma, pc, buffer, frame, pbuf, cached>>
          /\ mixed' \in BOOLEAN
      BY <2>1, <2>5 DEF IrqOutput, local
    <3>2. taken' \in [TxRing -> Piece] /\ set' \in TxRing
      BY <1>1, <1>2, <2>2, <3>1
    <3>3. own' \in [TxRing -> BOOLEAN]
      BY <2>2, <3>1
    <3> QED BY <2>3, <3>1, <3>2, <3>3 DEF TxTypeOK
  <2> QED BY <2>4, <2>5
<1>10. CASE Transmit
  BY <1>1, <1>2, <1>10 DEF TxTypeOK, Transmit, local
<1> QED BY <1>4, <1>5, <1>6, <1>7, <1>8, <1>9, <1>10 DEF Main

-----------------------------------------------------------------------------
(* The driver.                                                             *)

\* The invariant for any callers, and a step of the receive queue.
LEMMA DriverStep ==
  ASSUME RxInv, TxTypeOK, [DriverNext]_driverVars
  PROVE  RxInv' /\ TxTypeOK' /\ (RxFifo!Next \/ Waiting' = Waiting)
<1>1. CASE (Arrive \/ ETH_IRQHandler) /\ UNCHANGED txVars
  <2>1. TxTypeOK'
    BY <1>1 DEF txVars, ring, engine, local, TxTypeOK
  <2> QED BY <1>1, <2>1, RxStep
<1>2. CASE UNCHANGED rxVars /\ \E f \in Frames : Output(f) \/ IrqOutput(f)
  BY <1>2, RxStutter, TxKeepsTypes
<1>3. CASE UNCHANGED rxVars /\ (Main \/ Transmit \/ Suspend \/ UNCHANGED txVars)
  BY <1>3, RxStutter, TxKeepsTypes
<1> QED BY <1>1, <1>2, <1>3
    DEF DriverNext, driverVars, Wire, Handler, Reply, MainOutput, MainStep, TxEngine

\* The invariant of transmission as long as no two hand-overs have been mixed,
\* and a step of the transmit queue.
LEMMA RuledStep ==
  ASSUME TxTypeOK, ~mixed => TxInv, [DriverNext]_driverVars, ~mixed'
  PROVE  ~mixed /\ TxInv /\ TxInv' /\ (TxFifo!Next \/ Pending' = Pending)
<1>1. ~mixed /\ TxInv
  <2>1. mixed' = mixed \/ \E f \in Frames : IrqOutput(f)
    BY DEF DriverNext, driverVars, Wire, Handler, Reply, MainOutput, MainStep, TxEngine,
           Main, Output, Copy, Check, SetOwn, Resume, Advance, Transmit, Suspend, txVars
  <2> QED BY <2>1 DEF IrqOutput, TxTypeOK
<1>2. CASE UNCHANGED txVars \/ Suspend
  BY <1>1, <1>2, TxStutter
<1>3. CASE \E f \in Frames : Output(f) \/ IrqOutput(f)
  BY <1>1, <1>3, SenderStep
<1>4. CASE Main
  BY <1>1, <1>4, SenderStep
<1>5. CASE Transmit
  BY <1>1, <1>5, TransmitTakes
<1> QED BY <1>1, <1>2, <1>3, <1>4, <1>5
    DEF DriverNext, driverVars, Wire, Handler, Reply, MainOutput, MainStep, TxEngine

LEMMA DriverAlwaysInv == DriverSpec => [](RxInv /\ TxTypeOK)
<1>1. DriverInit => RxInv /\ TxTypeOK
  BY RxInitially, TxInitially DEF DriverInit, TxInv
<1>2. RxInv /\ TxTypeOK /\ [DriverNext]_driverVars => (RxInv /\ TxTypeOK)'
  BY DriverStep
<1> QED BY <1>1, <1>2, PTL DEF DriverSpec

LEMMA TxAlwaysInv == DriverSpec => [](~mixed => TxInv)
<1>1. DriverInit => (~mixed => TxInv)
  BY TxInitially DEF DriverInit
<1>2. TxTypeOK /\ (~mixed => TxInv) /\ [DriverNext]_driverVars => (~mixed => TxInv)'
  BY RuledStep
<1> QED BY <1>1, <1>2, DriverAlwaysInv, PTL DEF DriverSpec

\* Both rings' variables keep their types for any number of descriptors and
\* any interleaving: ETH_DMA*DescChainInit's last link leads back, and no
\* index leaves its ring.
THEOREM DriverTypeCorrect == DriverSpec => []DriverTypeOK
<1>1. RxInv /\ TxTypeOK => DriverTypeOK
  BY DEF RxInv, DriverTypeOK
<1> QED BY <1>1, DriverAlwaysInv, PTL

\* ETH_Rx_Packet, called because the loop saw a frame, finds it: the DMA
\* never takes back a descriptor it has given up, so low_level_input always
\* has one to return.
THEOREM DescriptorIsThere == DriverSpec => []PacketIsThere
<1>1. RxInv => PacketIsThere
  BY DEF RxInv, PacketIsThere
<1> QED BY <1>1, DriverAlwaysInv, PTL

\* With any number of descriptors, frames leave the receive ring in the
\* order in which the DMA stored them, each once.
THEOREM ReceivesInOrder == DriverSpec => RxInOrder
<1>1. DriverInit => RxFifo!Init
  BY RxInitially DEF DriverInit, RxFifo!Init
<1>2. RxInv /\ TxTypeOK /\ [DriverNext]_driverVars => [RxFifo!Next]_Waiting
  BY DriverStep
<1> QED BY <1>1, <1>2, DriverAlwaysInv, PTL DEF DriverSpec, RxInOrder, RxFifo!Spec

\* With any number of descriptors, and wherever the interrupt sends in the
\* main loop's call, ETH_Tx_Packet refuses a frame only when every buffer is
\* under way: the descriptor at DMATxDescToSet is then the oldest.  Excepted
\* are the calls in the middle of a hand-over, and all that follows one that
\* was mixed with another.
THEOREM RefusesOnlyWhenFull == DriverSpec => []RefusedOnlyWhenFull
<1>1. (~mixed => TxInv) => RefusedOnlyWhenFull
  <2> SUFFICES ASSUME TxInv, ~HandingOver, own[set]
               PROVE  \A d \in TxRing : own[d]
    BY DEF RefusedOnlyWhenFull
  <2>1. PICK n \in 0 .. ETH_TXBUFNB : TxRun(n)
    BY DEF TxInv
  <2>2. /\ ETH_TXBUFNB \in Nat \ {0} /\ txDma \in 0 .. ETH_TXBUFNB - 1
        /\ set \in TxRing /\ Behind = set
    BY TxAssumption DEF TxInv, TxTypeOK, TxRing, Behind, HandingOver
  <2>3. Run(ETH_TXBUFNB, txDma, n, Under) /\ Place(ETH_TXBUFNB, txDma, n) \in Under
    BY <2>1, <2>2 DEF TxRun, Under, UnderOf
  <2>4. \A d \in 0 .. ETH_TXBUFNB - 1 : d \in Under
    BY <2>2, <2>3, RunEnd
  <2> QED BY <2>4 DEF Under, UnderOf, TxRing
<1> QED BY <1>1, TxAlwaysInv, PTL

\* With any number of descriptors the DMA takes frames in the order in which
\* they were accepted, each once, also when the interrupt sends in the middle of
\* the main loop's call, until it hands a descriptor over between the main
\* loop's look at OWN and its new DMATxDescToSet.
THEOREM TransmitsInOrder == DriverSpec => TxInOrder
<1> DEFINE Step == TxFifo!Next \/ mixed'
<1>1. DriverInit => TxFifo!Init
  BY TxInitially DEF DriverInit, TxFifo!Init
<1>2. TxTypeOK /\ (~mixed => TxInv) /\ [DriverNext]_driverVars => [Step]_Pending
  BY RuledStep
<1> HIDE DEF Step
<1>3. DriverSpec => TxFifo!Init /\ [][Step]_Pending
  BY <1>1, <1>2, TxAlwaysInv, DriverAlwaysInv, PTL DEF DriverSpec
<1> QED BY <1>3 DEF TxInOrder, Step

-----------------------------------------------------------------------------
(* Reception does not fall asleep.                                         *)

\* While the handler is away and no interrupt is pending, the DMA is running
\* and has a descriptor: the next frame is stored and calls the handler.
ListensWhenAsleep == at = "idle" /\ ~nis => ~rbus /\ desc[rxDma] = OWN

\* At most k frames wait.
AtMost(k) == \E n \in 0 .. ETH_RXBUFNB : n <= k /\ RxRun(n)

\* The DMA stops at a full ring, which stays full until low_level_input
\* resumes it; since the handler's last look, which found the ring empty, only
\* the late frames have come.
AwakeInv ==
  /\ rbus /\ at # "giveBack" => \A d \in RxRing : desc[d] # OWN
  /\ at \in {"clearR", "clearNIS"} => AtMost(late)
  /\ at = "idle" /\ ~nis => AtMost(Late)

\* A frame makes the run longer by one.
LEMMA StoreRun ==
  ASSUME RxTypeOK, NEW f \in Frames, Store(f), NEW n \in 0 .. ETH_RXBUFNB, RxRun(n)
  PROVE  n + 1 \in 0 .. ETH_RXBUFNB /\ RxRun(n + 1)'
<1>1. /\ ETH_RXBUFNB \in Nat \ {0} /\ OWN \notin Frames
      /\ get \in 0 .. ETH_RXBUFNB - 1 /\ rxDma \in RxRing
      /\ desc \in [0 .. ETH_RXBUFNB - 1 -> Frames \cup {OWN}]
      /\ RxRing = 0 .. ETH_RXBUFNB - 1
  BY RxAssumption DEF RxTypeOK, RxRing
<1>2. /\ desc[rxDma] = OWN /\ desc' = [desc EXCEPT ![rxDma] = f]
      /\ rxDma' = RxSucc(rxDma) /\ UNCHANGED get
  BY DEF Store, handler
<1>3. Run(ETH_RXBUFNB, get, n, Full) /\ rxDma = Place(ETH_RXBUFNB, get, n)
  BY DEF RxRun
<1>4. n \in 0 .. ETH_RXBUFNB - 1
  <2> SUFFICES ASSUME n = ETH_RXBUFNB PROVE FALSE
    BY <1>1
  <2>1. Place(ETH_RXBUFNB, get, n) = get
    <3>1. n \in 0 .. ETH_RXBUFNB /\ ~(get + n < ETH_RXBUFNB) /\ get + n - ETH_RXBUFNB = get
      BY <1>1
    <3> QED BY <1>1, <3>1, RingPlaces
  <2>2. 0 \in 0 .. ETH_RXBUFNB - 1 /\ 0 < n
    BY <1>1
  <2>3. Place(ETH_RXBUFNB, get, 0) = get
    BY <1>1, PlaceZero
  <2>4. get \in Full
    BY <1>3, <2>2, <2>3 DEF Run
  <2> QED BY <1>2, <1>3, <2>1, <2>4 DEF Full
<1>5. Full' = Full \cup {rxDma}
  BY <1>1, <1>2 DEF Full
<1>6. RxSucc(rxDma) = Place(ETH_RXBUFNB, rxDma, 1)
  BY DEF RxSucc, Place
<1>7. rxDma' = Place(ETH_RXBUFNB, get, n + 1)
  BY <1>1, <1>2, <1>3, <1>4, <1>6, PlaceSucc
<1>8. Run(ETH_RXBUFNB, get, n + 1, Full')
  BY <1>1, <1>3, <1>4, <1>5, RunAdd
<1>9. n + 1 \in 0 .. ETH_RXBUFNB
  BY <1>1, <1>4
<1> QED BY <1>2, <1>7, <1>8, <1>9 DEF RxRun

\* A step that leaves the ring alone, and may count a late frame.
LEMMA SameAtMost ==
  ASSUME RxTypeOK, UNCHANGED <<desc, get, rxDma>>
  PROVE  /\ AtMost(late) /\ late' \in {late, late + 1} =>
              \E n \in 0 .. ETH_RXBUFNB : n <= late' /\ RxRun(n)'
         /\ AtMost(late) \/ AtMost(Late) =>
              \E n \in 0 .. ETH_RXBUFNB : n <= Late /\ RxRun(n)'
<1>1. \A n : RxRun(n)' = RxRun(n)
  BY DEF RxRun, Run, Full
<1>2. late \in Nat /\ Late \in Nat /\ late <= Late
  BY RxAssumption DEF RxTypeOK
<1>3. ASSUME AtMost(late), late' \in {late, late + 1}
      PROVE  \E n \in 0 .. ETH_RXBUFNB : n <= late' /\ RxRun(n)'
  <2>1. PICK n \in 0 .. ETH_RXBUFNB : n <= late /\ RxRun(n)
    BY <1>3 DEF AtMost
  <2>2. n <= late'
    BY <1>2, <1>3, <2>1
  <2> QED BY <1>1, <2>1, <2>2
<1>4. ASSUME AtMost(late) \/ AtMost(Late)
      PROVE  \E n \in 0 .. ETH_RXBUFNB : n <= Late /\ RxRun(n)'
  <2>1. PICK n \in 0 .. ETH_RXBUFNB : (n <= late \/ n <= Late) /\ RxRun(n)
    BY <1>4 DEF AtMost
  <2>2. n <= Late
    BY <1>2, <2>1
  <2> QED BY <1>1, <2>1, <2>2
<1> QED BY <1>3, <1>4

\* The frames on the wire.
LEMMA ArriveAwake ==
  ASSUME RxInv, AwakeInv, Arrive
  PROVE  AwakeInv'
<1>1. /\ RxTypeOK /\ late \in Nat /\ late + 1 \in Nat /\ Late \in Nat
      /\ late <= late + 1 /\ Late <= Late
  BY RxAssumption DEF RxInv, RxTypeOK
<1>2. ASSUME NEW f \in Frames, Store(f) PROVE AwakeInv'
  <2>1. ~rbus' /\ nis' /\ at' = at /\ InTime
    BY <1>2 DEF Store, handler
  <2>2. ASSUME at \in {"clearR", "clearNIS"}
        PROVE  \E n \in 0 .. ETH_RXBUFNB : n <= late' /\ RxRun(n)'
    <3>1. PICK n \in 0 .. ETH_RXBUFNB : n <= late /\ RxRun(n)
      BY <2>2 DEF AwakeInv, AtMost
    <3>2. n + 1 \in 0 .. ETH_RXBUFNB /\ RxRun(n + 1)'
      BY <1>1, <1>2, <3>1, StoreRun
    <3>3. late' = late + 1
      BY <2>1, <2>2 DEF InTime
    <3>4. n + 1 <= late + 1
      BY <1>1, <3>1
    <3> QED BY <3>2, <3>3, <3>4
  <2> QED BY <2>1, <2>2 DEF AwakeInv, AtMost
<1>3. CASE Overrun
  <2>1. UNCHANGED <<desc, rxDma, get, r, nis, at>> /\ InTime
    BY <1>3 DEF Overrun, handler
  <2>2. ASSUME at # "giveBack" PROVE \A d \in RxRing : desc[d] # OWN
    <3>1. CASE rbus
      BY <2>2, <3>1 DEF AwakeInv
    <3>2. CASE desc[rxDma] # OWN
      <4>1. PICK n \in 0 .. ETH_RXBUFNB : RxRun(n)
        BY DEF RxInv
      <4>2. /\ ETH_RXBUFNB \in Nat \ {0} /\ get \in 0 .. ETH_RXBUFNB - 1
            /\ rxDma \in RxRing /\ RxRing = 0 .. ETH_RXBUFNB - 1
        BY RxAssumption DEF RxInv, RxTypeOK, RxRing
      <4>3. Run(ETH_RXBUFNB, get, n, Full) /\ Place(ETH_RXBUFNB, get, n) \in Full
        BY <3>2, <4>1, <4>2 DEF RxRun, Full
      <4>4. \A d \in 0 .. ETH_RXBUFNB - 1 : d \in Full
        BY <4>2, <4>3, RunEnd
      <4> QED BY <4>2, <4>4 DEF Full
    <3> QED BY <1>3, <3>1, <3>2 DEF Overrun
  <2>3. ASSUME at \in {"clearR", "clearNIS"}
        PROVE  \E n \in 0 .. ETH_RXBUFNB : n <= late' /\ RxRun(n)'
    <3>1. late' = late + 1
      BY <2>1, <2>3 DEF InTime
    <3> QED BY <1>1, <2>1, <2>3, <3>1, SameAtMost DEF AwakeInv
  <2>4. at = "idle" /\ ~nis => \E n \in 0 .. ETH_RXBUFNB : n <= Late /\ RxRun(n)'
    BY <1>1, <2>1, SameAtMost DEF AwakeInv
  <2> QED BY <2>1, <2>2, <2>3, <2>4 DEF AwakeInv, AtMost
<1> QED BY <1>2, <1>3 DEF Arrive

\* The handler.
LEMMA HandlerAwake ==
  ASSUME RxInv, AwakeInv, ETH_IRQHandler
  PROVE  AwakeInv'
<1>1. /\ RxTypeOK /\ late \in Nat /\ Late \in Nat /\ late <= late /\ late <= Late
  BY RxAssumption DEF RxInv, RxTypeOK
<1>2. CASE Packet
  <2>1. at' = "giveBack"
    BY <1>2 DEF Packet, RxInv
  <2> QED BY <2>1 DEF AwakeInv
<1>3. CASE Enter \/ InputDone
  <2>1. /\ UNCHANGED <<desc, get, rxDma, rbus>> /\ at \in {"idle", "input"}
        /\ at' = "loop"
    BY <1>3 DEF Enter, InputDone
  <2> QED BY <2>1 DEF AwakeInv
<1>4. CASE GiveBack
  <2>1. ~rbus' /\ at' = "input"
    BY <1>4 DEF GiveBack
  <2> QED BY <2>1 DEF AwakeInv
<1>5. CASE Loop
  <2>1. /\ UNCHANGED <<desc, get, rxDma, rbus, late>> /\ at = "loop"
        /\ at' = IF desc[get] # OWN THEN "packet" ELSE "clearR"
    BY <1>5 DEF Loop
  <2>2. ASSUME desc[get] = OWN PROVE AtMost(late)
    <3>1. PICK n \in 0 .. ETH_RXBUFNB : RxRun(n)
      BY DEF RxInv
    <3>2. /\ ETH_RXBUFNB \in Nat \ {0} /\ get \in 0 .. ETH_RXBUFNB - 1
          /\ 0 \in 0 .. ETH_RXBUFNB - 1
      BY RxAssumption DEF RxInv, RxTypeOK, RxRing
    <3>3. Place(ETH_RXBUFNB, get, 0) = get
      BY <3>2, PlaceZero
    <3>4. ~(0 < n)
      BY <2>2, <3>1, <3>2, <3>3 DEF RxRun, Run, Full
    <3>5. n <= late
      BY <1>1, <3>4
    <3> QED BY <3>1, <3>5 DEF AtMost
  <2>3. desc[get] = OWN => \E n \in 0 .. ETH_RXBUFNB : n <= late' /\ RxRun(n)'
    BY <1>1, <2>1, <2>2, SameAtMost
  <2> QED BY <2>1, <2>3 DEF AwakeInv, AtMost
<1>6. CASE ClearR
  <2>1. /\ UNCHANGED <<desc, get, rxDma, rbus, late>> /\ at = "clearR"
        /\ at' = "clearNIS"
    BY <1>6 DEF ClearR
  <2>2. \E n \in 0 .. ETH_RXBUFNB : n <= late' /\ RxRun(n)'
    BY <1>1, <2>1, SameAtMost DEF AwakeInv
  <2> QED BY <2>1, <2>2 DEF AwakeInv, AtMost
<1>7. CASE ClearNIS
  <2>1. UNCHANGED <<desc, get, rxDma, rbus>> /\ at = "clearNIS" /\ at' = "idle"
    BY <1>7 DEF ClearNIS
  <2>2. \E n \in 0 .. ETH_RXBUFNB : n <= Late /\ RxRun(n)'
    BY <1>1, <2>1, SameAtMost DEF AwakeInv
  <2> QED BY <2>1, <2>2 DEF AwakeInv, AtMost
<1> QED BY <1>2, <1>3, <1>4, <1>5, <1>6, <1>7 DEF ETH_IRQHandler

\* The invariant holds throughout.
LEMMA DriverAwake == DriverSpec => [](RxInv /\ AwakeInv)
<1>1. DriverInit => AwakeInv
  <2> SUFFICES ASSUME RxInit PROVE AwakeInv
    BY DEF DriverInit
  <2>1. PICK n \in 0 .. ETH_RXBUFNB : RxRun(n)
    BY RxInitially DEF RxInv
  <2>2. /\ ETH_RXBUFNB \in Nat \ {0} /\ get = 0 /\ 0 \in 0 .. ETH_RXBUFNB - 1
        /\ Full = {} /\ Late \in Nat
    BY RxAssumption DEF RxInit, Full
  <2>3. ~(0 < n)
    BY <2>1, <2>2 DEF RxRun, Run
  <2>4. AtMost(Late)
    BY <2>1, <2>2, <2>3 DEF AtMost
  <2> QED BY <2>4 DEF RxInit, AwakeInv
<1>2. RxInv /\ TxTypeOK /\ AwakeInv /\ [DriverNext]_driverVars => AwakeInv'
  <2> SUFFICES ASSUME RxInv, AwakeInv, [DriverNext]_driverVars PROVE AwakeInv'
    OBVIOUS
  <2>1. CASE Arrive
    BY <2>1, ArriveAwake
  <2>2. CASE ETH_IRQHandler
    BY <2>2, HandlerAwake
  <2>3. CASE UNCHANGED rxVars
    <3>1. UNCHANGED <<desc, rxDma, get, rbus, nis, at, late>>
      BY <2>3 DEF rxVars, handler
    <3> QED BY <3>1 DEF AwakeInv, AtMost, RxRun, Run, Full
  <2> QED BY <2>1, <2>2, <2>3
      DEF DriverNext, driverVars, Wire, Handler, Reply, MainOutput, MainStep, TxEngine
<1> QED BY <1>1, <1>2, DriverAlwaysInv, PTL DEF DriverSpec

\* As long as fewer frames arrive between the handler's last look at the ring
\* and its return than the ring has descriptors, reception never falls asleep:
\* a full ring, whose RBUS raises no interrupt, and frames whose interrupt the
\* handler clears without having seen them, never come together.  This is the
\* safety part of StreamFlows.
THEOREM ReceptionStaysAwake ==
  ASSUME Late < ETH_RXBUFNB PROVE DriverSpec => []ListensWhenAsleep
<1>1. RxInv /\ AwakeInv => ListensWhenAsleep
  <2> SUFFICES ASSUME RxInv, AwakeInv, at = "idle", ~nis
               PROVE  ~rbus /\ desc[rxDma] = OWN
    BY DEF ListensWhenAsleep
  <2>1. PICK n \in 0 .. ETH_RXBUFNB : n <= Late /\ RxRun(n)
    BY DEF AwakeInv, AtMost
  <2>2. n \in 0 .. ETH_RXBUFNB - 1 /\ ~(n < n)
    BY <2>1, RxAssumption
  <2>3. rxDma \in RxRing /\ rxDma \notin Full
    BY <2>1, <2>2 DEF RxInv, RxTypeOK, RxRun, Run
  <2>4. desc[rxDma] = OWN
    BY <2>3 DEF Full
  <2> QED BY <2>3, <2>4 DEF AwakeInv
<1> QED BY <1>1, DriverAwake, PTL

-----------------------------------------------------------------------------
(* Nor does transmission.                                                  *)

\* The DMA stands at a frame whenever one is under way, and has stopped over it
\* only if ETH_Tx_Packet, which has set OWN, is about to resume it; as long as
\* no two hand-overs have been mixed.
RestsOnlyWhenDone ==
  ~mixed /\ (\E d \in TxRing : own[d]) => own[txDma] /\ (tbus => pc = "resume")

\* A DMA that has stopped has nothing to send until OWN is set.
RestInv == ~mixed /\ tbus /\ pc # "resume" => \A d \in TxRing : ~own[d]

\* If any frame is under way there is one where the DMA is.
LEMMA DmaAtFirst ==
  ASSUME TxInv, ~own[txDma]
  PROVE  \A d \in TxRing : ~own[d]
<1>1. PICK n \in 0 .. ETH_TXBUFNB : TxRun(n)
  BY DEF TxInv
<1>2. /\ ETH_TXBUFNB \in Nat \ {0} /\ txDma \in 0 .. ETH_TXBUFNB - 1
      /\ TxRing = 0 .. ETH_TXBUFNB - 1 /\ 0 \in 0 .. ETH_TXBUFNB - 1
  BY TxAssumption DEF TxInv, TxTypeOK, TxRing
<1>3. Run(ETH_TXBUFNB, txDma, n, Under)
  BY <1>1 DEF TxRun
<1>4. n = 0
  <2>1. Place(ETH_TXBUFNB, txDma, 0) = txDma
    BY <1>2, PlaceZero
  <2>2. txDma \notin Under
    BY DEF Under, UnderOf
  <2>3. ~(0 < n)
    BY <1>2, <1>3, <2>1, <2>2 DEF Run
  <2> QED BY <1>2, <2>3
<1>5. ASSUME NEW d \in TxRing PROVE d \notin Under
  <2> DEFINE k == IF txDma <= d THEN d - txDma ELSE d - txDma + ETH_TXBUFNB
  <2>1. /\ k \in 0 .. ETH_TXBUFNB - 1 /\ k \in 0 .. ETH_TXBUFNB /\ ~(k < 0)
        /\ (IF txDma + k < ETH_TXBUFNB THEN txDma + k ELSE txDma + k - ETH_TXBUFNB) = d
    BY <1>2
  <2> HIDE DEF k
  <2>2. Place(ETH_TXBUFNB, txDma, k) = d
    BY <1>2, <2>1, RingPlaces
  <2> QED BY <1>3, <1>4, <2>1, <2>2 DEF Run
<1> QED BY <1>5 DEF Under, UnderOf

\* Every step keeps it.
LEMMA RestStep ==
  ASSUME TxTypeOK, ~mixed => TxInv, RestInv, [DriverNext]_driverVars
  PROVE  RestInv'
<1> SUFFICES ASSUME ~mixed' PROVE RestInv'
  BY DEF RestInv
<1>0. ~mixed /\ TxInv
  BY RuledStep
<1>1. CASE UNCHANGED txVars
  BY <1>0, <1>1 DEF txVars, ring, engine, RestInv
<1>2. CASE Suspend
  <2>1. ~own[txDma] /\ UNCHANGED <<own, pc>>
    BY <1>2 DEF Suspend, ring
  <2>2. \A d \in TxRing : ~own[d]
    BY <1>0, <2>1, DmaAtFirst
  <2> QED BY <2>1, <2>2 DEF RestInv
<1>3. CASE Transmit \/ Resume
  <2>1. ~tbus'
    BY <1>3 DEF Transmit, Resume
  <2> QED BY <1>0, <2>1 DEF RestInv
<1>4. CASE SetOwn
  <2>1. pc' = "resume"
    BY <1>4 DEF SetOwn
  <2> QED BY <1>0, <2>1 DEF RestInv
<1>5. CASE Copy \/ Check \/ Advance
  <2>1. UNCHANGED <<own, tbus>> /\ pc # "resume"
    BY <1>5 DEF Copy, Check, Advance, ring, engine
  <2> QED BY <1>0, <2>1 DEF RestInv
<1>6. ASSUME NEW f \in Frames, Output(f) PROVE RestInv'
  <2>1. UNCHANGED <<own, tbus>> /\ pc # "resume"
    BY <1>6 DEF Output, ring, engine
  <2> QED BY <1>0, <2>1 DEF RestInv
<1>7. ASSUME NEW f \in Frames, IrqOutput(f) PROVE RestInv'
  <2>1. UNCHANGED <<own, tbus, pc>> \/ ~tbus'
    BY <1>7 DEF IrqOutput
  <2> QED BY <1>0, <2>1 DEF RestInv
<1> QED BY <1>1, <1>2, <1>3, <1>4, <1>5, <1>6, <1>7
    DEF DriverNext, driverVars, Wire, Handler, Reply, MainOutput, MainStep, Main, TxEngine

\* With any number of descriptors no accepted frame is left lying, as long as
\* no two hand-overs have been mixed: the DMA may stop at any moment of the
\* hand-over, before OWN is set or after it, the interrupt may send at any moment
\* before it, and ETH_Tx_Packet still resumes the DMA.  This is the safety part
\* of TxDrains.
THEOREM NoFrameIsLeft == DriverSpec => []RestsOnlyWhenDone
<1>1. DriverInit => RestInv
  BY DEF DriverInit, TxInit, RestInv
<1>2. TxTypeOK /\ (~mixed => TxInv) /\ RestInv /\ [DriverNext]_driverVars => RestInv'
  BY RestStep
<1>3. (~mixed => TxInv) /\ RestInv => RestsOnlyWhenDone
  BY DmaAtFirst DEF RestInv, RestsOnlyWhenDone
<1> QED BY <1>1, <1>2, <1>3, TxAlwaysInv, DriverAlwaysInv, PTL DEF DriverSpec
=============================================================================
