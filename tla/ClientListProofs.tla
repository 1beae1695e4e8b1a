-------------------------- MODULE ClientListProofs --------------------------
(***************************************************************************)
(* The client list stays well formed for any number of client records and  *)
(* any sequence of accepts, disconnects and errors.                        *)
(*                                                                         *)
(* ListWellFormed alone is not inductive: removing a client a second time  *)
(* is harmless only because the first removal left it detached, and an     *)
(* accepted record is outside the ring only because the ring holds no      *)
(* freed memory.  Both are HeapConsistent.                                 *)
(***************************************************************************)
EXTENDS ClientList, WellFoundedInduction, TLAPS

-----------------------------------------------------------------------------
(* What list_append and list_remove do to a well-formed list of any length.*)

\* The ring of q consists of cells.
LEMMA RingType ==
  ASSUME NEW q \in Seq(Nodes), NEW i \in Int
  PROVE  Ring(q, i) \in Cells
BY DEF Ring, Cells

\* Two positions of the ring hold the same cell only if they are equal or
\* both are the head.
LEMMA RingInjective ==
  ASSUME NEW q \in Seq(Nodes), NEW i \in Int, NEW j \in Int,
         \A a, b \in 1..Len(q) : q[a] = q[b] => a = b,
         Ring(q, i) = Ring(q, j)
  PROVE  i = j \/ (i \notin 1..Len(q) /\ j \notin 1..Len(q))
<1>1. \A a \in 1..Len(q) : q[a] \in Nodes
  OBVIOUS
<1> QED BY <1>1, HeadAssumption DEF Ring

\* Both operations return list values.
LEMMA OperationsType ==
  ASSUME NEW l \in HeadNode, NEW n \in Nodes
  PROVE  /\ list_append(l, n) \in HeadNode
         /\ list_remove(l, n) \in HeadNode
<1>1. /\ n \in Cells /\ head \in Cells
      /\ l.prev \in [Cells -> Cells] /\ l.next \in [Cells -> Cells]
      /\ l.len \in Int
  BY DEF HeadNode, Cells
<1>2. list_append(l, n) \in HeadNode
  BY <1>1 DEF list_append, HeadNode
<1>3. list_remove(l, n) \in HeadNode
  <2>1. CASE Removes(l, n)
    BY <1>1, <2>1 DEF list_remove, HeadNode
  <2>2. CASE ~Removes(l, n)
    BY <2>2 DEF list_remove
  <2> QED BY <2>1, <2>2
<1> QED BY <1>2, <1>3

\* list_append on a list that holds q, with a node that is not in it, gives
\* a list that holds q followed by the node.
LEMMA AppendRepresents ==
  ASSUME NEW l \in HeadNode, NEW q \in Seq(Nodes), NEW n \in Nodes,
         Represents(l, q), n \notin Members(q)
  PROVE  Represents(list_append(l, n), Append(q, n))
<1> DEFINE r == Append(q, n)
           m == list_append(l, n)
           L == Len(q)
<1>1. /\ L \in Nat /\ r \in Seq(Nodes) /\ Len(r) = L + 1
      /\ \A i \in 1..L : r[i] = q[i] /\ q[i] \in Nodes /\ q[i] # n
      /\ r[L + 1] = n
  BY DEF Members
<1>2. /\ n \in Cells /\ head \in Cells /\ n # head
      /\ l.prev \in [Cells -> Cells] /\ l.next \in [Cells -> Cells]
      /\ l.len \in Int
  BY HeadAssumption DEF HeadNode, Cells
<1>3. /\ \A i \in 0..L : Ring(r, i) = Ring(q, i)
      /\ Ring(r, L + 1) = n /\ Ring(r, L + 2) = head
      /\ Ring(q, 0) = head /\ Ring(q, L + 1) = head
  BY <1>1 DEF Ring
<1>4. \A i \in 0..L : Ring(q, i) \in Cells /\ Ring(q, i) # n
  BY <1>1, <1>2, RingType DEF Ring
<1>5. /\ l.len = L
      /\ \A i \in 0..L : /\ l.next[Ring(q, i)] = Ring(q, i + 1)
                         /\ l.prev[Ring(q, i + 1)] = Ring(q, i)
      /\ \A i, j \in 1..L : q[i] = q[j] => i = j
  BY DEF Represents
<1>6. l.prev[head] = Ring(q, L)
  BY <1>1, <1>3, <1>5
<1>7. /\ m.len = l.len + 1
      /\ m.prev = [l.prev EXCEPT ![n] = Ring(q, L), ![head] = n]
      /\ m.next = [l.next EXCEPT ![Ring(q, L)] = n, ![n] = head]
  BY <1>6 DEF list_append
<1>8. \A i \in 0..L : i < L => Ring(q, i) # Ring(q, L)
  BY <1>1, <1>5, RingInjective
<1>9. ASSUME NEW i \in 0..(L + 1)
      PROVE  /\ m.next[Ring(r, i)] = Ring(r, i + 1)
             /\ m.prev[Ring(r, i + 1)] = Ring(r, i)
  <2>1. CASE i < L
    <3>1. Ring(r, i) = Ring(q, i) /\ Ring(r, i + 1) = Ring(q, i + 1)
      BY <1>1, <1>3, <2>1
    <3>2. Ring(q, i + 1) # head
      BY <1>1, <1>2, <2>1, HeadAssumption DEF Ring
    <3>3. m.next[Ring(q, i)] = l.next[Ring(q, i)]
      BY <1>1, <1>2, <1>4, <1>7, <1>8, <2>1
    <3>4. m.prev[Ring(q, i + 1)] = l.prev[Ring(q, i + 1)]
      BY <1>1, <1>2, <1>4, <1>7, <3>2, <2>1
    <3> QED BY <1>1, <1>5, <3>1, <3>3, <3>4, <2>1
  <2>2. CASE i = L
    <3>1. Ring(r, i) = Ring(q, L) /\ Ring(r, i + 1) = n
      BY <1>1, <1>3, <2>2
    <3>2. m.next[Ring(q, L)] = n
      BY <1>1, <1>2, <1>4, <1>7
    <3>3. m.prev[n] = Ring(q, L)
      BY <1>1, <1>2, <1>7
    <3> QED BY <3>1, <3>2, <3>3
  <2>3. CASE i = L + 1
    <3>1. Ring(r, i) = n /\ Ring(r, i + 1) = head
      BY <1>1, <1>3, <2>3
    <3> QED BY <1>1, <1>2, <1>4, <1>7, <3>1
  <2> QED BY <1>1, <2>1, <2>2, <2>3
<1>10. ASSUME NEW i \in 1..(L + 1), NEW j \in 1..(L + 1), r[i] = r[j]
       PROVE  i = j
  <2> HIDE DEF r, L
  <2>1. CASE i \in 1..L /\ j \in 1..L
    BY <1>1, <1>5, <1>10, <2>1
  <2>2. CASE i \notin 1..L \/ j \notin 1..L
    BY <1>1, <1>10, <2>2
  <2> QED BY <2>1, <2>2
<1> QED BY <1>1, <1>5, <1>7, <1>9, <1>10 DEF Represents

\* Appending adds one member.
LEMMA AppendMembers ==
  ASSUME NEW q \in Seq(Nodes), NEW n \in Nodes
  PROVE  Members(Append(q, n)) = Members(q) \cup {n}
<1> DEFINE r == Append(q, n)
<1>1. /\ Len(r) = Len(q) + 1 /\ Len(q) \in Nat
      /\ \A i \in 1..Len(q) : r[i] = q[i]
      /\ r[Len(q) + 1] = n
  OBVIOUS
<1>2. 1..Len(r) = 1..Len(q) \cup {Len(q) + 1}
  BY <1>1
<1> QED BY <1>1, <1>2 DEF Members

\* Removing the k-th element of q gives a sequence of the other elements.
LEMMA WithoutType ==
  ASSUME NEW q \in Seq(Nodes), NEW k \in 1..Len(q),
         \A i, j \in 1..Len(q) : q[i] = q[j] => i = j
  PROVE  /\ Without(q, k) \in Seq(Nodes)
         /\ Len(Without(q, k)) = Len(q) - 1
         /\ \A i \in 1..(Len(q) - 1) :
              Without(q, k)[i] = IF i < k THEN q[i] ELSE q[i + 1]
         /\ \A i, j \in 1..(Len(q) - 1) :
              Without(q, k)[i] = Without(q, k)[j] => i = j
         /\ Members(Without(q, k)) = Members(q) \ {q[k]}
<1> DEFINE L == Len(q)
           w == Without(q, k)
<1>1. L \in Nat /\ k \in Nat /\ 1 <= k /\ k <= L
  OBVIOUS
<1>2. \A i \in 1..L : q[i] \in Nodes
  OBVIOUS
<1>3. w = [i \in 1..(L - 1) |-> IF i < k THEN q[i] ELSE q[i + 1]]
  BY DEF Without
<1>4. \A i \in 1..(L - 1) : w[i] = IF i < k THEN q[i] ELSE q[i + 1]
  BY <1>3
<1>5. \A i \in 1..(L - 1) : w[i] \in Nodes
  BY <1>1, <1>2, <1>4
<1>6. w \in Seq(Nodes) /\ Len(w) = L - 1
  <2>1. w \in [1..(L - 1) -> Nodes]
    BY <1>3, <1>5
  <2>2. L - 1 \in Nat
    BY <1>1
  <2> QED BY <2>1, <2>2
<1>7. \A i, j \in 1..(L - 1) : w[i] = w[j] => i = j
  <2> HIDE DEF w, L
  <2> SUFFICES ASSUME NEW i \in 1..(L - 1), NEW j \in 1..(L - 1), w[i] = w[j]
               PROVE  i = j
    OBVIOUS
  <2>1. \A a, b \in 1..L : q[a] = q[b] => a = b
    BY DEF L
  <2>2. CASE i < k /\ j < k
    BY <1>1, <1>4, <2>1, <2>2
  <2>3. CASE i < k /\ j >= k
    BY <1>1, <1>4, <2>1, <2>3
  <2>4. CASE i >= k /\ j < k
    BY <1>1, <1>4, <2>1, <2>4
  <2>5. CASE i >= k /\ j >= k
    BY <1>1, <1>4, <2>1, <2>5
  <2> QED BY <1>1, <2>2, <2>3, <2>4, <2>5
<1>8. Members(w) = Members(q) \ {q[k]}
  <2> HIDE DEF w, L
  <2>1. /\ \A a, b \in 1..L : q[a] = q[b] => a = b
        /\ Members(q) = {q[i] : i \in 1..L}
        /\ Members(w) = {w[i] : i \in 1..(L - 1)}
    BY <1>6 DEF L, Members
  <2>2. ASSUME NEW i \in 1..(L - 1)
        PROVE  w[i] \in Members(q) /\ w[i] # q[k]
    <3>1. CASE i < k
      BY <1>1, <1>4, <2>1, <3>1
    <3>2. CASE i >= k
      BY <1>1, <1>4, <2>1, <3>2
    <3> QED BY <1>1, <3>1, <3>2
  <2>3. ASSUME NEW i \in 1..L, q[i] # q[k]
        PROVE  q[i] \in Members(w)
    <3>1. CASE i < k
      <4>1. i \in 1..(L - 1) /\ w[i] = q[i]
        BY <1>1, <1>4, <3>1
      <4> QED BY <4>1, <2>1
    <3>2. CASE i > k
      <4>1. i - 1 \in 1..(L - 1) /\ w[i - 1] = q[i]
        BY <1>1, <1>4, <3>2
      <4> QED BY <4>1, <2>1
    <3> QED BY <1>1, <2>3, <3>1, <3>2
  <2> QED BY <2>1, <2>2, <2>3
<1> QED BY <1>4, <1>6, <1>7, <1>8

\* list_remove on the k-th node of the list takes out that node, reports
\* the removal, and leaves the node detached.
LEMMA RemoveRepresents ==
  ASSUME NEW l \in HeadNode, NEW q \in Seq(Nodes), NEW k \in 1..Len(q),
         Represents(l, q)
  PROVE  /\ Removes(l, q[k])
         /\ Represents(list_remove(l, q[k]), Without(q, k))
         /\ Detached(list_remove(l, q[k]), q[k])
<1> DEFINE L == Len(q)
           n == q[k]
           w == Without(q, k)
           m == list_remove(l, n)
<1>1. L \in Nat /\ k \in Nat /\ 1 <= k /\ k <= L /\ n \in Nodes
  OBVIOUS
<1>2. /\ l.len = L
      /\ \A i \in 0..L : /\ l.next[Ring(q, i)] = Ring(q, i + 1)
                         /\ l.prev[Ring(q, i + 1)] = Ring(q, i)
      /\ \A i, j \in 1..L : q[i] = q[j] => i = j
  BY DEF Represents
<1>3. /\ n \in Cells /\ head \in Cells /\ n # head
      /\ l.prev \in [Cells -> Cells] /\ l.next \in [Cells -> Cells]
  BY <1>1, HeadAssumption DEF HeadNode, Cells
<1>4. \A i \in Int : Ring(q, i) \in Cells
  BY RingType
<1>5. Ring(q, k) = n
  BY <1>1 DEF Ring
<1>6. l.next[n] = Ring(q, k + 1) /\ l.prev[n] = Ring(q, k - 1)
  <2>1. k \in 0..L /\ k - 1 \in 0..L /\ (k - 1) + 1 = k
    BY <1>1
  <2> QED BY <1>2, <1>5, <2>1
<1>7. Ring(q, k - 1) # n /\ Ring(q, k + 1) # n
  <2>1. k - 1 \in Int /\ k + 1 \in Int /\ k \in 1..L
    BY <1>1
  <2>2. Ring(q, k - 1) # Ring(q, k)
    BY <1>1, <1>2, <2>1, RingInjective
  <2>3. Ring(q, k + 1) # Ring(q, k)
    BY <1>1, <1>2, <2>1, RingInjective
  <2> QED BY <1>5, <2>2, <2>3
<1>8. Removes(l, n)
  BY <1>1, <1>2, <1>6, <1>7 DEF Removes
<1>9. /\ m.len = l.len - 1
      /\ m.prev = [l.prev EXCEPT ![Ring(q, k + 1)] = Ring(q, k - 1), ![n] = n]
      /\ m.next = [l.next EXCEPT ![Ring(q, k - 1)] = Ring(q, k + 1), ![n] = n]
  BY <1>6, <1>8 DEF list_remove
<1>10. /\ w \in Seq(Nodes) /\ Len(w) = L - 1
       /\ \A i \in 1..(L - 1) : w[i] = IF i < k THEN q[i] ELSE q[i + 1]
       /\ \A i, j \in 1..(L - 1) : w[i] = w[j] => i = j
  BY <1>2, WithoutType
<1> HIDE DEF L, n, w, m
<1>11. \A i \in 0..L : Ring(w, i) = IF i < k THEN Ring(q, i) ELSE Ring(q, i + 1)
  <2> SUFFICES ASSUME NEW i \in 0..L
               PROVE  Ring(w, i) = IF i < k THEN Ring(q, i) ELSE Ring(q, i + 1)
    OBVIOUS
  <2>1. CASE i \in 1..(L - 1)
    BY <1>1, <1>10, <2>1 DEF Ring, L
  <2>2. CASE i = 0
    BY <1>1, <1>10, <2>2 DEF Ring, L
  <2>3. CASE i = L
    BY <1>1, <1>10, <2>3 DEF Ring, L
  <2> QED BY <1>1, <2>1, <2>2, <2>3
<1>12. ASSUME NEW i \in 0..(L - 1)
       PROVE  /\ m.next[Ring(w, i)] = Ring(w, i + 1)
              /\ m.prev[Ring(w, i + 1)] = Ring(w, i)
  <2>1. i \in 0..L /\ i + 1 \in 0..L /\ i \in Int /\ i + 1 \in Int
        /\ i + 2 \in Int /\ k - 1 \in Int /\ k + 1 \in Int
    BY <1>1
  <2>2. CASE i + 1 < k
    <3>1. Ring(w, i) = Ring(q, i) /\ Ring(w, i + 1) = Ring(q, i + 1)
      BY <1>1, <1>11, <2>1, <2>2
    <3>2. Ring(q, i) # n /\ Ring(q, i + 1) # n
      BY <1>1, <1>2, <1>5, <2>1, <2>2, RingInjective DEF L
    <3>3. Ring(q, i) # Ring(q, k - 1)
      BY <1>1, <1>2, <2>1, <2>2, RingInjective DEF L
    <3>4. Ring(q, i + 1) # Ring(q, k + 1)
      BY <1>1, <1>2, <2>1, <2>2, RingInjective DEF L
    <3> QED BY <1>2, <1>3, <1>4, <1>9, <2>1, <3>1, <3>2, <3>3, <3>4
  <2>3. CASE i + 1 = k
    <3>1. i = k - 1 /\ i < k /\ (i + 1) + 1 = k + 1
      BY <1>1, <2>3
    <3>2. Ring(w, i) = Ring(q, k - 1) /\ Ring(w, i + 1) = Ring(q, k + 1)
      BY <1>1, <1>11, <2>1, <2>3, <3>1
    <3> QED BY <1>3, <1>4, <1>7, <1>9, <2>1, <3>2
  <2>4. CASE i >= k
    <3>1. Ring(w, i) = Ring(q, i + 1) /\ Ring(w, i + 1) = Ring(q, i + 2)
      BY <1>1, <1>11, <2>1, <2>4
    <3>2. Ring(q, i + 1) # n /\ Ring(q, i + 2) # n
      BY <1>1, <1>2, <1>5, <2>1, <2>4, RingInjective DEF L
    <3>3. Ring(q, i + 1) # Ring(q, k - 1)
      BY <1>1, <1>2, <2>1, <2>4, RingInjective DEF L
    <3>4. Ring(q, i + 2) # Ring(q, k + 1)
      BY <1>1, <1>2, <2>1, <2>4, RingInjective DEF L
    <3>5. /\ l.next[Ring(q, i + 1)] = Ring(q, i + 2)
          /\ l.prev[Ring(q, i + 2)] = Ring(q, i + 1)
      <4>1. (i + 1) + 1 = i + 2
        BY <2>1
      <4> QED BY <1>2, <2>1, <4>1
    <3> QED BY <1>3, <1>4, <1>9, <2>1, <3>1, <3>2, <3>3, <3>4, <3>5
  <2> QED BY <1>1, <2>2, <2>3, <2>4
<1>13. m.next[n] = n /\ m.prev[n] = n
  BY <1>3, <1>9
<1> QED BY <1>1, <1>2, <1>8, <1>9, <1>10, <1>12, <1>13
        DEF Represents, Detached, L, n, w, m

\* list_remove on a detached node changes nothing.
LEMMA RemoveDetached ==
  ASSUME NEW l, NEW n, Detached(l, n)
  PROVE  ~Removes(l, n) /\ list_remove(l, n) = l
BY DEF Detached, Removes, list_remove

\* A detached node is not in the list.
LEMMA DetachedNotMember ==
  ASSUME NEW l \in HeadNode, NEW q \in Seq(Nodes), Represents(l, q),
         NEW d, Detached(l, d)
  PROVE  d \notin Members(q)
<1> SUFFICES ASSUME NEW k \in 1..Len(q), d = q[k]
             PROVE  FALSE
  BY DEF Members
<1>1. Removes(l, d)
  BY RemoveRepresents
<1> QED BY <1>1, RemoveDetached

\* Neither operation touches a detached node other than the one it is
\* applied to, provided that one is not linked into foreign memory.
LEMMA DetachedStays ==
  ASSUME NEW l \in HeadNode, NEW q \in Seq(Nodes), Represents(l, q),
         NEW d \in Nodes, Detached(l, d), NEW n \in Nodes, n # d
  PROVE  /\ Detached(list_append(l, n), d)
         /\ n \in Members(q) \/ Detached(l, n) => Detached(list_remove(l, n), d)
<1> DEFINE L == Len(q)
<1>1. /\ d \in Cells /\ n \in Cells /\ head \in Cells /\ d # head
      /\ l.prev \in [Cells -> Cells] /\ l.next \in [Cells -> Cells]
      /\ L \in Nat
  BY HeadAssumption DEF HeadNode, Cells
<1>2. \A i \in Int : Ring(q, i) # d
  BY DetachedNotMember, HeadAssumption DEF Ring, Members
<1>3. \A i \in 0..L : /\ l.next[Ring(q, i)] = Ring(q, i + 1)
                      /\ l.prev[Ring(q, i + 1)] = Ring(q, i)
  BY DEF Represents
<1>4. Detached(list_append(l, n), d)
  <2>1. l.prev[head] = Ring(q, L)
    BY <1>1, <1>3 DEF Ring
  <2>2. l.prev[head] # d
    BY <1>1, <1>2, <2>1
  <2> QED BY <1>1, <2>2 DEF list_append, Detached
<1>5. ASSUME n \in Members(q)
      PROVE  Detached(list_remove(l, n), d)
  <2>1. PICK k \in 1..L : q[k] = n
    BY <1>5 DEF Members
  <2>2. k \in 0..L /\ k - 1 \in 0..L /\ (k - 1) + 1 = k /\ Ring(q, k) = n
    BY <1>1, <2>1 DEF Ring
  <2>3. l.next[n] = Ring(q, k + 1) /\ l.prev[n] = Ring(q, k - 1)
    BY <1>3, <2>2
  <2>4. l.next[n] # d /\ l.prev[n] # d
    BY <1>1, <1>2, <2>1, <2>3
  <2> QED BY <1>1, <2>4 DEF list_remove, Detached
<1>6. ASSUME Detached(l, n)
      PROVE  Detached(list_remove(l, n), d)
  BY <1>6, RemoveDetached
<1> QED BY <1>4, <1>5, <1>6

-----------------------------------------------------------------------------
(* The calls the server makes.                                             *)

ListIInv == ListTypeOK /\ ListWellFormed /\ HeapConsistent

\* The list that list_init leaves is well formed and empty.
LEMMA ListInitIInv == ListInit => ListIInv
<1> SUFFICES ASSUME ListInit PROVE ListIInv
  OBVIOUS
<1>1. PICK p \in [Cells -> Cells], n \in [Cells -> Cells] :
        list = list_init([prev |-> p, next |-> n, len |-> 0])
  BY DEF ListInit
<1>2. /\ list.prev = [p EXCEPT ![head] = head]
      /\ list.next = [n EXCEPT ![head] = head]
      /\ list.len = 0 /\ list \in HeadNode
  BY <1>1 DEF list_init, HeadNode, Cells
<1>3. heap = {} /\ order = <<>> /\ Len(order) = 0 /\ order \in Seq(Nodes)
  BY DEF ListInit
<1>4. ListTypeOK
  BY <1>2, <1>3 DEF ListTypeOK
<1>5. list.prev[head] = head /\ list.next[head] = head
  BY <1>2 DEF Cells
<1>6. Represents(list, order)
  BY <1>2, <1>3, <1>5 DEF Represents, Ring
<1>7. HeapConsistent
  BY <1>3 DEF HeapConsistent, Members
<1> QED BY <1>4, <1>6, <1>7 DEF ListIInv, ListWellFormed

\* The common part of Disconnect and Error: list_remove on an allocated
\* record, linked or not, keeps the ring and leaves the record detached and
\* out of the order.
LEMMA RemoveStep ==
  ASSUME ListIInv, NEW n \in heap, NEW o, OrderAfterRemove(n, o)
  PROVE  /\ list_remove(list, n) \in HeadNode
         /\ o \in Seq(Nodes)
         /\ Represents(list_remove(list, n), o)
         /\ Members(o) = Members(order) \ {n}
         /\ Detached(list_remove(list, n), n)
         /\ \A d \in heap \ Members(order) : Detached(list_remove(list, n), d)
<1>1. /\ list \in HeadNode /\ order \in Seq(Nodes) /\ n \in Nodes
      /\ heap \subseteq Nodes /\ Represents(list, order)
      /\ \A d \in heap \ Members(order) : Detached(list, d)
  BY DEF ListIInv, ListTypeOK, ListWellFormed, HeapConsistent
<1>2. list_remove(list, n) \in HeadNode
  BY <1>1, OperationsType
<1>3. n \in Members(order) \/ Detached(list, n)
  BY <1>1
<1>4. CASE n \in Members(order)
  <2>1. PICK k \in 1..Len(order) : order[k] = n /\ o = Without(order, k)
    BY <1>4 DEF OrderAfterRemove
  <2>2. \A i, j \in 1..Len(order) : order[i] = order[j] => i = j
    BY <1>1 DEF Represents
  <2>3. o \in Seq(Nodes) /\ Members(o) = Members(order) \ {n}
    BY <1>1, <2>1, <2>2, WithoutType
  <2>4. /\ Represents(list_remove(list, n), o)
        /\ Detached(list_remove(list, n), n)
    BY <1>1, <2>1, RemoveRepresents
  <2>5. ASSUME NEW d \in heap \ Members(order)
        PROVE  Detached(list_remove(list, n), d)
    BY <1>1, <1>4, DetachedStays
  <2> QED BY <1>2, <2>3, <2>4, <2>5
<1>5. CASE n \notin Members(order)
  <2>1. o = order /\ list_remove(list, n) = list /\ Detached(list, n)
    BY <1>3, <1>5, RemoveDetached DEF OrderAfterRemove
  <2> QED BY <1>1, <1>5, <2>1
<1> QED BY <1>4, <1>5

\* Every call the server makes on the list preserves the invariant.
LEMMA ListNextIInv == ListIInv /\ [ListNext]_listVars => ListIInv'
<1> SUFFICES ASSUME ListIInv, [ListNext]_listVars PROVE ListIInv'
  OBVIOUS
<1> USE DEF ListIInv
<1>1. /\ list \in HeadNode /\ order \in Seq(Nodes) /\ heap \subseteq Nodes
      /\ Represents(list, order) /\ Members(order) \subseteq heap
      /\ \A d \in heap \ Members(order) : Detached(list, d)
  BY DEF ListTypeOK, ListWellFormed, HeapConsistent
<1>2. ASSUME NEW n \in Nodes, Accept(n) PROVE ListIInv'
  <2>1. /\ n \notin heap /\ heap' = heap \cup {n}
        /\ list' = list_append(list, n) /\ order' = Append(order, n)
    BY <1>2 DEF Accept
  <2>2. n \notin Members(order)
    BY <1>1, <2>1
  <2>3. ListTypeOK'
    BY <1>1, <2>1, OperationsType DEF ListTypeOK
  <2>4. ListWellFormed'
    BY <1>1, <2>1, <2>2, AppendRepresents DEF ListWellFormed
  <2>5. Members(order') = Members(order) \cup {n}
    BY <1>1, <2>1, AppendMembers
  <2>6. ASSUME NEW d \in heap' \ Members(order') PROVE Detached(list', d)
    <3>1. d \in heap \ Members(order) /\ d # n
      BY <2>1, <2>5, <2>6
    <3> QED BY <1>1, <2>1, <3>1, DetachedStays
  <2>7. HeapConsistent'
    BY <1>1, <2>1, <2>5, <2>6 DEF HeapConsistent
  <2> QED BY <2>3, <2>4, <2>7
<1>3. ASSUME NEW n \in Nodes, Disconnect(n) PROVE ListIInv'
  <2>1. /\ n \in heap /\ heap' = heap /\ list' = list_remove(list, n)
        /\ OrderAfterRemove(n, order')
    BY <1>3 DEF Disconnect
  <2>2. /\ list' \in HeadNode /\ order' \in Seq(Nodes)
        /\ Represents(list', order') /\ Members(order') = Members(order) \ {n}
        /\ Detached(list', n)
        /\ \A d \in heap \ Members(order) : Detached(list', d)
    BY <2>1, RemoveStep
  <2> QED BY <1>1, <2>1, <2>2 DEF ListTypeOK, ListWellFormed, HeapConsistent
<1>4. ASSUME NEW n \in Nodes, Error(n) PROVE ListIInv'
  <2>1. /\ n \in heap /\ heap' = heap \ {n} /\ list' = list_remove(list, n)
        /\ OrderAfterRemove(n, order')
    BY <1>4 DEF Error
  <2>2. /\ list' \in HeadNode /\ order' \in Seq(Nodes)
        /\ Represents(list', order') /\ Members(order') = Members(order) \ {n}
        /\ \A d \in heap \ Members(order) : Detached(list', d)
    BY <2>1, RemoveStep
  <2> QED BY <1>1, <2>1, <2>2 DEF ListTypeOK, ListWellFormed, HeapConsistent
<1>5. ASSUME NEW n \in Nodes, NEW p \in Cells, NEW q \in Cells, Scribble(n, p, q)
      PROVE  ListIInv'
  <2>1. /\ n \notin heap /\ heap' = heap /\ order' = order
        /\ list' = [prev |-> [list.prev EXCEPT ![n] = p],
                    next |-> [list.next EXCEPT ![n] = q],
                    len  |-> list.len]
    BY <1>5 DEF Scribble
  <2>2. /\ list.prev \in [Cells -> Cells] /\ list.next \in [Cells -> Cells]
        /\ list.len \in Int /\ n \in Cells
    BY <1>1 DEF HeadNode, Cells
  <2>3. /\ list' \in HeadNode /\ list'.len = list.len
        /\ list'.prev = [list.prev EXCEPT ![n] = p]
        /\ list'.next = [list.next EXCEPT ![n] = q]
    BY <1>1, <2>1, <2>2 DEF HeadNode
  <2>4. \A c \in Cells : c # n => /\ list'.prev[c] = list.prev[c]
                                  /\ list'.next[c] = list.next[c]
    BY <2>2, <2>3
  <2>5. \A i \in Int : Ring(order, i) \in Cells /\ Ring(order, i) # n
    BY <1>1, <2>1, RingType, HeadAssumption DEF Ring, Members
  <2>6. Represents(list', order')
    BY <1>1, <2>1, <2>3, <2>4, <2>5 DEF Represents
  <2>7. \A d \in heap : d \in Cells /\ d # n
    BY <1>1, <2>1 DEF Cells
  <2>8. \A d \in heap \ Members(order) : Detached(list', d)
    BY <1>1, <2>4, <2>7 DEF Detached
  <2> QED BY <1>1, <2>1, <2>3, <2>6, <2>8
          DEF ListTypeOK, ListWellFormed, HeapConsistent
<1>6. CASE UNCHANGED listVars
  BY <1>1, <1>6 DEF listVars, ListTypeOK, ListWellFormed, HeapConsistent
<1> QED BY <1>2, <1>3, <1>4, <1>5, <1>6 DEF ListNext

\* Whatever the server does, the pointers of linked_list.c spell the clients
\* in the order they were accepted and len is their number.
THEOREM ListStaysWellFormed == ListSpec => []ListWellFormed
<1>1. ListIInv => ListWellFormed
  BY DEF ListIInv
<1> QED BY <1>1, ListInitIInv, ListNextIInv, PTL DEF ListSpec

\* No freed record is linked, and every allocated record that is not linked
\* is detached.
THEOREM ListStaysHeapConsistent == ListSpec => []HeapConsistent
<1>1. ListIInv => HeapConsistent
  BY DEF ListIInv
<1> QED BY <1>1, ListInitIInv, ListNextIInv, PTL DEF ListSpec

\* In a consistent list, list_remove removes exactly the members.
LEMMA IInvTruthful == ASSUME ListIInv PROVE RemoveIsTruthful
<1>1. /\ list \in HeadNode /\ order \in Seq(Nodes)
      /\ Represents(list, order) /\ Members(order) \subseteq heap
      /\ \A d \in heap \ Members(order) : Detached(list, d)
  BY DEF ListIInv, ListTypeOK, ListWellFormed, HeapConsistent
<1>2. ASSUME NEW n \in Members(order) PROVE Removes(list, n)
  BY <1>1, RemoveRepresents DEF Members
<1>3. ASSUME NEW n \in heap \ Members(order) PROVE ~Removes(list, n)
  BY <1>1, RemoveDetached
<1> QED BY <1>2, <1>3 DEF RemoveIsTruthful

\* list_remove returns 1 exactly for the clients in the list, so a second
\* removal of the same client is a no-op.
THEOREM RemoveStaysTruthful == ListSpec => []RemoveIsTruthful
<1>1. ListIInv => RemoveIsTruthful
  BY IInvTruthful
<1> QED BY <1>1, ListInitIInv, ListNextIInv, PTL DEF ListSpec

-----------------------------------------------------------------------------
(* What a reader of the list finds.  Contents is a recursive function; what*)
(* it computes is shown by looking at the least place where it could go    *)
(* wrong.                                                                  *)

\* A set of naturals that is not empty has a least member.
LEMMA LeastNat ==
  ASSUME NEW T, T \subseteq Nat, T # {}
  PROVE  \E x \in T : \A y \in T : ~(y < x)
<1>1. IsWellFoundedOn(OpToRel(<, Nat), Nat)
  BY NatLessThanWellFounded
<1>2. PICK x \in T : \A y \in T : ~(<<y, x>> \in OpToRel(<, Nat))
  BY <1>1, WFMin
<1>3. \A y \in T : <<y, x>> \in OpToRel(<, Nat) <=> y < x
  BY DEF OpToRel
<1> QED BY <1>2, <1>3

\* What it takes for g to be the walk that Contents makes.
IsWalk(l, g) ==
  g = [i \in 0..l.len |-> IF i = 0 THEN head ELSE l.next[g[i - 1]]]

\* Following next from the head, len times, spells the sequence.
LEMMA ContentsRepresented ==
  ASSUME NEW l \in HeadNode, NEW q \in Seq(Nodes), Represents(l, q)
  PROVE  Contents(l) = q
<1>1. /\ l.len = Len(q) /\ Len(q) \in Nat
      /\ \A i \in 0..Len(q) : l.next[Ring(q, i)] = Ring(q, i + 1)
  BY DEF Represents
<1> DEFINE f == [i \in 0..Len(q) |-> Ring(q, i)]
           g == CHOOSE h : IsWalk(l, h)
<1>2. IsWalk(l, f)
  <2>1. f[0] = head
    BY <1>1 DEF Ring
  <2>2. ASSUME NEW i \in 0..Len(q), i # 0
        PROVE  f[i] = l.next[f[i - 1]]
    <3>1. i - 1 \in 0..Len(q) /\ (i - 1) + 1 = i
      BY <1>1, <2>2
    <3> QED BY <1>1, <3>1
  <2>3. f = [i \in 0..Len(q) |-> f[i]]
    OBVIOUS
  <2>4. \A i \in 0..Len(q) : f[i] = IF i = 0 THEN head ELSE l.next[f[i - 1]]
    BY <2>1, <2>2
  <2> HIDE DEF f
  <2> QED BY <1>1, <2>3, <2>4 DEF IsWalk
<1>3. IsWalk(l, g)
  BY <1>2
<1>4. Contents(l) = [i \in 1..l.len |-> g[i]]
  BY DEF Contents, IsWalk
<1> HIDE DEF f, g
<1>5. /\ g[0] = head
      /\ \A i \in 0..Len(q) : i # 0 => g[i] = l.next[g[i - 1]]
  <2>1. PICK h : h = [i \in 0..Len(q) |-> IF i = 0 THEN head ELSE l.next[g[i - 1]]]
    OBVIOUS
  <2>2. g = h
    BY <1>1, <1>3, <2>1, Zenon DEF IsWalk
  <2>3. /\ h[0] = head
        /\ \A i \in 0..Len(q) : i # 0 => h[i] = l.next[g[i - 1]]
    BY <1>1, <2>1
  <2> QED BY <2>2, <2>3, Zenon
<1>6. ASSUME NEW k \in 0..Len(q), g[k] # Ring(q, k)
      PROVE  FALSE
  <2> DEFINE T == {i \in 0..Len(q) : g[i] # Ring(q, i)}
  <2>1. T \subseteq Nat /\ T # {}
    BY <1>1, <1>6
  <2>2. PICK x \in T : \A y \in T : ~(y < x)
    BY <2>1, LeastNat
  <2>3. x # 0
    BY <1>1, <1>5 DEF Ring
  <2>4. x - 1 \in 0..Len(q) /\ x - 1 < x /\ (x - 1) + 1 = x
    BY <1>1, <2>3
  <2>5. g[x - 1] = Ring(q, x - 1)
    BY <2>2, <2>4
  <2>6. g[x] = Ring(q, x)
    BY <1>1, <1>5, <2>3, <2>4, <2>5
  <2> QED BY <2>6
<1>7. \A i \in 1..Len(q) : g[i] = q[i]
  BY <1>1, <1>6 DEF Ring
<1>8. q = [i \in 1..Len(q) |-> q[i]]
  OBVIOUS
<1> QED BY <1>1, <1>4, <1>7, <1>8
=============================================================================
