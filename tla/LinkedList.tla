----------------------------- MODULE LinkedList -----------------------------
(***************************************************************************)
(* The intrusive circular doubly linked list of                            *)
(* project/SYSTEM/container/linked_list.c, as operators on a list value.   *)
(* A cell is the PtrDomain embedded in a client record (a member of Nodes) *)
(* or in the HeadNode (head).  A list value holds the two pointer fields   *)
(* of every cell and the HeadNode's len.                                   *)
(***************************************************************************)
EXTENDS Integers, Sequences, FiniteSets

CONSTANTS Nodes,  \* the records that can be linked
          head    \* the HeadNode

ASSUME HeadAssumption == head \notin Nodes

Cells == Nodes \cup {head}

HeadNode == [prev : [Cells -> Cells], next : [Cells -> Cells], len : Int]

-----------------------------------------------------------------------------
(* The operations.  Each field is assigned in the order of the C code, so  *)
(* aliased cells (rear = head, prev = next) get the value assigned last.   *)

\* What list_init leaves: the head linked to itself.  The other cells keep
\* what they held.
list_init(l) ==
  [prev |-> [l.prev EXCEPT ![head] = head],
   next |-> [l.next EXCEPT ![head] = head],
   len  |-> 0]

\* Mutant of list_append: rear->next is not assigned.
AppendUnlinked(l, n) ==
  [prev |-> [l.prev EXCEPT ![n] = l.prev[head], ![head] = n],
   next |-> [l.next EXCEPT ![n] = head],
   len  |-> l.len + 1]

list_append(l, n) ==
  LET rear == l.prev[head]
  IN  [prev |-> [l.prev EXCEPT ![n] = rear, ![head] = n],
       next |-> [l.next EXCEPT ![rear] = n, ![n] = head],
       len  |-> l.len + 1]

list_size(l) == l.len

\* Mutant of the early returns: the self-link test is dropped.
RemovesAny(l, n) == l.len > 0

\* list_remove returns 1 exactly when this holds of its arguments; when it
\* does not, the list is left alone.
Removes(l, n) == l.len > 0 /\ ~(l.prev[n] = n /\ l.next[n] = n)

\* Mutant of list_remove: the removed node keeps its old pointers.
RemoveKeepsLinks(l, n) ==
  IF Removes(l, n)
  THEN [prev |-> [l.prev EXCEPT ![l.next[n]] = l.prev[n]],
        next |-> [l.next EXCEPT ![l.prev[n]] = l.next[n]],
        len  |-> l.len - 1]
  ELSE l

list_remove(l, n) ==
  IF Removes(l, n)
  THEN [prev |-> [l.prev EXCEPT ![l.next[n]] = l.prev[n], ![n] = n],
        next |-> [l.next EXCEPT ![l.prev[n]] = l.next[n], ![n] = n],
        len  |-> l.len - 1]
  ELSE l

-----------------------------------------------------------------------------
(* What the pointers are supposed to mean.                                 *)

\* The i-th cell of the ring that starts and ends at the head and passes
\* through the nodes of q in order.
Ring(q, i) == IF i \in 1..Len(q) THEN q[i] ELSE head

\* l is the linked form of the sequence q: walking next from the head, or
\* prev backwards, visits exactly q, each node once, and len counts it.
Represents(l, q) ==
  /\ l.len = Len(q)
  /\ \A i \in 0..Len(q) : /\ l.next[Ring(q, i)] = Ring(q, i + 1)
                          /\ l.prev[Ring(q, i + 1)] = Ring(q, i)
  /\ \A i, j \in 1..Len(q) : q[i] = q[j] => i = j

\* A node that list_remove has taken out is linked to itself.
Detached(l, n) == l.prev[n] = n /\ l.next[n] = n

\* q without its k-th element.
Without(q, k) == [i \in 1..(Len(q) - 1) |-> IF i < k THEN q[i] ELSE q[i + 1]]

\* The members of q.
Members(q) == {q[i] : i \in 1..Len(q)}
=============================================================================
