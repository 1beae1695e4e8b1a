----------------------------- MODULE ClientList -----------------------------
(***************************************************************************)
(* The client list under the calls the TCP server makes on it: a record is *)
(* allocated and appended when a client is accepted, removed when the      *)
(* client sends FIN, and removed (perhaps for the second time) and freed   *)
(* by the error callback.  Freed memory may come back holding anything.    *)
(***************************************************************************)
EXTENDS LinkedList

VARIABLES list,    \* m_tcpClientList and the ptr fields of all records
          heap,    \* the records currently allocated
          order    \* history: the records in the list, oldest first

listVars == <<list, heap, order>>

ListTypeOK ==
  /\ list \in HeadNode
  /\ heap \in SUBSET Nodes
  /\ order \in Seq(Nodes)

\* Memory is whatever it was; list_init has run on the static head.
ListInit ==
  /\ \E p, n \in [Cells -> Cells] :
       list = list_init([prev |-> p, next |-> n, len |-> 0])
  /\ heap = {}
  /\ order = <<>>

\* m_tcp_server_accept: mem_malloc, then list_append.
Accept(n) ==
  /\ n \notin heap
  /\ heap' = heap \cup {n}
  /\ list' = list_append(list, n)
  /\ order' = Append(order, n)

\* list_remove seen from outside: the node leaves the sequence, if there.
OrderAfterRemove(n, next) ==
  IF n \in Members(order)
  THEN \E k \in 1..Len(order) : order[k] = n /\ next = Without(order, k)
  ELSE next = order

\* m_tcp_server_recv with p = NULL: the client closed its side.
Disconnect(n) ==
  /\ n \in heap
  /\ list' = list_remove(list, n)
  /\ OrderAfterRemove(n, order')
  /\ UNCHANGED heap

\* m_tcp_server_error: list_remove, then mem_free.
Error(n) ==
  /\ n \in heap
  /\ list' = list_remove(list, n)
  /\ OrderAfterRemove(n, order')
  /\ heap' = heap \ {n}

\* Another user of the heap writes into memory that is not allocated.
Scribble(n, p, q) ==
  /\ n \notin heap
  /\ list' = [prev |-> [list.prev EXCEPT ![n] = p],
              next |-> [list.next EXCEPT ![n] = q],
              len  |-> list.len]
  /\ UNCHANGED <<heap, order>>

ListNext ==
  \E n \in Nodes :
    \/ Accept(n)
    \/ Disconnect(n)
    \/ Error(n)
    \/ \E p, q \in Cells : Scribble(n, p, q)

ListSpec == ListInit /\ [][ListNext]_listVars

-----------------------------------------------------------------------------
\* The list never holds memory that has been freed, and a record that is
\* allocated but not linked is detached, which is what makes the second
\* list_remove of the same client (FIN, then an error) harmless.
HeapConsistent ==
  /\ Members(order) \subseteq heap
  /\ \A n \in heap \ Members(order) : Detached(list, n)

\* The pointers spell the clients in the order they were accepted and len
\* is their number, whatever sequence of accepts, disconnects and errors
\* ran before: removing the oldest, the newest, a middle or the only node,
\* or a node that is no longer linked, leaves a well-formed ring.
ListWellFormed == Represents(list, order)

\* The result of list_remove is truthful: it reports a removal (returns 1)
\* exactly for the clients that are in the list.
RemoveIsTruthful ==
  \A n \in heap : Removes(list, n) <=> n \in Members(order)

\* What a reader of the list finds: the nodes met by following next from
\* the head, len times.
Contents(l) ==
  LET cell[i \in 0..l.len] == IF i = 0 THEN head ELSE l.next[cell[i - 1]]
  IN  [i \in 1..l.len |-> cell[i]]
=============================================================================
