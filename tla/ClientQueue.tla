---------------------------- MODULE ClientQueue -----------------------------
(***************************************************************************)
(* What the client list promises: the clients in the order they joined, of *)
(* which any one can leave at any time and none is there twice.            *)
(***************************************************************************)
EXTENDS Sequences, Integers

CONSTANT Client

VARIABLE queue

Init == queue = <<>>

Join(c) ==
  /\ \A i \in 1..Len(queue) : queue[i] # c
  /\ queue' = Append(queue, c)

Leave(k) ==
  queue' = [i \in 1..(Len(queue) - 1) |->
              IF i < k THEN queue[i] ELSE queue[i + 1]]

Next == \/ \E c \in Client : Join(c)
        \/ \E k \in 1..Len(queue) : Leave(k)

Spec == Init /\ [][Next]_queue
=============================================================================
