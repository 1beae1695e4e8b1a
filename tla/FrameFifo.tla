----------------------------- MODULE FrameFifo ------------------------------
(***************************************************************************)
(* What a ring of Ethernet descriptors promises, on either side: frames    *)
(* come out in the order they went in, each once, and no more than Cap of  *)
(* them are inside.                                                        *)
(***************************************************************************)
EXTENDS Sequences, Naturals

CONSTANTS Cap, Frames

VARIABLE queue

Init == queue = <<>>

Put(f) == Len(queue) < Cap /\ queue' = Append(queue, f)

Take == queue # <<>> /\ queue' = Tail(queue)

Next == Take \/ \E f \in Frames : Put(f)

Spec == Init /\ [][Next]_queue
=============================================================================
