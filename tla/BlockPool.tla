----------------------------- MODULE BlockPool ------------------------------
(***************************************************************************)
(* What project/MALLOC/malloc.c promises its callers, without the table it *)
(* keeps: a request for n blocks is answered with the highest place where  *)
(* they fit, is refused only when there is none, and disturbs nobody.      *)
(***************************************************************************)
EXTENDS PoolBlocks

VARIABLES runs,   \* the runs that callers hold
          want,   \* blocks asked for by the call in progress, 0 if none
          ret     \* what the last allocation returned

vars == <<runs, want, ret>>

Init == runs = {} /\ want = 0 /\ ret = FAIL

Request == want = 0 /\ want' \in Nat /\ UNCHANGED <<runs, ret>>

Grant(o) ==
  /\ want > 0
  /\ IsPlace(runs, want, o)
  /\ runs' = runs \cup {[off |-> o, n |-> want]}
  /\ want' = 0
  /\ ret' = o

Refuse ==
  /\ Fits(runs, want) = {} \/ want = 0
  /\ want' = 0
  /\ ret' = FAIL
  /\ UNCHANGED runs

Release(r) ==
  /\ want = 0
  /\ runs' = runs \ {r}
  /\ UNCHANGED <<want, ret>>

Next ==
  \/ Request
  \/ \E o \in Table : Grant(o)
  \/ Refuse
  \/ \E r \in runs : Release(r)

Spec == Init /\ [][Next]_vars
=============================================================================
