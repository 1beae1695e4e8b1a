----------------------------- MODULE MCEthernet -----------------------------
(* Two kinds of frames, so that an order can be told from its reverse.     *)
EXTENDS EthDriver

CONSTANTS f1, f2

\* Once both contexts have handed a descriptor over at the same time nothing is
\* said of transmission any more: such a state is checked, and nothing after it.
UntilMixed == ~mixed
=============================================================================
