----------------------------- MODULE EthFrames ------------------------------
(***************************************************************************)
(* What EthRx and EthTx share: frames, of which only the identity matters. *)
(***************************************************************************)
EXTENDS Naturals, Sequences

CONSTANT Frames   \* contents of a frame
=============================================================================
