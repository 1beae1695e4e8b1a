----------------------------- MODULE MCMyMalloc -----------------------------
(***************************************************************************)
(* A pool of six blocks of two bytes; requests from nothing to one block   *)
(* more than there is.                                                     *)
(***************************************************************************)
EXTENDS MyMalloc

MCSizes == {0, 1, 2, 3, 5, 7, 12, 13}
=============================================================================
