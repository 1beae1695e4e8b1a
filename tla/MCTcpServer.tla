---------------------------- MODULE MCTcpServer -----------------------------
(* Two or three records for two connections: records and pcbs are recycled *)
(* independently of each other, and the heap can run out before the pcbs.  *)
EXTENDS TcpServer

CONSTANTS p1, p2, i1, i2, i3
=============================================================================
