------------------------------ MODULE MCTcpTmr ------------------------------
(***************************************************************************)
(* Three connections, so that a walk has one on each side of the one it    *)
(* stands on, and pass numbers that come round every three passes.          *)
(***************************************************************************)
EXTENDS TcpTmr

CONSTANTS p1, p2, p3

\* The search follows a behaviour to the end of the pass in which an
\* interrupt first hit a window: the properties are about what holds as long
\* as none did.
ThroughTornPass == torn => pc \notin {"idle", "fastdone"}
=============================================================================
