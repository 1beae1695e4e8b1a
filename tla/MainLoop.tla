------------------------------ MODULE MainLoop ------------------------------
(***************************************************************************)
(* The endless loop of tcp_udp_test: KEY_Scan, the broadcast if it was     *)
(* KEY0, lwip_periodic_handle, delay_ms(2).  Keys and TIM3 go on all the   *)
(* time.  What the broadcast and the timers do is in TcpServer, TcpTmr,    *)
(* Arp and Dhcp; here they only take time.                                 *)
(***************************************************************************)
EXTENDS PeriodicTimers, Key

VARIABLE pc      \* the place in the loop

loopVars == <<timerVars, keyVars, pc>>

LoopInit == TimersInit /\ KeyInit /\ pc = "scan"

\* KEY_Scan(0), up to its delay or to its end.
ScanLook ==
  /\ pc = "scan" /\ Look
  /\ pc' = IF settling' THEN "scan" ELSE "switch"
  /\ UNCHANGED timerVars

ScanSettle ==
  /\ pc = "scan" /\ Settle /\ pc' = "switch"
  /\ UNCHANGED timerVars

\* The switch on its result, and lwip_periodic_handle from beginning to end.
Periodic ==
  \/ pc = "switch" /\ lwip_periodic_handle /\ pc' = "handle" /\ UNCHANGED keyVars
  \/ pc = "handle" /\ (Test \/ Call) /\ UNCHANGED <<keyVars, pc>>
  \/ pc = "handle" /\ HandleDone /\ pc' = "scan" /\ UNCHANGED keyVars

Main == ScanLook \/ ScanSettle \/ Periodic

LoopNext == \/ Main
            \/ TIM3_IRQHandler /\ UNCHANGED <<keyVars, pc>>
            \/ \E k \in Pins : Toggle(k) /\ UNCHANGED <<timerVars, pc>>

\* The processor goes on; nobody has to press a key.
LoopSpec == LoopInit /\ [][LoopNext]_loopVars /\ WF_loopVars(Main)

-----------------------------------------------------------------------------
LoopTypeOK ==
  /\ TimersTypeOK
  /\ down \subseteq Pins /\ key_up \in BOOLEAN /\ settling \in BOOLEAN
  /\ key \in Pins \cup {NoKey} /\ released \in BOOLEAN
  /\ pc \in {"scan", "switch", "handle"}
  /\ (at # 0) = (pc = "handle") /\ (settling => pc = "scan")

\* One press, one broadcast: between two reports of KEY_Scan there was a
\* moment at which all keys were up, however they are pressed, bounce and
\* are released while it waits or while the rest of the loop runs.
OneReportPerPress ==
  [][settling /\ ~settling' /\ key' # NoKey => released]_loopVars

\* With the latch open, a KEY0 that is held is reported, whatever other keys
\* do: the broadcast cannot be starved.
HeldIsReported ==
  key_up /\ Keys[1] \in down ~> key = Keys[1] \/ Keys[1] \notin down
=============================================================================
