--------------------------- MODULE PeriodicTimers ---------------------------
(***************************************************************************)
(* The clock of the stack: TIM3's interrupt advances lwip_localtime, and   *)
(* lwip_periodic_handle (lwip_comm.c) compares it with one deadline after  *)
(* the other.  One unit is a tick of TIM3.  lwip_localtime is a u32 that   *)
(* wraps; it is read once in the test and again when the deadline is set.  *)
(***************************************************************************)
EXTENDS Naturals, Sequences

CONSTANTS Timers,      \* the deadlines, in the order of the function
          Interval,    \* [timer -> interval]
          TimeMod,     \* lwip_localtime counts modulo this
          MaxTurn      \* bound: ticks within one turn of the main loop

Timer == {Timers[i] : i \in DOMAIN Timers}

ASSUME TimersAssumption ==
  /\ Timers \in Seq(Timer)
  /\ Interval \in [Timer -> Nat \ {0}]
  /\ TimeMod \in Nat \ {0} /\ MaxTurn \in Nat
  /\ \A t \in Timer : Interval[t] + 2 * MaxTurn < TimeMod

VARIABLES
  lwip_localtime,
  deadline,    \* TCPTimer, ARPTimer, ...
  at,          \* the test the main loop is at; 0 outside lwip_periodic_handle
  due,         \* ... which has succeeded
  turn,        \* ticks in this turn of the main loop
  since        \* history: ticks since the last call

timerVars == <<lwip_localtime, deadline, at, due, turn, since>>

TimersInit ==
  /\ lwip_localtime = 0 /\ deadline = [t \in Timer |-> 0]
  /\ at = 0 /\ due = FALSE
  /\ turn = 0 /\ since = [t \in Timer |-> 0]

\* Mutant: the clock does not wrap.
TIM3_NoWrap ==
  /\ turn < MaxTurn
  /\ turn' = turn + 1
  /\ lwip_localtime' = lwip_localtime + 1
  /\ since' = [t \in Timer |-> since[t] + 1]
  /\ UNCHANGED <<deadline, at, due>>

\* lwip_localtime += 10
TIM3_IRQHandler ==
  /\ turn < MaxTurn
  /\ turn' = turn + 1
  /\ lwip_localtime' = (lwip_localtime + 1) % TimeMod
  /\ since' = [t \in Timer |-> since[t] + 1]
  /\ UNCHANGED <<deadline, at, due>>

lwip_periodic_handle ==
  /\ at = 0 /\ at' = 1
  /\ UNCHANGED <<lwip_localtime, deadline, due, turn, since>>

\* Mutant: the sum is compared, as if the clock did not wrap.
TestSum ==
  /\ at \in DOMAIN Timers /\ ~due
  /\ LET t == Timers[at]
     IN  IF lwip_localtime >= deadline[t] + Interval[t]
         THEN due' = TRUE /\ UNCHANGED at
         ELSE at' = at + 1 /\ UNCHANGED due
  /\ UNCHANGED <<lwip_localtime, deadline, turn, since>>

\* if (lwip_localtime - TCPTimer >= TCP_TMR_INTERVAL), in u32
Test ==
  /\ at \in DOMAIN Timers /\ ~due
  /\ LET t == Timers[at]
     IN  IF (lwip_localtime + TimeMod - deadline[t]) % TimeMod >= Interval[t]
         THEN due' = TRUE /\ UNCHANGED at
         ELSE at' = at + 1 /\ UNCHANGED due
  /\ UNCHANGED <<lwip_localtime, deadline, turn, since>>

\* TCPTimer = lwip_localtime; tcp_tmr();
Call ==
  /\ due /\ due' = FALSE
  /\ LET t == Timers[at]
     IN  /\ deadline' = [deadline EXCEPT ![t] = lwip_localtime]
         /\ since' = [since EXCEPT ![t] = 0]
  /\ at' = at + 1
  /\ UNCHANGED <<lwip_localtime, turn>>

\* It returns, and the main loop begins its next turn.
HandleDone ==
  /\ at = Len(Timers) + 1 /\ at' = 0
  /\ turn' = 0
  /\ UNCHANGED <<lwip_localtime, deadline, due, since>>

-----------------------------------------------------------------------------
TimersTypeOK ==
  /\ lwip_localtime \in 0 .. TimeMod - 1
  /\ deadline \in [Timer -> 0 .. TimeMod - 1]
  /\ at \in 0 .. Len(Timers) + 1 /\ due \in BOOLEAN
  /\ turn \in 0 .. MaxTurn /\ since \in [Timer -> Nat]

\* tcp_tmr, etharp_tmr and the DHCP timers are called neither before their
\* interval has passed nor later than the turns of the main loop make them,
\* also across the wrap of lwip_localtime.
CalledOnTime ==
  /\ due => since[Timers[at]] >= Interval[Timers[at]]
  /\ \A t \in Timer : since[t] < Interval[t] + 2 * MaxTurn
=============================================================================
