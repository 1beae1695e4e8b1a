--------------------------- MODULE MainLoopProofs ---------------------------
(***************************************************************************)
(* Proofs about the main loop's clock and its key scan, for any number of  *)
(* timers and keys and any length of a turn that the wrap of the clock     *)
(* allows.                                                                 *)
(***************************************************************************)
EXTENDS MainLoop, TLAPS

\* Unsigned subtraction gives the ticks that have passed.
LEMMA WrappedDifference ==
  ASSUME NEW m \in Nat, NEW c \in Nat, NEW d \in Nat, NEW s \in Nat,
         s < m, c = d + s \/ c = d + s - m
  PROVE  (c + m - d) % m = s
  <1>1. c + m - d = s + m \/ c + m - d = s
    OBVIOUS
  <1>2. (s + m) % m = s /\ s % m = s
    OBVIOUS
  <1> QED
    BY <1>1, <1>2

\* The clock advances by one, and from its last value to 0.
LEMMA ClockSucc ==
  ASSUME NEW m \in Nat, NEW c \in 0 .. m - 1
  PROVE  (c + 1) % m = IF c + 1 = m THEN 0 ELSE c + 1
  OBVIOUS

-----------------------------------------------------------------------------
(* The clock.                                                              *)

\* The clock is ahead of a deadline by the ticks since its last call, but
\* for one wrap.
ClockExact ==
  \A t \in Timer : \/ lwip_localtime = deadline[t] + since[t]
                   \/ lwip_localtime = deadline[t] + since[t] - TimeMod

\* How late a timer may be: what it had left at the last test, the ticks of
\* this turn and, if it was not tested in this turn yet, of the one before.
Late(i) ==
  IF at > i THEN since[Timers[i]] < Interval[Timers[i]] + turn
  ELSE since[Timers[i]] < Interval[Timers[i]] + MaxTurn + turn

Lateness == \A i \in DOMAIN Timers : Late(i)

\* A test that has succeeded stays true until the call.
DueIsDue == due => at \in DOMAIN Timers /\ since[Timers[at]] >= Interval[Timers[at]]

ClockInv == TimersTypeOK /\ ClockExact /\ Lateness /\ DueIsDue

\* What the constants give for each timer.
LEMMA TimerFacts ==
  /\ Len(Timers) \in Nat /\ DOMAIN Timers = 1 .. Len(Timers)
  /\ TimeMod \in Nat /\ TimeMod > 0 /\ MaxTurn \in Nat
  /\ \A i \in DOMAIN Timers : i \in Nat /\ i <= Len(Timers) /\ Timers[i] \in Timer
  /\ \A t \in Timer : /\ Interval[t] \in Nat /\ Interval[t] > 0
                      /\ Interval[t] + 2 * MaxTurn < TimeMod
                      /\ \E i \in DOMAIN Timers : t = Timers[i]
  BY TimersAssumption DEF Timer

\* What the types give.
LEMMA ClockTypes ==
  ASSUME TimersTypeOK
  PROVE  /\ at \in Nat /\ at <= Len(Timers) + 1
         /\ turn \in Nat /\ turn <= MaxTurn
         /\ lwip_localtime \in Nat /\ lwip_localtime < TimeMod
         /\ \A t \in Timer : /\ since[t] \in Nat /\ deadline[t] \in Nat
                             /\ deadline[t] < TimeMod
  BY TimerFacts DEF TimersTypeOK

\* No timer is so late that the clock could have come round.
LEMMA SinceBelowWrap ==
  ASSUME ClockInv, NEW t \in Timer
  PROVE  since[t] < Interval[t] + 2 * MaxTurn /\ since[t] < TimeMod
  <1>1. PICK i \in DOMAIN Timers : t = Timers[i]
    BY TimerFacts
  <1>2. since[t] \in Nat /\ turn \in Nat /\ turn <= MaxTurn
    BY ClockTypes DEF ClockInv
  <1>3. Interval[t] \in Nat /\ MaxTurn \in Nat /\ TimeMod \in Nat
        /\ Interval[t] + 2 * MaxTurn < TimeMod
    BY TimerFacts
  <1>4. since[t] < Interval[t] + turn \/ since[t] < Interval[t] + MaxTurn + turn
    BY <1>1 DEF ClockInv, Lateness, Late
  <1> QED
    BY <1>2, <1>3, <1>4

LEMMA ClockImpliesOnTime == ClockInv => CalledOnTime
  BY SinceBelowWrap DEF ClockInv, DueIsDue, CalledOnTime

LEMMA ClockInitially == TimersInit => ClockInv
  <1> SUFFICES ASSUME TimersInit PROVE ClockInv
    OBVIOUS
  <1>1. TimersTypeOK
    <2>1. 0 \in 0 .. TimeMod - 1 /\ 0 \in 0 .. Len(Timers) + 1 /\ 0 \in 0 .. MaxTurn
      BY TimerFacts
    <2> QED
      BY <2>1 DEF TimersInit, TimersTypeOK
  <1>2. \A t \in Timer : deadline[t] = 0 /\ since[t] = 0
    BY DEF TimersInit
  <1>3. ClockExact
    BY <1>2 DEF ClockExact, TimersInit
  <1>4. Lateness
    <2> SUFFICES ASSUME NEW i \in DOMAIN Timers PROVE Late(i)
      BY DEF Lateness
    <2>1. since[Timers[i]] = 0 /\ Interval[Timers[i]] \in Nat /\ Interval[Timers[i]] > 0
      BY <1>2, TimerFacts
    <2> QED
      BY <2>1, TimerFacts DEF Late, TimersInit
  <1> QED
    BY <1>1, <1>3, <1>4 DEF ClockInv, DueIsDue, TimersInit

LEMMA ClockTick == ClockInv /\ TIM3_IRQHandler => ClockInv'
  <1> SUFFICES ASSUME ClockInv, TIM3_IRQHandler PROVE ClockInv'
    OBVIOUS
  <1> USE DEF TIM3_IRQHandler
  <1>1. lwip_localtime' = IF lwip_localtime + 1 = TimeMod THEN 0
                          ELSE lwip_localtime + 1
    BY ClockSucc, TimerFacts DEF ClockInv, TimersTypeOK
  <1>2. TimersTypeOK'
    BY <1>1, TimerFacts DEF ClockInv, TimersTypeOK
  <1>3. \A t \in Timer : since'[t] = since[t] + 1
    OBVIOUS
  <1>4. ClockExact'
    <2> SUFFICES ASSUME NEW t \in Timer
                 PROVE  \/ lwip_localtime' = deadline[t] + since'[t]
                        \/ lwip_localtime' = deadline[t] + since'[t] - TimeMod
      BY DEF ClockExact
    <2>1. /\ since[t] \in Nat /\ since[t] < TimeMod /\ deadline[t] \in Nat
          /\ deadline[t] < TimeMod /\ TimeMod \in Nat /\ lwip_localtime \in Nat
      BY ClockTypes, SinceBelowWrap, TimerFacts DEF ClockInv
    <2>2. \/ lwip_localtime = deadline[t] + since[t]
          \/ lwip_localtime = deadline[t] + since[t] - TimeMod
      BY DEF ClockInv, ClockExact
    <2>3. since'[t] = since[t] + 1
      BY <1>3
    <2> QED
      BY <1>1, <2>1, <2>2, <2>3
  <1>5. Lateness'
    <2> SUFFICES ASSUME NEW i \in DOMAIN Timers PROVE Late(i)'
      BY DEF Lateness
    <2>1. since'[Timers[i]] = since[Timers[i]] + 1 /\ turn' = turn + 1 /\ at' = at
      BY <1>3, TimerFacts
    <2>2. since[Timers[i]] \in Nat /\ turn \in Nat /\ MaxTurn \in Nat
          /\ Interval[Timers[i]] \in Nat
      BY ClockTypes, TimerFacts DEF ClockInv
    <2>3. Late(i)
      BY DEF ClockInv, Lateness
    <2> QED
      BY <2>1, <2>2, <2>3 DEF Late
  <1>6. DueIsDue'
    <2> SUFFICES ASSUME due PROVE DueIsDue'
      BY DEF DueIsDue
    <2>1. at \in DOMAIN Timers /\ since[Timers[at]] >= Interval[Timers[at]]
      BY DEF ClockInv, DueIsDue
    <2>2. since'[Timers[at]] = since[Timers[at]] + 1
          /\ since[Timers[at]] \in Nat /\ Interval[Timers[at]] \in Nat
      BY <2>1, <1>3, ClockTypes, TimerFacts DEF ClockInv
    <2> QED
      BY <2>1, <2>2 DEF DueIsDue
  <1> QED
    BY <1>2, <1>4, <1>5, <1>6 DEF ClockInv

LEMMA ClockEnter == ClockInv /\ lwip_periodic_handle => ClockInv'
  <1> SUFFICES ASSUME ClockInv, lwip_periodic_handle PROVE ClockInv'
    OBVIOUS
  <1> USE DEF lwip_periodic_handle
  <1>1. TimersTypeOK' /\ ClockExact'
    BY TimerFacts DEF ClockInv, TimersTypeOK, ClockExact
  <1>2. Lateness'
    <2> SUFFICES ASSUME NEW i \in DOMAIN Timers PROVE Late(i)'
      BY DEF Lateness
    <2>1. i \in Nat /\ i >= 1 /\ Late(i)
      BY TimerFacts DEF ClockInv, Lateness
    <2> QED
      BY <2>1 DEF Late
  <1>3. ~due
    BY TimerFacts DEF ClockInv, DueIsDue
  <1> QED
    BY <1>1, <1>2, <1>3 DEF ClockInv, DueIsDue

\* The test in u32 compares the ticks since the last call.
LEMMA ClockTest == ClockInv /\ Test => ClockInv'
  <1> SUFFICES ASSUME ClockInv, Test PROVE ClockInv'
    OBVIOUS
  <1>1. PICK t \in Timer : t = Timers[at]
    BY TimerFacts DEF Test
  <1>2. /\ since[t] \in Nat /\ since[t] < TimeMod /\ deadline[t] \in Nat
        /\ deadline[t] < TimeMod /\ TimeMod \in Nat /\ lwip_localtime \in Nat
        /\ Interval[t] \in Nat
    BY ClockTypes, SinceBelowWrap, TimerFacts DEF ClockInv
  <1>3. (lwip_localtime + TimeMod - deadline[t]) % TimeMod = since[t]
    <2>1. \/ lwip_localtime = deadline[t] + since[t]
          \/ lwip_localtime = deadline[t] + since[t] - TimeMod
      BY DEF ClockInv, ClockExact
    <2> QED
      BY <1>2, <2>1, WrappedDifference
  <1>4. ClockExact'
    BY DEF ClockInv, ClockExact, Test
  <1>5. CASE since[t] >= Interval[t]
    <2>1. due' /\ at' = at /\ at \in DOMAIN Timers
      BY <1>1, <1>3, <1>5 DEF Test
    <2>2. TimersTypeOK'
      BY <2>1 DEF ClockInv, TimersTypeOK, Test
    <2>3. Lateness'
      BY <2>1 DEF ClockInv, Lateness, Late, Test
    <2>4. DueIsDue'
      BY <2>1, <1>1, <1>5 DEF DueIsDue, Test
    <2> QED
      BY <1>4, <2>2, <2>3, <2>4 DEF ClockInv
  <1>6. CASE ~(since[t] >= Interval[t])
    <2>1. at' = at + 1 /\ ~due /\ ~due' /\ at \in DOMAIN Timers
      BY <1>1, <1>3, <1>6 DEF Test
    <2>2. TimersTypeOK'
      <3>1. at' \in 0 .. Len(Timers) + 1
        BY <2>1, TimerFacts
      <3> QED
        BY <2>1, <3>1 DEF ClockInv, TimersTypeOK, Test
    <2>3. Lateness'
      <3> SUFFICES ASSUME NEW i \in DOMAIN Timers PROVE Late(i)'
        BY DEF Lateness
      <3>1. since' = since /\ turn' = turn /\ turn \in Nat /\ at \in Nat /\ i \in Nat
        BY ClockTypes, TimerFacts DEF ClockInv, Test
      <3>2. CASE i = at
        BY <1>1, <1>2, <1>6, <2>1, <3>1, <3>2 DEF Late
      <3>3. CASE i # at
        <4>1. Late(i)
          BY DEF ClockInv, Lateness
        <4> QED
          BY <2>1, <3>1, <3>3, <4>1 DEF Late
      <3> QED
        BY <3>2, <3>3
    <2> QED
      BY <1>4, <2>1, <2>2, <2>3 DEF ClockInv, DueIsDue
  <1> QED
    BY <1>5, <1>6

LEMMA ClockCall == ClockInv /\ Call => ClockInv'
  <1> SUFFICES ASSUME ClockInv, Call PROVE ClockInv'
    OBVIOUS
  <1>1. at \in DOMAIN Timers
    BY DEF ClockInv, DueIsDue, Call
  <1>2. PICK t \in Timer : t = Timers[at]
    BY <1>1, TimerFacts
  <1>3. /\ deadline' = [deadline EXCEPT ![t] = lwip_localtime]
        /\ since' = [since EXCEPT ![t] = 0] /\ at' = at + 1 /\ ~due'
        /\ lwip_localtime' = lwip_localtime /\ turn' = turn
    BY <1>2 DEF Call
  <1>4. deadline \in [Timer -> 0 .. TimeMod - 1] /\ since \in [Timer -> Nat]
    BY DEF ClockInv, TimersTypeOK
  <1>5. /\ deadline'[t] = lwip_localtime /\ since'[t] = 0
        /\ \A u \in Timer \ {t} : deadline'[u] = deadline[u] /\ since'[u] = since[u]
    BY <1>3, <1>4
  <1>6. TimersTypeOK'
    <2>1. at' \in 0 .. Len(Timers) + 1
      BY <1>1, <1>3, TimerFacts
    <2>2. deadline' \in [Timer -> 0 .. TimeMod - 1] /\ since' \in [Timer -> Nat]
      BY <1>3, <1>4 DEF ClockInv, TimersTypeOK
    <2> QED
      BY <1>3, <2>1, <2>2 DEF ClockInv, TimersTypeOK, Call
  <1>7. ClockExact'
    <2> SUFFICES ASSUME NEW u \in Timer
                 PROVE  \/ lwip_localtime = deadline'[u] + since'[u]
                        \/ lwip_localtime = deadline'[u] + since'[u] - TimeMod
      BY <1>3 DEF ClockExact
    <2>1. CASE u = t
      BY <2>1, <1>5, ClockTypes DEF ClockInv
    <2>2. CASE u # t
      BY <2>2, <1>5 DEF ClockInv, ClockExact
    <2> QED
      BY <2>1, <2>2
  <1>8. Lateness'
    <2> SUFFICES ASSUME NEW i \in DOMAIN Timers PROVE Late(i)'
      BY DEF Lateness
    <2>1. /\ Interval[Timers[i]] \in Nat /\ Interval[Timers[i]] > 0 /\ i \in Nat
          /\ MaxTurn \in Nat /\ Timers[i] \in Timer /\ turn \in Nat /\ at \in Nat
      BY TimerFacts, ClockTypes DEF ClockInv
    <2>2. CASE Timers[i] = t
      BY <1>3, <1>5, <2>1, <2>2 DEF Late
    <2>3. CASE Timers[i] # t
      <3>1. since'[Timers[i]] = since[Timers[i]] /\ i # at
        BY <1>2, <1>5, <2>1, <2>3
      <3>2. Late(i)
        BY DEF ClockInv, Lateness
      <3> QED
        BY <1>3, <2>1, <3>1, <3>2 DEF Late
    <2> QED
      BY <2>2, <2>3
  <1> QED
    BY <1>3, <1>6, <1>7, <1>8 DEF ClockInv, DueIsDue

LEMMA ClockDone == ClockInv /\ HandleDone => ClockInv'
  <1> SUFFICES ASSUME ClockInv, HandleDone PROVE ClockInv'
    OBVIOUS
  <1> USE DEF HandleDone
  <1>1. TimersTypeOK' /\ ClockExact'
    BY TimerFacts DEF ClockInv, TimersTypeOK, ClockExact
  <1>2. Lateness'
    <2> SUFFICES ASSUME NEW i \in DOMAIN Timers PROVE Late(i)'
      BY DEF Lateness
    <2>1. /\ i \in Nat /\ i > 0 /\ at > i /\ Late(i) /\ since[Timers[i]] \in Nat
          /\ Interval[Timers[i]] \in Nat /\ turn \in Nat /\ turn <= MaxTurn
          /\ MaxTurn \in Nat
      BY TimerFacts, ClockTypes DEF ClockInv, Lateness
    <2> QED
      BY <2>1 DEF Late
  <1>3. ~due
    BY TimerFacts DEF ClockInv, DueIsDue
  <1> QED
    BY <1>1, <1>2, <1>3 DEF ClockInv, DueIsDue

LEMMA ClockStutter == ClockInv /\ UNCHANGED timerVars => ClockInv'
  BY DEF ClockInv, TimersTypeOK, ClockExact, Lateness, Late, DueIsDue, timerVars

-----------------------------------------------------------------------------
(* The loop.                                                               *)

\* The latch is open, or the scan in its delay, only if all keys were up at
\* some time since the last report.
LatchIsHonest == key_up \/ settling \/ down = {} => released

LoopInv == ClockInv /\ LoopTypeOK /\ LatchIsHonest

\* A step of the key scan keeps the types of its variables.
KeyTypeOK ==
  /\ down \subseteq Pins /\ key_up \in BOOLEAN /\ settling \in BOOLEAN
  /\ key \in Pins \cup {NoKey} /\ released \in BOOLEAN

LEMMA KeyTypeStep ==
  ASSUME KeyTypeOK, Look \/ Settle \/ (\E k \in Pins : Toggle(k)) \/ UNCHANGED keyVars
  PROVE  KeyTypeOK'
  <1>1. CASE Look
    BY <1>1 DEF KeyTypeOK, Look
  <1>2. CASE Settle
    BY <1>2 DEF KeyTypeOK, Settle, Pins
  <1>3. CASE \E k \in Pins : Toggle(k)
    BY <1>3 DEF KeyTypeOK, Toggle
  <1>4. CASE UNCHANGED keyVars
    BY <1>4 DEF KeyTypeOK, keyVars
  <1> QED
    BY <1>1, <1>2, <1>3, <1>4

\* The latch opens only when all keys are up, and closes with each report.
LEMMA LatchStep ==
  ASSUME KeyTypeOK, LatchIsHonest,
         Look \/ Settle \/ (\E k \in Pins : Toggle(k)) \/ UNCHANGED keyVars
  PROVE  LatchIsHonest'
  <1> USE DEF KeyTypeOK, LatchIsHonest
  <1>1. CASE Look
    BY <1>1 DEF Look
  <1>2. CASE Settle
    BY <1>2 DEF Settle
  <1>3. CASE \E k \in Pins : Toggle(k)
    <2>1. released' = (released \/ down' = {}) /\ UNCHANGED <<key_up, settling>>
      BY <1>3 DEF Toggle
    <2>2. CASE down' = {}
      BY <2>1, <2>2
    <2>3. CASE down' # {}
      <3>1. released' = released
        BY <2>1, <2>3
      <3> QED
        BY <2>1, <2>3, <3>1
    <2> QED
      BY <2>2, <2>3
  <1>4. CASE UNCHANGED keyVars
    BY <1>4 DEF keyVars
  <1> QED
    BY <1>1, <1>2, <1>3, <1>4

\* What a step of the loop does to the clock and to the key scan.
LEMMA StepParts ==
  ASSUME [LoopNext]_loopVars
  PROVE  /\ \/ TIM3_IRQHandler \/ lwip_periodic_handle \/ Test \/ Call \/ HandleDone
            \/ UNCHANGED timerVars
         /\ \/ Look \/ Settle \/ (\E k \in Pins : Toggle(k)) \/ UNCHANGED keyVars
  BY DEF LoopNext, Main, ScanLook, ScanSettle, Periodic, loopVars

LEMMA ClockInvariant == ClockInv /\ [LoopNext]_loopVars => ClockInv'
  BY StepParts, ClockTick, ClockEnter, ClockTest, ClockCall, ClockDone, ClockStutter

\* Where the loop is, the timers and the scan agree on.
PlaceOK ==
  /\ pc \in {"scan", "switch", "handle"}
  /\ (at # 0) = (pc = "handle") /\ (settling => pc = "scan")

LEMMA PlaceStep == ClockInv /\ KeyTypeOK /\ PlaceOK /\ [LoopNext]_loopVars => PlaceOK'
  <1> SUFFICES ASSUME ClockInv, KeyTypeOK, PlaceOK, [LoopNext]_loopVars
               PROVE  PlaceOK'
    OBVIOUS
  <1> USE DEF PlaceOK
  <1>1. at \in Nat /\ (due => at > 0)
    BY ClockTypes, TimerFacts DEF ClockInv, DueIsDue
  <1>2. CASE ScanLook
    BY <1>2 DEF ScanLook, Look, timerVars, KeyTypeOK
  <1>3. CASE ScanSettle
    BY <1>3 DEF ScanSettle, Settle, timerVars
  <1>4. CASE pc = "switch" /\ lwip_periodic_handle /\ pc' = "handle" /\ UNCHANGED keyVars
    BY <1>4 DEF lwip_periodic_handle, keyVars
  <1>5. CASE pc = "handle" /\ (Test \/ Call) /\ UNCHANGED <<keyVars, pc>>
    BY <1>1, <1>5 DEF Test, Call, keyVars
  <1>6. CASE pc = "handle" /\ HandleDone /\ pc' = "scan" /\ UNCHANGED keyVars
    BY <1>6 DEF HandleDone, keyVars
  <1>7. CASE TIM3_IRQHandler /\ UNCHANGED <<keyVars, pc>>
    BY <1>7 DEF TIM3_IRQHandler, keyVars
  <1>8. CASE \E k \in Pins : Toggle(k) /\ UNCHANGED <<timerVars, pc>>
    BY <1>8 DEF Toggle, timerVars
  <1>9. CASE UNCHANGED loopVars
    BY <1>9 DEF loopVars, timerVars, keyVars
  <1> QED
    BY <1>2, <1>3, <1>4, <1>5, <1>6, <1>7, <1>8, <1>9 DEF LoopNext, Main, Periodic

LEMMA LoopTypeParts == LoopTypeOK <=> TimersTypeOK /\ KeyTypeOK /\ PlaceOK
  BY DEF LoopTypeOK, KeyTypeOK, PlaceOK

LEMMA LoopInitially == LoopInit => LoopInv
  <1> SUFFICES ASSUME LoopInit PROVE LoopInv
    OBVIOUS
  <1>1. ClockInv
    BY ClockInitially DEF LoopInit
  <1>2. KeyTypeOK /\ LatchIsHonest
    BY DEF LoopInit, KeyInit, KeyTypeOK, LatchIsHonest
  <1>3. PlaceOK
    BY DEF LoopInit, TimersInit, KeyInit, PlaceOK
  <1> QED
    BY <1>1, <1>2, <1>3, LoopTypeParts DEF LoopInv, ClockInv

LEMMA LoopInvariant == LoopInv /\ [LoopNext]_loopVars => LoopInv'
  <1> SUFFICES ASSUME LoopInv, [LoopNext]_loopVars PROVE LoopInv'
    OBVIOUS
  <1>1. ClockInv /\ KeyTypeOK /\ PlaceOK /\ LatchIsHonest
    BY LoopTypeParts DEF LoopInv
  <1>2. ClockInv'
    BY <1>1, ClockInvariant
  <1>3. KeyTypeOK'
    BY <1>1, StepParts, KeyTypeStep
  <1>4. LatchIsHonest'
    BY <1>1, StepParts, LatchStep
  <1>5. PlaceOK'
    BY <1>1, PlaceStep
  <1> QED
    BY <1>2, <1>3, <1>4, <1>5 DEF LoopInv, ClockInv, LoopTypeOK, KeyTypeOK, PlaceOK

-----------------------------------------------------------------------------
\* The main loop's variables keep their types: the clock stays in its range
\* and no deadline outside the table is looked at.
THEOREM LoopTypeCorrect == LoopSpec => []LoopTypeOK
  <1>1. LoopInv => LoopTypeOK
    BY DEF LoopInv
  <1> QED
    BY <1>1, LoopInitially, LoopInvariant, PTL DEF LoopSpec

\* lwip_periodic_handle calls each timer neither early nor later than two
\* turns of the main loop, for any intervals that leave the clock room.
THEOREM TimersOnTime == LoopSpec => []CalledOnTime
  <1>1. LoopInv => CalledOnTime
    BY ClockImpliesOnTime DEF LoopInv
  <1> QED
    BY <1>1, LoopInitially, LoopInvariant, PTL DEF LoopSpec

\* KEY_Scan reports a press once, for any number of keys.
THEOREM PressReportedOnce == LoopSpec => OneReportPerPress
  <1>1. LoopInv => (settling /\ ~settling' /\ key' # NoKey => released)
    BY DEF LoopInv, LatchIsHonest
  <1> QED
    BY <1>1, LoopInitially, LoopInvariant, PTL DEF LoopSpec, OneReportPerPress
=============================================================================
