-------------------------------- MODULE Key ---------------------------------
(***************************************************************************)
(* KEY_Scan(0) (HARDWARE/KEY/key.c): it looks at the keys, waits ten       *)
(* milliseconds for them to settle, and looks again.  The latch key_up     *)
(* makes it report a key that is held only once.                           *)
(***************************************************************************)
EXTENDS Naturals, Sequences

CONSTANTS Keys,      \* in the order in which KEY_Scan prefers them
          NoKey

Pins == {Keys[i] : i \in DOMAIN Keys}

ASSUME KeyAssumption == Keys \in Seq(Pins) /\ NoKey \notin Pins

VARIABLES
  down,      \* the keys held down: the world outside
  key_up,
  settling,  \* KEY_Scan is in delay_ms(10)
  key,       \* what it returned
  released   \* history: all keys were up at some time since the last report

keyVars == <<down, key_up, settling, key, released>>

KeyInit ==
  /\ down = {} /\ key_up = TRUE /\ settling = FALSE
  /\ key = NoKey /\ released = TRUE

\* A key goes down or up.
Toggle(k) ==
  /\ down' = (down \cup {k}) \ (down \cap {k})
  /\ released' = (released \/ down' = {})
  /\ UNCHANGED <<key_up, settling, key>>

\* Mutant: the latch opens as soon as KEY0 is up.
LookAny ==
  /\ ~settling
  /\ settling' = (key_up /\ down # {})
  /\ key_up' = (key_up \/ Keys[1] \notin down)
  /\ key' = NoKey
  /\ UNCHANGED <<down, released>>

\* The two tests on entry; without a delay KEY_Scan returns 0.
Look ==
  /\ ~settling
  /\ settling' = (key_up /\ down # {})
  /\ key_up' = (key_up \/ down = {})
  /\ key' = NoKey
  /\ UNCHANGED <<down, released>>

\* Mutant: the tests are in the opposite order.
SettleBackwards ==
  /\ settling /\ settling' = FALSE
  /\ key_up' = FALSE
  /\ \/ down = {} /\ key' = NoKey
     \/ \E i \in DOMAIN Keys :
          /\ Keys[i] \in down
          /\ \A j \in i + 1 .. Len(Keys) : Keys[j] \notin down
          /\ key' = Keys[i]
  /\ released' = (down = {})
  /\ UNCHANGED down

\* After the delay: the first key that is down now, if any.
Settle ==
  /\ settling /\ settling' = FALSE
  /\ key_up' = FALSE
  /\ \/ down = {} /\ key' = NoKey
     \/ \E i \in DOMAIN Keys :
          /\ Keys[i] \in down
          /\ \A j \in 1 .. i - 1 : Keys[j] \notin down
          /\ key' = Keys[i]
  /\ released' = (down = {})
  /\ UNCHANGED down
=============================================================================
