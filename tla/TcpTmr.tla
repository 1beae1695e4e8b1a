------------------------------- MODULE TcpTmr -------------------------------
(***************************************************************************)
(* lwIP's TCP timers (core/tcp.c): tcp_tmr walks the list tcp_active_pcbs  *)
(* in the main loop, tcp_fasttmr each time and tcp_slowtmr every second    *)
(* time, while the Ethernet interrupt puts connections on that list, takes *)
(* them off and moves the one a segment is for to the front.               *)
(*                                                                         *)
(* A walk keeps pointers into the list between two of its steps, and tells *)
(* what it has done from what it has not by a u8 pass number, which wraps. *)
(* Neither walk survives everything: torn records that an interrupt hit    *)
(* one of the windows named in FrontTears, PcbTears and Overdue.           *)
(*                                                                         *)
(* m_tcp_server_recv takes all data, so refused_data is never set, and the *)
(* server never closes first, so tcp_tw_pcbs stays empty.  The server's    *)
(* error and poll callbacks leave the list alone.                          *)
(***************************************************************************)
EXTENDS Naturals, FiniteSets

CONSTANTS Pcbs,
          NULL,
          CtrMod        \* tcp_timer_ctr counts modulo this (256)

ASSUME TcpTmrAssumption ==
  /\ IsFiniteSet(Pcbs) /\ NULL \notin Pcbs
  /\ CtrMod \in Nat /\ CtrMod > 2

VARIABLES
  tcp_active_pcbs,          \* the head of the list
  next,
  last_timer,
  tcp_timer_ctr,
  tcp_timer,                \* its lowest bit
  tcp_active_pcbs_changed,
  pc, pcb, prev,            \* the main loop's place and its two pointers
  nxt,                      \* pcb->next, loaded for the store of an unlinking
  active,                   \* history: the connections that should be listed
  owed,                     \* ... those to serve in the pass under way
  torn                      \* ... an interrupt hit a window of a walk

walk == <<pc, pcb, prev, nxt>>
history == <<active, owed, torn>>
tmrVars == <<tcp_active_pcbs, next, last_timer, tcp_timer_ctr, tcp_timer,
             tcp_active_pcbs_changed, walk, history>>

MaybePcb == Pcbs \cup {NULL}

TmrInit ==
  /\ tcp_active_pcbs = NULL /\ next = [p \in Pcbs |-> NULL]
  /\ last_timer = [p \in Pcbs |-> 0]
  /\ tcp_timer_ctr = 0 /\ tcp_timer = 0 /\ tcp_active_pcbs_changed = FALSE
  /\ pc = "idle" /\ pcb = NULL /\ prev = NULL /\ nxt = NULL
  /\ active = {} /\ owed = {} /\ torn = FALSE

\* The pcbs a search that starts at tcp_active_pcbs comes to.
Listed ==
  LET after[n \in 0 .. Cardinality(Pcbs)] ==
        IF n = 0 THEN {tcp_active_pcbs}
        ELSE after[n - 1] \cup {next[q] : q \in after[n - 1] \ {NULL}}
  IN  after[Cardinality(Pcbs)]

Before(p) == {q \in Listed \ {NULL} : next[q] = p}

-----------------------------------------------------------------------------
(* The windows.                                                            *)

InFast == pc \in {"fastfirst", "fast", "ack"}
InSlow == pc \in {"slowfirst", "slow", "body", "unlink", "unlinked", "clear",
                  "callback"}

\* A pcb put at the front before the walk has read it carries the number of
\* this pass: tcp_fasttmr stays at it, tcp_slowtmr skips it and forgets that
\* it is there.  Later, tcp_slowtmr takes pcb for the first while prev is
\* NULL.  A change seen by the test after a callback starts the walk again,
\* over pcbs that are skipped without becoming prev.
FrontTears == \/ pc \in {"fastfirst", "callback"}
              \/ InSlow /\ prev = NULL

\* The walk stands on the pcb, will link past it, or holds it as the successor
\* of the one it is unlinking.
PcbTears(p) == \/ pc \in {"fast", "ack"} /\ p = pcb
               \/ InSlow /\ pc # "slowfirst" /\ p \in {pcb, prev}
               \/ pc \in {"unlink", "unlinked"} /\ p = nxt

\* The pcb has been moved past the walk so many times in a row that the pass
\* number comes round to the one it was served in.
Overdue(p) == (last_timer[p] + CtrMod - 1) % CtrMod = tcp_timer_ctr

-----------------------------------------------------------------------------
(* The Ethernet interrupt.                                                 *)

\* tcp_listen_input: tcp_alloc and TCP_REG_ACTIVE.
Register(p) ==
  /\ p \notin active
  /\ ~(pc = "unlinked" /\ p = pcb)      \* unlinked, but not yet freed
  /\ NULL \in Listed                   \* the search for the segment's pcb ends
  /\ next' = [next EXCEPT ![p] = tcp_active_pcbs]
  /\ last_timer' = [last_timer EXCEPT ![p] = tcp_timer_ctr]
  /\ tcp_active_pcbs' = p
  /\ tcp_active_pcbs_changed' = TRUE
  /\ active' = active \cup {p}
  /\ torn' = (torn \/ FrontTears)
  /\ UNCHANGED <<tcp_timer_ctr, tcp_timer, walk, owed>>

\* The connection is closed, reset or killed, and its pcb freed.  TCP_RMV_ACTIVE
\* tells of the change; tcp_input's own tcp_pcb_remove does not.
Remove(p, told) ==
  /\ p \in Listed /\ p \in active
  /\ IF tcp_active_pcbs = p
     THEN /\ tcp_active_pcbs' = next[p]
          /\ next' = [next EXCEPT ![p] = NULL]
     ELSE /\ \E q \in Before(p) : next' = [next EXCEPT ![q] = next[p], ![p] = NULL]
          /\ UNCHANGED tcp_active_pcbs
  /\ tcp_active_pcbs_changed' = (tcp_active_pcbs_changed \/ told)
  /\ active' = active \ {p} /\ owed' = owed \ {p}
  /\ torn' = (torn \/ (told /\ pc = "callback") \/ PcbTears(p))
  /\ UNCHANGED <<last_timer, tcp_timer_ctr, tcp_timer, walk>>

\* tcp_input finds the segment's pcb and moves it to the front.
MoveToFront(p) ==
  /\ p \in Listed \ {NULL, tcp_active_pcbs}
  /\ \E q \in Before(p) :
       next' = [next EXCEPT ![q] = next[p], ![p] = tcp_active_pcbs]
  /\ tcp_active_pcbs' = p
  /\ owed' = IF last_timer[p] = tcp_timer_ctr THEN owed ELSE owed \ {p}
  /\ torn' = (torn \/ (InSlow /\ pc # "slowfirst" /\ prev = NULL)
                   \/ PcbTears(p) \/ Overdue(p))
  /\ UNCHANGED <<last_timer, tcp_timer_ctr, tcp_timer,
                 tcp_active_pcbs_changed, walk, active>>

EthIrq == \E p \in Pcbs : \/ Register(p) \/ MoveToFront(p)
                          \/ \E told \in BOOLEAN : Remove(p, told)

-----------------------------------------------------------------------------
(* The main loop: tcp_tmr calls tcp_fasttmr and, every other time,         *)
(* tcp_slowtmr.                                                            *)

\* Mutants: the pass number does not wrap, or is not advanced.
EnterNoWrap(from, to) ==
  /\ pc = from /\ pc' = to
  /\ tcp_timer_ctr' = tcp_timer_ctr + 1
  /\ owed' = active
  /\ UNCHANGED <<tcp_active_pcbs, next, last_timer, tcp_timer,
                 tcp_active_pcbs_changed, pcb, prev, nxt, active, torn>>

EnterNoCount(from, to) ==
  /\ pc = from /\ pc' = to
  /\ owed' = active
  /\ UNCHANGED <<tcp_active_pcbs, next, last_timer, tcp_timer_ctr, tcp_timer,
                 tcp_active_pcbs_changed, pcb, prev, nxt, active, torn>>

\* ++tcp_timer_ctr
Enter(from, to) ==
  /\ pc = from /\ pc' = to
  /\ tcp_timer_ctr' = (tcp_timer_ctr + 1) % CtrMod
  /\ owed' = active
  /\ UNCHANGED <<tcp_active_pcbs, next, last_timer, tcp_timer,
                 tcp_active_pcbs_changed, pcb, prev, nxt, active, torn>>

\* The start labels: pcb = tcp_active_pcbs, and in tcp_slowtmr prev = NULL.
First(from, to) ==
  /\ pc = from /\ pc' = to
  /\ pcb' = tcp_active_pcbs /\ prev' = NULL
  /\ UNCHANGED <<tcp_active_pcbs, next, last_timer, tcp_timer_ctr, tcp_timer,
                 tcp_active_pcbs_changed, nxt, history>>

\* A pcb not yet served in this pass.
Serve(from, to) ==
  /\ pc = from /\ pcb # NULL
  /\ last_timer[pcb] # tcp_timer_ctr
  /\ last_timer' = [last_timer EXCEPT ![pcb] = tcp_timer_ctr]
  /\ pc' = to
  /\ UNCHANGED <<tcp_active_pcbs, next, tcp_timer_ctr, tcp_timer,
                 tcp_active_pcbs_changed, pcb, prev, nxt, history>>

\* tcp_fasttmr: a pcb that carries the number of the pass is not left.
FastSpins ==
  /\ pc = "fast" /\ pcb # NULL
  /\ last_timer[pcb] = tcp_timer_ctr
  /\ UNCHANGED tmrVars

\* The delayed ACK is sent and the walk goes on.
FastNext ==
  /\ pc = "ack" /\ pc' = "fast"
  /\ pcb' = next[pcb]
  /\ UNCHANGED <<tcp_active_pcbs, next, last_timer, tcp_timer_ctr, tcp_timer,
                 tcp_active_pcbs_changed, prev, nxt, history>>

\* if (++tcp_timer & 1) tcp_slowtmr()
FastDone ==
  /\ pc = "fast" /\ pcb = NULL
  /\ tcp_timer' = 1 - tcp_timer
  /\ pc' = IF tcp_timer' = 1 THEN "fastdone" ELSE "idle"
  /\ owed' = {}
  /\ UNCHANGED <<tcp_active_pcbs, next, last_timer, tcp_timer_ctr,
                 tcp_active_pcbs_changed, pcb, prev, nxt, active, torn>>

\* tcp_slowtmr: "skip this pcb, we have already processed it".
SlowSkip ==
  /\ pc = "slow" /\ pcb # NULL
  /\ last_timer[pcb] = tcp_timer_ctr
  /\ pcb' = next[pcb]
  /\ UNCHANGED <<tcp_active_pcbs, next, last_timer, tcp_timer_ctr, tcp_timer,
                 tcp_active_pcbs_changed, pc, prev, nxt, history>>

\* The pcb has timed out: pcb->next is loaded ...
SlowRemove ==
  /\ pc = "body" /\ pc' = "unlink"
  /\ nxt' = next[pcb]
  /\ UNCHANGED <<tcp_active_pcbs, next, last_timer, tcp_timer_ctr, tcp_timer,
                 tcp_active_pcbs_changed, pcb, prev, history>>

\* ... and stored in prev->next or tcp_active_pcbs.
Unlink ==
  /\ pc = "unlink" /\ pc' = "unlinked"
  /\ IF prev # NULL
     THEN next' = [next EXCEPT ![prev] = nxt] /\ UNCHANGED tcp_active_pcbs
     ELSE tcp_active_pcbs' = nxt /\ UNCHANGED next
  /\ active' = active \ {pcb} /\ owed' = owed \ {pcb}
  /\ UNCHANGED <<last_timer, tcp_timer_ctr, tcp_timer,
                 tcp_active_pcbs_changed, pcb, prev, nxt, torn>>

\* Mutant: after a removal the walk steps on twice.
SlowFreeSkips ==
  /\ pc = "unlinked" /\ pc' = "clear"
  /\ pcb' = IF next[pcb] = NULL THEN NULL ELSE next[next[pcb]]
  /\ nxt' = NULL
  /\ UNCHANGED <<tcp_active_pcbs, next, last_timer, tcp_timer_ctr, tcp_timer,
                 tcp_active_pcbs_changed, prev, history>>

\* pcb->next is read again, and the pcb is freed.
SlowFree ==
  /\ pc = "unlinked" /\ pc' = "clear"
  /\ pcb' = next[pcb] /\ nxt' = NULL
  /\ UNCHANGED <<tcp_active_pcbs, next, last_timer, tcp_timer_ctr, tcp_timer,
                 tcp_active_pcbs_changed, prev, history>>

\* Mutant: prev stays behind.
SlowKeepNoPrev(poll) ==
  /\ pc = "body"
  /\ pcb' = next[pcb]
  /\ pc' = IF poll THEN "clear" ELSE "slow"
  /\ UNCHANGED <<tcp_active_pcbs, next, last_timer, tcp_timer_ctr, tcp_timer,
                 tcp_active_pcbs_changed, prev, nxt, history>>

\* It has not timed out; every pollinterval it is polled.
SlowKeep(poll) ==
  /\ pc = "body"
  /\ prev' = pcb /\ pcb' = next[pcb]
  /\ pc' = IF poll THEN "clear" ELSE "slow"
  /\ UNCHANGED <<tcp_active_pcbs, next, last_timer, tcp_timer_ctr, tcp_timer,
                 tcp_active_pcbs_changed, nxt, history>>

\* Before the error or the poll callback is called.
ClearChanged ==
  /\ pc = "clear" /\ pc' = "callback"
  /\ tcp_active_pcbs_changed' = FALSE
  /\ UNCHANGED <<tcp_active_pcbs, next, last_timer, tcp_timer_ctr, tcp_timer,
                 pcb, prev, nxt, history>>

\* The callback returns: start again if the list was changed.
Returned ==
  /\ pc = "callback"
  /\ pc' = IF tcp_active_pcbs_changed THEN "slowfirst" ELSE "slow"
  /\ UNCHANGED <<tcp_active_pcbs, next, last_timer, tcp_timer_ctr, tcp_timer,
                 tcp_active_pcbs_changed, pcb, prev, nxt, history>>

SlowDone ==
  /\ pc = "slow" /\ pcb = NULL
  /\ pc' = "idle" /\ prev' = NULL
  /\ owed' = {}
  /\ UNCHANGED <<tcp_active_pcbs, next, last_timer, tcp_timer_ctr, tcp_timer,
                 tcp_active_pcbs_changed, pcb, nxt, active, torn>>

tcp_fasttmr == \/ Enter("idle", "fastfirst") \/ First("fastfirst", "fast")
               \/ Serve("fast", "ack") \/ FastNext \/ FastSpins \/ FastDone
tcp_slowtmr == \/ Enter("fastdone", "slowfirst") \/ First("slowfirst", "slow")
               \/ Serve("slow", "body") \/ SlowSkip
               \/ SlowRemove \/ Unlink \/ SlowFree
               \/ (\E poll \in BOOLEAN : SlowKeep(poll))
               \/ ClearChanged \/ Returned \/ SlowDone

TmrNext == EthIrq \/ tcp_fasttmr \/ tcp_slowtmr

\* The main loop goes on whatever arrives.
TmrSpec == TmrInit /\ [][TmrNext]_tmrVars /\ WF_tmrVars(tcp_fasttmr \/ tcp_slowtmr)

-----------------------------------------------------------------------------
TmrTypeOK ==
  /\ tcp_active_pcbs \in MaybePcb /\ next \in [Pcbs -> MaybePcb]
  /\ last_timer \in [Pcbs -> 0 .. CtrMod - 1]
  /\ tcp_timer_ctr \in 0 .. CtrMod - 1 /\ tcp_timer \in {0, 1}
  /\ tcp_active_pcbs_changed \in BOOLEAN
  /\ pc \in {"idle", "fastfirst", "fast", "ack", "fastdone",
             "slowfirst", "slow", "body", "unlink", "unlinked", "clear",
             "callback"}
  /\ pcb \in MaybePcb /\ prev \in MaybePcb /\ nxt \in MaybePcb
  /\ active \subseteq Pcbs /\ owed \subseteq active /\ torn \in BOOLEAN

\* tcp_active_pcbs is a list, with an end, of exactly the connections that
\* were registered and not removed, although the walk unlinks with a prev it
\* took before the interrupt changed the list.
ActiveListExact ==
  ~torn => Listed = active \cup {NULL}

\* A pass is about to end: every connection that existed when it began, and
\* that no segment moved ahead of the walk, has been served in it, whatever
\* was registered, removed or moved meanwhile.
PassServesAll ==
  ~torn /\ pc \in {"fast", "slow"} /\ pcb = NULL =>
    \A p \in owed : last_timer[p] = tcp_timer_ctr

\* Both walks come to their end: the pass number comes round (CtrMod) without
\* ever meeting a pcb that still carries it from the last time.
PassEnds == pc # "idle" ~> (pc = "idle" \/ torn)
=============================================================================
