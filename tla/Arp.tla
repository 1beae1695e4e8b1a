-------------------------------- MODULE Arp ---------------------------------
(***************************************************************************)
(* The ARP cache of lwIP (netif/etharp.c) as this program uses it, and the *)
(* UDP responder of tcp_udp_server.c, whose replies go through it.         *)
(*                                                                         *)
(* Every packet the server sends passes etharp_output.  The Ethernet       *)
(* interrupt runs it for each reply, and etharp_arp_input for each ARP     *)
(* packet, in one step.  The main loop runs it for broadcasts and TCP      *)
(* timers, and etharp_tmr every five seconds, and is interrupted between   *)
(* any two of its steps: it then goes on with the index and the values it  *)
(* has.  A step reads one entry, or writes to one.                         *)
(*                                                                         *)
(* ARP_QUEUEING is 0: an entry holds at most one packet, a copy made for   *)
(* it.  A packet is known by the host it is for.  A host stands for its IP *)
(* and for its MAC address; hosts beyond the gateway are the gateway.      *)
(* What an EMPTY entry holds apart from q is never read and left out.      *)
(***************************************************************************)
EXTENDS Naturals

CONSTANTS Hosts,
          NONE,
          ARP_TABLE_SIZE,
          ARP_MAXAGE,
          ARP_AGE_REREQUEST_USED,
          ARP_MAXPENDING

ASSUME ArpAssumption ==
  /\ NONE \notin Hosts
  /\ ARP_TABLE_SIZE \in Nat \ {0} /\ ARP_AGE_REREQUEST_USED \in Nat
  /\ ARP_MAXAGE \in Nat \ {0} /\ ARP_MAXPENDING \in 1 .. ARP_MAXAGE

VARIABLES
  arp_table,
  pc,     \* the main loop's place in etharp.c
  idx,    \* ... its i
  dst,    \* ... the address the packet is for
  seen,   \* ... what the sweep of etharp_find_entry has read so far
  age,    \* ... what etharp_tmr is about to store in ctime
  torn    \* history: the interrupt took from the main loop what it relied on

local == <<idx, dst, seen, age>>
arpVars == <<arp_table, pc, local, torn>>

Index == 0 .. ARP_TABLE_SIZE - 1

Maybe == Hosts \cup {NONE}

Stable == {"STABLE", "STABLE_REREQUESTING"}

Entry == [state : {"EMPTY", "PENDING"} \cup Stable, ipaddr : Maybe,
          ethaddr : Maybe, ctime : 0 .. ARP_MAXAGE, q : Maybe]

\* An entry without owner, whose q is left as it is.
Emptied(e) == [state |-> "EMPTY", ipaddr |-> NONE, ethaddr |-> NONE,
               ctime |-> 0, q |-> e.q]

Unseen == [i \in Index |-> Emptied([q |-> NONE])]

ArpInit ==
  /\ arp_table = Unseen
  /\ pc = "idle" /\ idx = 0 /\ dst = NONE /\ seen = Unseen /\ age = 0
  /\ torn = FALSE

-----------------------------------------------------------------------------
(* etharp_find_entry.                                                      *)

\* An entry in use for h.
For(e, h) == e.state # "EMPTY" /\ e.ipaddr = h

\* ... whose address is known.
Known(e, h) == e.state \in Stable /\ e.ipaddr = h

In(t, states) == {i \in Index : t[i].state \in states}

Matching(t, h) == {i \in Index : For(t[i], h)}

\* The first entry of S, as a set.
First(S) == {i \in S : \A j \in S : i <= j}

\* The one the sweep remembers: the oldest, of equals the last.
Oldest(t, S) ==
  {i \in S : \A j \in S : \/ t[j].ctime < t[i].ctime
                          \/ t[j].ctime = t[i].ctime /\ j <= i}

\* The entry to recycle when no entry matches: an empty one, the oldest
\* stable one, the oldest pending one without or with a packet.
Recycled(t) ==
  LET pending == In(t, {"PENDING"})
      idle    == {i \in pending : t[i].q = NONE}
  IN  CASE In(t, {"EMPTY"}) # {} -> First(In(t, {"EMPTY"}))
        [] In(t, {"EMPTY"}) = {} /\ In(t, Stable) # {} -> Oldest(t, In(t, Stable))
        [] In(t, {"EMPTY"} \cup Stable) = {} /\ idle # {} -> Oldest(t, idle)
        [] OTHER -> Oldest(t, pending)

\* ETHARP_FLAG_TRY_HARD: the index, as a set; there always is one.  When
\* there are two matching entries the first is found.
Find(t, h) == IF Matching(t, h) # {} THEN First(Matching(t, h)) ELSE Recycled(t)

\* etharp_free_entry if the entry is in use, and the new address.
Fresh(t, i, h) ==
  [t EXCEPT ![i] = [Emptied(t[i]) EXCEPT
                      !.ipaddr = h,
                      !.q = IF t[i].state = "EMPTY" THEN t[i].q ELSE NONE]]

-----------------------------------------------------------------------------
(* The table operations as the interrupt makes them, in one step.          *)

\* Mutant of etharp_update_arp_entry: the packet that was sent stays.
UpdatedKeepsPacket(t, i, h) ==
  [t EXCEPT ![i] = [@ EXCEPT !.state = "STABLE", !.ethaddr = h, !.ctime = 0]]

\* etharp_update_arp_entry for entry i: the mapping is recorded, a packet
\* that waits is sent and freed.
Updated(t, i, h) ==
  [t EXCEPT ![i] = [@ EXCEPT !.state = "STABLE", !.ethaddr = h,
                             !.ctime = 0, !.q = NONE]]

\* etharp_output_to_arp_index: a mapping about to expire is asked for again,
\* if a pbuf is there for the request (asked).
OutputTo(t, i, asked) ==
  IF t[i].state = "STABLE" /\ t[i].ctime >= ARP_AGE_REREQUEST_USED /\ asked
  THEN [t EXCEPT ![i].state = "STABLE_REREQUESTING"]
  ELSE t

\* The end of etharp_query: the copy, if memory was there for it (copied),
\* takes the place of a packet that waits.
Queued(t, i, h, copied) == IF copied THEN [t EXCEPT ![i].q = h] ELSE t

\* etharp_query by entry i, which is found or made; it is pending, since etharp_output
\* has looked for a stable one.
Query(t, i, h, copied) ==
  LET made == IF Matching(t, h) # {} THEN t
              ELSE [Fresh(t, i, h) EXCEPT ![i].state = "PENDING"]
  IN  Queued(made, i, h, copied)

\* Mutant of etharp_arp_input: every ARP packet makes an entry, by taking
\* the first that is empty or recycled without looking for a match.
ArpInputNoMatch(h, forUs) ==
  \E i \in Recycled(arp_table) :
    /\ forUs \/ Matching(arp_table, h) # {}
    /\ arp_table' = Updated(Fresh(arp_table, i, h), i, h)

\* etharp_arp_input from h: to us, the mapping is entered at any cost;
\* otherwise it is brought up to date if there is one.
etharp_arp_input(h, forUs) ==
  \E i \in Find(arp_table, h) :
    \/ /\ Matching(arp_table, h) # {}
       /\ arp_table' = Updated(arp_table, i, h)
    \/ /\ Matching(arp_table, h) = {} /\ forUs
       /\ arp_table' = Updated(Fresh(arp_table, i, h), i, h)

\* etharp_output: by a stable entry, which etharp_cached_entry may have at
\* hand, or by etharp_query.
etharp_output(h) ==
  LET known == {i \in Index : Known(arp_table[i], h)}
  IN  \E ok \in BOOLEAN :
        \/ \E i \in known : arp_table' = OutputTo(arp_table, i, ok)
        \/ /\ known = {}
           /\ \E i \in Find(arp_table, h) : arp_table' = Query(arp_table, i, h, ok)

-----------------------------------------------------------------------------
(* What the main loop relies on.                                           *)

\* The empty entry that the sweep remembers, as a set.
SeenEmpty == First({i \in Index : i < idx /\ seen[i].state = "EMPTY"})

\* What it takes for granted of a table t, at each of its places, because it
\* has read it before: the sweep has no entry for dst behind it, and the empty
\* entry it remembers is still empty; while it makes an entry for dst no other
\* appears; the entry is empty until it writes to it, and then dst's; a packet
\* that it has tested for is there, and none comes after that; the entry by
\* which it sends is dst's and stable; the entry it puts back to stable is.
InHand(t) ==
  /\ pc = "find" => /\ \A i \in Index : i < idx => ~For(t[i], dst)
                    /\ \A i \in SeenEmpty : t[i].state = "EMPTY"
  /\ pc \in {"free", "drop", "clear", "empty", "fill", "mark", "pend"} /\ dst # NONE =>
       Matching(t, dst) \subseteq {idx}
  /\ pc = "drop" => t[idx].q # NONE
  /\ pc \in {"empty", "fill"} => t[idx].q = NONE
  /\ pc = "fill" => t[idx].state = "EMPTY"
  /\ pc \in {"mark", "pend"} => t[idx].ipaddr = dst
  /\ pc = "put" => For(t[idx], dst)
  /\ pc \in {"store", "link"} => For(t[idx], dst) /\ t[idx].state = "PENDING"
  /\ pc \in {"send", "ask", "xmit"} => Known(t[idx], dst)
  /\ pc = "renew" => t[idx].state \in Stable

\* The interrupt takes that away, or it uses an entry whose packet the main
\* loop has freed and not yet replaced.
Tears ==
  \/ ~InHand(arp_table')
  \/ pc \in {"clear", "link"} /\ arp_table'[idx] # arp_table[idx]

\* An ARP packet.
ArpPacket(h, forUs) ==
  /\ etharp_arp_input(h, forUs)
  /\ torn' = (torn \/ Tears)
  /\ UNCHANGED <<pc, local>>

\* A datagram for one of the two UDP ports: m_udp_demo_recv replies if the
\* pool has a pbuf and the heap a header for it; both are free again when
\* udp_sendto returns, whatever became of the reply.  (TCP and ICMP replies
\* go the same way.)
m_udp_demo_recv(h) ==
  /\ etharp_output(h)
  /\ torn' = (torn \/ Tears)
  /\ UNCHANGED <<pc, local>>

EthIrq == \E h \in Hosts : \/ \E forUs \in BOOLEAN : ArpPacket(h, forUs)
                           \/ m_udp_demo_recv(h)

-----------------------------------------------------------------------------
(* The main loop sends a packet: etharp_output.                            *)

Return == pc' = "idle" /\ idx' = 0 /\ dst' = NONE /\ seen' = Unseen /\ age' = 0

Goto(place) == pc' = place /\ UNCHANGED local

\* etharp_cached_entry, whatever it is, or the table from the start.
MainOutput(h) ==
  /\ pc = "idle"
  /\ \E cached \in Index :
       IF Known(arp_table[cached], h) THEN pc' = "send" /\ idx' = cached
                                      ELSE pc' = "look" /\ UNCHANGED idx
  /\ dst' = h
  /\ UNCHANGED <<arp_table, seen, age, torn>>

\* "find stable entry: do this here", or on to etharp_query.
Look ==
  /\ pc = "look"
  /\ IF Known(arp_table[idx], dst) THEN pc' = "send" /\ UNCHANGED idx
     ELSE IF idx + 1 < ARP_TABLE_SIZE THEN pc' = "look" /\ idx' = idx + 1
     ELSE pc' = "find" /\ idx' = 0
  /\ UNCHANGED <<arp_table, dst, seen, age, torn>>

\* etharp_output_to_arp_index: is the mapping about to expire?
Send ==
  /\ pc = "send"
  /\ Goto(IF /\ arp_table[idx].state = "STABLE"
             /\ arp_table[idx].ctime >= ARP_AGE_REREQUEST_USED
          THEN "ask" ELSE "xmit")
  /\ UNCHANGED <<arp_table, torn>>

\* The request is sent, if there is a pbuf for it, and then noted.
Ask ==
  /\ pc = "ask"
  /\ \E asked \in BOOLEAN :
       arp_table' = IF asked
                    THEN [arp_table EXCEPT ![idx].state = "STABLE_REREQUESTING"]
                    ELSE arp_table
  /\ Goto("xmit")
  /\ UNCHANGED torn

\* etharp_send_ip: the packet leaves for the entry's ethaddr.
Xmit ==
  /\ pc = "xmit"
  /\ Return
  /\ UNCHANGED <<arp_table, torn>>

-----------------------------------------------------------------------------
(* etharp_find_entry, etharp_free_entry and etharp_query in the main loop. *)

\* The sweep finds an entry for dst ...
Found ==
  /\ pc = "find" /\ For(arp_table[idx], dst)
  /\ pc' = "mark" /\ seen' = Unseen
  /\ UNCHANGED <<arp_table, idx, dst, age, torn>>

\* What it remembers of an entry that is another's: its age, and whether it
\* is stable or holds a packet.
Swept ==
  LET e == arp_table[idx]
  IN  [seen EXCEPT ![idx] = [state   |-> IF e.state \in Stable THEN "STABLE" ELSE e.state,
                             ipaddr  |-> NONE,
                             ethaddr |-> NONE,
                             ctime   |-> e.ctime,
                             q       |-> IF e.q = NONE THEN NONE ELSE dst]]

\* ... or goes on ...
Sweep ==
  /\ pc = "find" /\ ~For(arp_table[idx], dst)
  /\ idx + 1 < ARP_TABLE_SIZE
  /\ idx' = idx + 1 /\ seen' = Swept
  /\ UNCHANGED <<arp_table, pc, dst, age, torn>>

\* ... to the end, where an entry to recycle is chosen.
Choose ==
  /\ pc = "find" /\ ~For(arp_table[idx], dst)
  /\ idx + 1 = ARP_TABLE_SIZE
  /\ idx' \in Recycled(Swept)
  /\ pc' = IF Swept[idx'].state = "EMPTY" THEN "fill" ELSE "free"
  /\ seen' = Unseen
  /\ UNCHANGED <<arp_table, dst, age, torn>>

\* etharp_free_entry: is there a packet?
FreeEntry ==
  /\ pc = "free"
  /\ Goto(IF arp_table[idx].q # NONE THEN "drop" ELSE "empty")
  /\ UNCHANGED <<arp_table, torn>>

\* It is freed ...
FreePacket ==
  /\ pc = "drop"
  /\ Goto("clear")
  /\ UNCHANGED <<arp_table, torn>>

\* ... its pointer cleared ...
ClearPointer ==
  /\ pc = "clear"
  /\ arp_table' = [arp_table EXCEPT ![idx].q = NONE]
  /\ Goto("empty")
  /\ UNCHANGED torn

\* The next turn of etharp_tmr's loop.
NextEntry == IF idx + 1 < ARP_TABLE_SIZE
             THEN pc' = "tmr" /\ idx' = idx + 1 /\ age' = 0 /\ UNCHANGED <<dst, seen>>
             ELSE Return

\* Mutant of etharp_free_entry: the entry keeps its address and its state.
SetEmptyNot ==
  /\ pc = "empty"
  /\ IF dst # NONE THEN Goto("fill") ELSE NextEntry
  /\ UNCHANGED <<arp_table, torn>>

\* ... and the entry set free, for etharp_find_entry or for etharp_tmr.
SetEmpty ==
  /\ pc = "empty"
  /\ arp_table' = [arp_table EXCEPT ![idx] = Emptied(@)]
  /\ IF dst # NONE THEN Goto("fill") ELSE NextEntry
  /\ UNCHANGED torn

\* The end of etharp_find_entry for a new entry.
Fill ==
  /\ pc = "fill"
  /\ arp_table' = [arp_table EXCEPT ![idx].ipaddr = dst, ![idx].ctime = 0]
  /\ Goto("mark")
  /\ UNCHANGED torn

\* etharp_query: a fresh entry ...
Mark ==
  /\ pc = "mark"
  /\ Goto(IF arp_table[idx].state = "EMPTY" THEN "pend" ELSE "put")
  /\ UNCHANGED <<arp_table, torn>>

\* ... is marked as pending.
Pend ==
  /\ pc = "pend"
  /\ arp_table' = [arp_table EXCEPT ![idx].state = "PENDING"]
  /\ Goto("put")
  /\ UNCHANGED torn

\* For a pending entry a request has been sent meanwhile.  If the entry is
\* stable by now the packet leaves at once.
Put ==
  /\ pc = "put"
  /\ \/ arp_table[idx].state \in Stable /\ Goto("xmit")
     \/ arp_table[idx].state = "PENDING" /\ Goto("store")
     \/ arp_table[idx].state = "EMPTY" /\ Return
  /\ UNCHANGED <<arp_table, torn>>

\* The packet is copied, if there is memory, a waiting one freed ...
Store ==
  /\ pc = "store"
  /\ Goto("link") \/ Return
  /\ UNCHANGED <<arp_table, torn>>

\* ... and the copy waits in its place.
Link ==
  /\ pc = "link"
  /\ arp_table' = [arp_table EXCEPT ![idx].q = dst]
  /\ Return
  /\ UNCHANGED torn

-----------------------------------------------------------------------------
(* etharp_tmr.                                                             *)

TmrStart ==
  /\ pc = "idle" /\ pc' = "tmr"
  /\ UNCHANGED <<arp_table, local, torn>>

\* Mutant: an entry is not aged while a packet waits in it.
TmrEntrySpares ==
  /\ pc = "tmr"
  /\ \/ /\ \/ arp_table[idx].state = "EMPTY"
           \/ arp_table[idx].state = "PENDING" /\ arp_table[idx].q # NONE
        /\ NextEntry
     \/ /\ arp_table[idx].state # "EMPTY"
        /\ ~(arp_table[idx].state = "PENDING" /\ arp_table[idx].q # NONE)
        /\ pc' = "age" /\ age' = arp_table[idx].ctime + 1
        /\ UNCHANGED <<idx, dst, seen>>
  /\ UNCHANGED <<arp_table, torn>>

\* The age of an entry in use is loaded ...
TmrEntry ==
  /\ pc = "tmr"
  /\ \/ arp_table[idx].state = "EMPTY" /\ NextEntry
     \/ /\ arp_table[idx].state # "EMPTY"
        /\ pc' = "age" /\ age' = arp_table[idx].ctime + 1
        /\ UNCHANGED <<idx, dst, seen>>
  /\ UNCHANGED <<arp_table, torn>>

\* ... stored, one higher, whatever the entry is by now ...
Age ==
  /\ pc = "age"
  /\ arp_table' = [arp_table EXCEPT ![idx].ctime = age]
  /\ pc' = "test" /\ age' = 0
  /\ UNCHANGED <<idx, dst, seen, torn>>

\* Mutant: > for >=.
TestLate ==
  /\ pc = "test"
  /\ IF \/ arp_table[idx].ctime > ARP_MAXAGE
        \/ arp_table[idx].state = "PENDING" /\ arp_table[idx].ctime > ARP_MAXPENDING
     THEN Goto("free") ELSE NextEntry
  /\ UNCHANGED <<arp_table, torn>>

\* ... and read again: the entry may have expired.
Test ==
  LET e == arp_table[idx]
  IN  /\ pc = "test"
      /\ IF \/ e.ctime >= ARP_MAXAGE
            \/ e.state = "PENDING" /\ e.ctime >= ARP_MAXPENDING
         THEN Goto("free")
         ELSE IF e.state = "STABLE_REREQUESTING" THEN Goto("renew")
         ELSE NextEntry
      /\ UNCHANGED <<arp_table, torn>>

\* "Reset state to stable, so that the next transmitted packet will re-send
\* an ARP request."
Renew ==
  /\ pc = "renew"
  /\ arp_table' = [arp_table EXCEPT ![idx].state = "STABLE"]
  /\ NextEntry
  /\ UNCHANGED torn

MainStep == \/ Look \/ Send \/ Ask \/ Xmit
            \/ Found \/ Sweep \/ Choose
            \/ FreeEntry \/ FreePacket \/ ClearPointer \/ SetEmpty
            \/ Fill \/ Mark \/ Pend \/ Put \/ Store \/ Link
            \/ TmrEntry \/ Age \/ Test \/ Renew

ArpNext == \/ EthIrq
           \/ \E h \in Hosts : MainOutput(h)
           \/ MainStep
           \/ TmrStart

\* The main loop goes on, and comes back to etharp_tmr every five seconds.
ArpSpec == /\ ArpInit /\ [][ArpNext]_arpVars
           /\ WF_arpVars(MainStep)
           /\ SF_arpVars(TmrStart)

-----------------------------------------------------------------------------
ArpTypeOK ==
  /\ arp_table \in [Index -> Entry]
  /\ pc \in {"idle", "look", "send", "ask", "xmit", "find", "free", "drop",
             "clear", "empty", "fill", "mark", "pend", "put", "store", "link",
             "tmr", "age", "test", "renew"}
  /\ idx \in Index /\ dst \in Maybe
  /\ seen \in [Index -> Entry] /\ age \in 0 .. ARP_MAXAGE
  /\ torn \in BOOLEAN

\* No host has two entries, of which one would be kept up to date and the
\* other used: both contexts make entries, each after a search of its own.
\* The interrupts that can break this are the ones torn tells of: one that
\* itself makes an entry for the host the main loop is making one for, behind
\* the sweep or after it, and one that takes the entry the main loop has chosen.
OneEntryPerHost ==
  ~torn => \A i, j \in Index :
             /\ arp_table[i].state # "EMPTY" /\ arp_table[j].state # "EMPTY"
             /\ arp_table[i].ipaddr = arp_table[j].ipaddr
             => i = j

\* A packet waits only in a pending entry, and in that of the host it is
\* for, however entries are recycled: a packet in any other entry would be
\* sent to another host or not at all.  ("No queued packets should exist on
\* stable entries.")
QueueIsOwn ==
  ~torn => \A i \in Index : arp_table[i].q # NONE =>
             arp_table[i].state = "PENDING" /\ arp_table[i].q = arp_table[i].ipaddr

\* A stable entry has the MAC address of its own host, and a packet leaves for
\* the MAC address of the host it is for, although its entry was found before
\* a request was sent and may have been recycled since.
MappingIsTrue ==
  ~torn => /\ \A i \in Index : arp_table[i].state \in Stable =>
                arp_table[i].ethaddr = arp_table[i].ipaddr
           /\ pc = "xmit" => arp_table[idx].ethaddr = dst

\* A packet for a host that does not answer is not kept for ever, and a new
\* request for the host can be made: no entry stays pending, however often
\* packets for the host are queued and entries recycled in between.
PendingEnds ==
  \A i \in Index, h \in Hosts :
    LET pending == arp_table[i].state = "PENDING" /\ arp_table[i].ipaddr = h
    IN  pending ~> ~pending
=============================================================================
