----------------------------- MODULE ArpProofs ------------------------------
(***************************************************************************)
(* For any number of hosts, any table and any ages: the ARP cache keeps    *)
(* its types; as long as torn is FALSE, that is, no interrupt has taken    *)
(* from the main loop what it relies on, no host has two entries, packets  *)
(* wait where they belong and mappings are true.                           *)
(*                                                                         *)
(* The interrupt always changes the table as Amends says: one entry, for a *)
(* host that had this entry before or had none.  What the main loop does   *)
(* with an index and with values it read some steps ago is right because   *)
(* of InHand; the interrupts that set torn are those that make InHand      *)
(* false, and those that use a packet the main loop has freed.             *)
(* Of ages, torn or not: a pending entry only grows older, and no entry    *)
(* outlives its limit.                                                     *)
(***************************************************************************)
EXTENDS Arp, TLAPS

\* An entry as it must be by itself.
EntryOK(e) ==
  /\ e.state # "EMPTY" => e.ipaddr # NONE
  /\ e.q # NONE => e.state = "PENDING" /\ e.q = e.ipaddr
  /\ e.state \in Stable => e.ethaddr = e.ipaddr

\* No two entries in use are for one host.
Unique(t) ==
  \A i, j \in Index :
    t[i].state # "EMPTY" /\ t[j].state # "EMPTY" /\ t[i].ipaddr = t[j].ipaddr
    => i = j

TableOK(t) == Unique(t) /\ \A i \in Index : EntryOK(t[i])

\* The places from the test of an entry's age to its release.
Freeing == {"test", "free", "drop", "clear", "empty"}

\* The age is ARP_MAXAGE only while etharp_tmr frees the entry.
AgeOK ==
  \A i \in Index : arp_table[i].ctime = ARP_MAXAGE => pc \in Freeing /\ i = idx

\* There is an address to resolve in etharp_output and etharp_query, and none
\* elsewhere; an entry does not become free under etharp_tmr.
PlaceOK ==
  /\ pc \in {"look", "send", "ask", "xmit", "find", "fill", "mark", "pend", "put",
            "store", "link"} => dst # NONE
  /\ pc \in {"idle", "tmr", "age", "test", "renew"} => dst = NONE
  /\ pc \in {"age", "test", "renew"} => arp_table[idx].state # "EMPTY"

ArpInv ==
  /\ ArpTypeOK /\ AgeOK /\ PlaceOK
  /\ ~torn => TableOK(arp_table) /\ InHand(arp_table)

\* u is t with entry i replaced by e, which is for the same host or for one
\* that had no entry.
Amends(t, u, i, e) ==
  /\ e \in Entry /\ u = [t EXCEPT ![i] = e]
  /\ e.ctime = ARP_MAXAGE => e.ctime = t[i].ctime
  /\ EntryOK(t[i]) => EntryOK(e)
  /\ t[i].state # "EMPTY" => e.state # "EMPTY"
  /\ e.state # "EMPTY" =>
       \/ t[i].state # "EMPTY" /\ e.ipaddr = t[i].ipaddr
       \/ Matching(t, e.ipaddr) = {}

\* Values an entry may hold.
LEMMA EntryValues ==
  /\ 0 \in 0 .. ARP_MAXAGE /\ 0 # ARP_MAXAGE
  /\ NONE \in Maybe /\ \A h \in Hosts : h \in Maybe /\ h # NONE
  /\ {"EMPTY", "PENDING"} \cup Stable =
       {"EMPTY", "PENDING", "STABLE", "STABLE_REREQUESTING"}
BY ArpAssumption DEF Maybe, Stable

\* A table stays as it must be.
LEMMA AmendsTable ==
  ASSUME NEW t \in [Index -> Entry], NEW u, NEW i \in Index, NEW e,
         Amends(t, u, i, e)
  PROVE  u \in [Index -> Entry] /\ (TableOK(t) => TableOK(u))
<1>1. /\ u \in [Index -> Entry] /\ u[i] = e
      /\ \A j \in Index : j # i => u[j] = t[j]
  BY DEF Amends
<1>2. ASSUME TableOK(t) PROVE TableOK(u)
  <2>1. \A j \in Index : EntryOK(u[j])
    BY <1>1, <1>2 DEF Amends, TableOK
  <2>2. ASSUME NEW j \in Index, j # i, e.state # "EMPTY", t[j].state # "EMPTY"
        PROVE  e.ipaddr # t[j].ipaddr
    BY <1>2, <2>2 DEF Amends, TableOK, Unique, Matching, For
  <2>3. Unique(u)
    BY <1>1, <1>2, <2>2 DEF TableOK, Unique
  <2> QED BY <2>1, <2>3 DEF TableOK
<1> QED BY <1>1, <1>2

\* etharp_find_entry returns an index, and a matching entry if there is one.
LEMMA FindIsIndex ==
  ASSUME NEW t, NEW h, NEW i \in Find(t, h)
  PROVE  i \in Index /\ (Matching(t, h) # {} => i \in Matching(t, h))
<1>1. CASE Matching(t, h) # {}
  BY <1>1 DEF Find, First, Matching
<1>2. CASE Matching(t, h) = {}
  <2>1. i \in Recycled(t)
    BY <1>2 DEF Find
  <2>2. \A S : First(S) \subseteq S /\ Oldest(t, S) \subseteq S
    BY DEF First, Oldest
  <2>3. \A S : In(t, S) \subseteq Index
    BY DEF In
  <2> QED BY <1>2, <2>1, <2>2, <2>3 DEF Recycled
<1> QED BY <1>1, <1>2

\* etharp_update_arp_entry for an entry of h.
LEMMA UpdatedAmends ==
  ASSUME NEW t \in [Index -> Entry], NEW h \in Hosts, NEW i \in Matching(t, h)
  PROVE  \E e \in Entry : Amends(t, Updated(t, i, h), i, e)
<1> DEFINE e == [t[i] EXCEPT !.state = "STABLE", !.ethaddr = h, !.ctime = 0,
                             !.q = NONE]
<1>1. i \in Index /\ t[i] \in Entry /\ t[i].state # "EMPTY" /\ t[i].ipaddr = h
  BY DEF Matching, For
<1>2. /\ e \in Entry /\ e.state = "STABLE" /\ e.ipaddr = h /\ e.ethaddr = h
      /\ e.q = NONE /\ e.ctime = 0
  BY <1>1, EntryValues DEF Entry
<1>3. Updated(t, i, h) = [t EXCEPT ![i] = e]
  BY DEF Updated
<1>4. EntryOK(e)
  BY <1>2, ArpAssumption DEF EntryOK, Stable
<1> QED BY <1>1, <1>2, <1>3, <1>4, ArpAssumption DEF Amends

\* The entry of a host that had none, with state s, address a and packet p.
LEMMA FreshAmends ==
  ASSUME NEW t \in [Index -> Entry], NEW h \in Hosts, NEW i \in Index,
         Matching(t, h) = {}, NEW u, NEW e \in Entry,
         u = [t EXCEPT ![i] = e], e.ipaddr = h, e.ctime = 0,
         e.state # "EMPTY", EntryOK(t[i]) => EntryOK(e)
  PROVE  Amends(t, u, i, e)
BY ArpAssumption DEF Amends

\* etharp_free_entry and the new address.
LEMMA FreshEntry ==
  ASSUME NEW t \in [Index -> Entry], NEW h \in Hosts, NEW i \in Index
  PROVE  \E e \in Entry :
           /\ Fresh(t, i, h) = [t EXCEPT ![i] = e]
           /\ e.state = "EMPTY" /\ e.ipaddr = h /\ e.ctime = 0
           /\ EntryOK(t[i]) => e.q = NONE
<1> DEFINE e == [Emptied(t[i]) EXCEPT
                   !.ipaddr = h,
                   !.q = IF t[i].state = "EMPTY" THEN t[i].q ELSE NONE]
<1>1. t[i] \in Entry
  OBVIOUS
<1>2. /\ e \in Entry /\ e.state = "EMPTY" /\ e.ipaddr = h /\ e.ctime = 0
      /\ e.q = IF t[i].state = "EMPTY" THEN t[i].q ELSE NONE
  BY <1>1, EntryValues DEF Emptied, Entry
<1>3. EntryOK(t[i]) => e.q = NONE
  BY <1>2 DEF EntryOK
<1>4. Fresh(t, i, h) = [t EXCEPT ![i] = e]
  BY DEF Fresh
<1> QED BY <1>2, <1>3, <1>4

\* Every ARP packet amends the table.
LEMMA InputAmends ==
  ASSUME ArpTypeOK, NEW h \in Hosts, NEW forUs \in BOOLEAN,
         etharp_arp_input(h, forUs)
  PROVE  \E i \in Index, e \in Entry : Amends(arp_table, arp_table', i, e)
<1> DEFINE t == arp_table
<1>1. t \in [Index -> Entry]
  BY DEF ArpTypeOK
<1>2. PICK i \in Find(t, h) :
        \/ Matching(t, h) # {} /\ arp_table' = Updated(t, i, h)
        \/ Matching(t, h) = {} /\ arp_table' = Updated(Fresh(t, i, h), i, h)
  BY DEF etharp_arp_input
<1>3. i \in Index /\ (Matching(t, h) # {} => i \in Matching(t, h))
  BY <1>2, FindIsIndex
<1>4. CASE Matching(t, h) # {}
  BY <1>1, <1>2, <1>3, <1>4, UpdatedAmends
<1>5. CASE Matching(t, h) = {}
  <2>1. PICK f \in Entry : /\ Fresh(t, i, h) = [t EXCEPT ![i] = f]
                           /\ f.state = "EMPTY" /\ f.ipaddr = h
    BY <1>1, <1>3, FreshEntry
  <2> DEFINE e == [f EXCEPT !.state = "STABLE", !.ethaddr = h, !.ctime = 0,
                            !.q = NONE]
  <2>2. /\ e \in Entry /\ e.state = "STABLE" /\ e.ipaddr = h /\ e.ethaddr = h
        /\ e.q = NONE /\ e.ctime = 0
    BY <2>1, EntryValues DEF Entry
  <2>3. arp_table' = [t EXCEPT ![i] = e]
    BY <1>1, <1>2, <1>3, <1>5, <2>1 DEF Updated
  <2>4. EntryOK(e)
    BY <2>2, ArpAssumption DEF EntryOK, Stable
  <2> QED BY <1>1, <1>3, <1>5, <2>2, <2>3, <2>4, FreshAmends
<1> QED BY <1>4, <1>5

\* So does every packet that is sent.
LEMMA OutputAmends ==
  ASSUME NEW t \in [Index -> Entry], NEW i \in Index, NEW ok \in BOOLEAN
  PROVE  \E e \in Entry : Amends(t, OutputTo(t, i, ok), i, e)
<1>1. t[i] \in Entry
  OBVIOUS
<1>2. CASE t[i].state = "STABLE" /\ t[i].ctime >= ARP_AGE_REREQUEST_USED /\ ok
  <2> DEFINE e == [t[i] EXCEPT !.state = "STABLE_REREQUESTING"]
  <2>1. /\ e \in Entry /\ e.state = "STABLE_REREQUESTING" /\ e.ipaddr = t[i].ipaddr
        /\ e.ethaddr = t[i].ethaddr /\ e.q = t[i].q /\ e.ctime = t[i].ctime
    BY <1>1 DEF Entry, Stable
  <2>2. OutputTo(t, i, ok) = [t EXCEPT ![i] = e]
    BY <1>2 DEF OutputTo
  <2>3. EntryOK(t[i]) => EntryOK(e)
    BY <1>2, <2>1 DEF EntryOK, Stable
  <2> QED BY <1>1, <1>2, <2>1, <2>2, <2>3 DEF Amends
<1>3. CASE ~(t[i].state = "STABLE" /\ t[i].ctime >= ARP_AGE_REREQUEST_USED /\ ok)
  <2>1. OutputTo(t, i, ok) = [t EXCEPT ![i] = t[i]]
    BY <1>3 DEF OutputTo
  <2> QED BY <1>1, <2>1 DEF Amends
<1> QED BY <1>2, <1>3

\* ... or queued.
LEMMA QueryAmends ==
  ASSUME NEW t \in [Index -> Entry], NEW h \in Hosts, NEW i \in Find(t, h),
         NEW ok \in BOOLEAN, \A j \in Matching(t, h) : t[j].state \notin Stable
  PROVE  \E e \in Entry : i \in Index /\ Amends(t, Query(t, i, h, ok), i, e)
<1>1. i \in Index /\ (Matching(t, h) # {} => i \in Matching(t, h))
  BY FindIsIndex
<1>2. ASSUME NEW f \in Entry
      PROVE  LET e == [f EXCEPT !.q = h]
             IN  /\ e \in Entry /\ e.state = f.state /\ e.ipaddr = f.ipaddr
                 /\ e.ethaddr = f.ethaddr /\ e.q = h /\ e.ctime = f.ctime
  BY DEF Entry, Maybe
<1>3. CASE Matching(t, h) # {}
  <2>1. t[i] \in Entry /\ t[i].state = "PENDING" /\ t[i].ipaddr = h
    BY <1>1, <1>3 DEF Matching, For, Entry
  <2> DEFINE e == IF ok THEN [t[i] EXCEPT !.q = h] ELSE t[i]
  <2>2. /\ e \in Entry /\ e.state = "PENDING" /\ e.ipaddr = h
        /\ e.ctime = t[i].ctime /\ e.q \in {h, t[i].q}
    BY <1>2, <2>1
  <2>3. Query(t, i, h, ok) = [t EXCEPT ![i] = e]
    BY <1>1, <1>3 DEF Query, Queued
  <2>4. EntryOK(t[i]) => EntryOK(e)
    BY <2>1, <2>2, ArpAssumption DEF EntryOK, Stable
  <2> HIDE DEF e
  <2> QED BY <1>1, <2>1, <2>2, <2>3, <2>4 DEF Amends
<1>4. CASE Matching(t, h) = {}
  <2>1. PICK f \in Entry : /\ Fresh(t, i, h) = [t EXCEPT ![i] = f]
                           /\ f.state = "EMPTY" /\ f.ipaddr = h /\ f.ctime = 0
                           /\ EntryOK(t[i]) => f.q = NONE
    BY <1>1, FreshEntry
  <2> DEFINE g == [f EXCEPT !.state = "PENDING"]
             e == IF ok THEN [g EXCEPT !.q = h] ELSE g
  <2>2. /\ g \in Entry /\ g.state = "PENDING" /\ g.ipaddr = h
        /\ g.ctime = 0 /\ g.q = f.q
    BY <2>1 DEF Entry
  <2>3. /\ e \in Entry /\ e.state = "PENDING" /\ e.ipaddr = h
        /\ e.ctime = 0 /\ e.q \in {h, f.q}
    BY <1>2, <2>2
  <2>4. Query(t, i, h, ok) = [t EXCEPT ![i] = e]
    BY <1>1, <1>4, <2>1 DEF Query, Queued
  <2>5. EntryOK(t[i]) => EntryOK(e)
    BY <2>1, <2>3, ArpAssumption DEF EntryOK, Stable
  <2> HIDE DEF g, e
  <2> QED BY <1>1, <1>4, <2>3, <2>4, <2>5, FreshAmends
<1> QED BY <1>3, <1>4

-----------------------------------------------------------------------------
\* The table is empty at first.
LEMMA ArpInitially == ArpInit => ArpInv
<1> SUFFICES ASSUME ArpInit PROVE ArpInv
  OBVIOUS
<1> DEFINE e == Emptied([q |-> NONE])
<1>1. e \in Entry /\ e.state = "EMPTY" /\ e.q = NONE /\ e.ctime = 0
  BY EntryValues DEF Emptied, Entry
<1>2. \A i \in Index : arp_table[i] = e
  BY DEF ArpInit, Unseen
<1>3. arp_table \in [Index -> Entry] /\ seen \in [Index -> Entry] /\ 0 \in Index
  BY <1>1, ArpAssumption DEF ArpInit, Index, Unseen
<1> HIDE DEF e
<1>4. ArpTypeOK
  BY <1>3, EntryValues DEF ArpInit, ArpTypeOK
<1>5. AgeOK /\ PlaceOK /\ InHand(arp_table)
  BY <1>1, <1>2, EntryValues DEF ArpInit, AgeOK, PlaceOK, InHand
<1>6. TableOK(arp_table)
  BY <1>1, <1>2 DEF TableOK, Unique, EntryOK, Stable
<1> QED BY <1>4, <1>5, <1>6 DEF ArpInv

\* A step that amends the table and leaves the main loop where it is, but
\* tells torn, preserves the invariant.
LEMMA IrqStep ==
  ASSUME ArpInv, NEW i \in Index, NEW e \in Entry,
         Amends(arp_table, arp_table', i, e),
         torn' = (torn \/ Tears), UNCHANGED <<pc, local>>
  PROVE  ArpInv'
<1>1. /\ arp_table \in [Index -> Entry] /\ idx \in Index /\ torn \in BOOLEAN
      /\ UNCHANGED <<pc, idx, dst, seen, age>>
  BY DEF ArpInv, ArpTypeOK, local
<1>2. /\ arp_table' \in [Index -> Entry]
      /\ TableOK(arp_table) => TableOK(arp_table')
      /\ arp_table'[i] = e /\ \A j \in Index : j # i => arp_table'[j] = arp_table[j]
  BY <1>1, AmendsTable DEF Amends
<1>3. Tears \in BOOLEAN
  BY DEF Tears
<1>4. ArpTypeOK'
  BY <1>1, <1>2, <1>3 DEF ArpInv, ArpTypeOK
<1>5. AgeOK'
  BY <1>1, <1>2 DEF ArpInv, AgeOK, Amends
<1>6. PlaceOK'
  BY <1>1, <1>2 DEF ArpInv, PlaceOK, Amends
<1>7. ASSUME ~torn' PROVE TableOK(arp_table') /\ InHand(arp_table)'
  <2>1. ~torn /\ InHand(arp_table')
    BY <1>1, <1>3, <1>7 DEF Tears
  <2>2. InHand(arp_table)'
    BY <1>1, <2>1 DEF InHand, SeenEmpty
  <2> QED BY <1>2, <2>1, <2>2 DEF ArpInv
<1> QED BY <1>4, <1>5, <1>6, <1>7 DEF ArpInv

\* The interrupt.
LEMMA EthIrqInv ==
  ASSUME ArpInv, EthIrq
  PROVE  ArpInv'
<1>1. arp_table \in [Index -> Entry] /\ ArpTypeOK
  BY DEF ArpInv, ArpTypeOK
<1>2. PICK h \in Hosts : \/ \E forUs \in BOOLEAN : ArpPacket(h, forUs)
                         \/ m_udp_demo_recv(h)
  BY DEF EthIrq
<1>3. torn' = (torn \/ Tears) /\ UNCHANGED <<pc, local>>
  BY <1>2 DEF ArpPacket, m_udp_demo_recv
<1>4. CASE \E forUs \in BOOLEAN : ArpPacket(h, forUs)
  <2>1. \E i \in Index, e \in Entry : Amends(arp_table, arp_table', i, e)
    BY <1>1, <1>4, InputAmends DEF ArpPacket
  <2> QED BY <1>3, <2>1, IrqStep
<1>5. CASE m_udp_demo_recv(h)
  <2>1. \E i \in Index, e \in Entry : Amends(arp_table, arp_table', i, e)
    <3> DEFINE known == {i \in Index : Known(arp_table[i], h)}
    <3>1. PICK ok \in BOOLEAN :
            \/ \E i \in known : arp_table' = OutputTo(arp_table, i, ok)
            \/ known = {} /\ \E i \in Find(arp_table, h) :
                               arp_table' = Query(arp_table, i, h, ok)
      BY <1>5 DEF m_udp_demo_recv, etharp_output
    <3>2. CASE \E i \in known : arp_table' = OutputTo(arp_table, i, ok)
      BY <1>1, <3>2, OutputAmends
    <3>3. CASE known = {} /\ \E i \in Find(arp_table, h) :
                                arp_table' = Query(arp_table, i, h, ok)
      <4>1. \A j \in Matching(arp_table, h) : arp_table[j].state \notin Stable
        BY <3>3 DEF Matching, For, Known
      <4> QED BY <1>1, <3>3, <4>1, QueryAmends
    <3> QED BY <3>1, <3>2, <3>3
  <2> QED BY <1>3, <2>1, IrqStep
<1> QED BY <1>2, <1>4, <1>5

-----------------------------------------------------------------------------
(* The main loop.                                                          *)

\* Where etharp_tmr goes after an entry.
LEMMA NextEntryPlace ==
  ASSUME ArpTypeOK, dst = NONE, NextEntry
  PROVE  /\ pc' \in {"idle", "tmr"} /\ idx' \in Index /\ dst' = NONE
         /\ seen' \in [Index -> Entry] /\ age' \in 0 .. ARP_MAXAGE
<1>1. Unseen \in [Index -> Entry] /\ 0 \in 0 .. ARP_MAXAGE /\ 0 \in Index
  BY EntryValues, ArpAssumption DEF Unseen, Emptied, Entry, Index
<1> QED BY <1>1, ArpAssumption DEF NextEntry, Return, Index, ArpTypeOK

\* The end of etharp_output and of etharp_query.
LEMMA ReturnPlace ==
  ASSUME Return
  PROVE  /\ pc' = "idle" /\ idx' \in Index /\ dst' = NONE
         /\ seen' \in [Index -> Entry] /\ age' \in 0 .. ARP_MAXAGE
<1>1. Unseen \in [Index -> Entry] /\ 0 \in 0 .. ARP_MAXAGE /\ 0 \in Index
  BY EntryValues, ArpAssumption DEF Unseen, Emptied, Entry, Index
<1> QED BY <1>1 DEF Return

\* A step that only reads.
LEMMA ReadStep ==
  ASSUME ArpInv, UNCHANGED <<arp_table, torn>>,
         pc' \in {"idle", "look", "send", "ask", "xmit", "find", "free", "drop",
                  "clear", "empty", "fill", "mark", "pend", "put", "store", "link",
                  "tmr", "age", "test", "renew"},
         idx' \in Index, dst' \in Maybe, seen' \in [Index -> Entry],
         age' \in 0 .. ARP_MAXAGE,
         pc \in Freeing => \/ pc' \in Freeing /\ idx' = idx
                           \/ arp_table[idx].ctime # ARP_MAXAGE,
         PlaceOK',
         ~torn /\ TableOK(arp_table) /\ InHand(arp_table) => InHand(arp_table)'
  PROVE  ArpInv'
<1>1. ArpTypeOK'
  BY DEF ArpInv, ArpTypeOK
<1>2. AgeOK'
  BY DEF ArpInv, AgeOK
<1>3. ASSUME ~torn' PROVE TableOK(arp_table)' /\ InHand(arp_table)'
  BY <1>3 DEF ArpInv, TableOK, Unique
<1> QED BY <1>1, <1>2, <1>3 DEF ArpInv

\* The main loop looks for an entry by which it can send at once.
LEMMA LookInv ==
  ASSUME ArpInv, (\E h \in Hosts : MainOutput(h)) \/ Look
  PROVE  ArpInv'
<1>1. /\ UNCHANGED <<arp_table, torn, seen, age>> /\ pc \in {"idle", "look"}
      /\ dst' \in Hosts
      /\ \/ pc' = "send" /\ idx' \in Index /\ Known(arp_table[idx'], dst')
         \/ pc' = "look" /\ idx' \in Index
         \/ pc' = "find" /\ idx' = 0
  <2>1. CASE \E h \in Hosts : MainOutput(h)
    BY <2>1 DEF MainOutput, ArpInv, ArpTypeOK
  <2>2. CASE Look
    <3>1. dst \in Hosts /\ idx \in Index
      BY <2>2 DEF Look, ArpInv, ArpTypeOK, PlaceOK, Maybe
    <3>2. idx + 1 < ARP_TABLE_SIZE => idx + 1 \in Index
      BY <3>1, ArpAssumption DEF Index
    <3> QED BY <2>2, <3>1, <3>2 DEF Look
  <2> QED BY <2>1, <2>2
<1>2. 0 \in Index /\ \A i \in Index : ~(i < 0)
  BY ArpAssumption DEF Index
<1>3. PlaceOK' /\ dst' \in Maybe
  BY <1>1, EntryValues DEF PlaceOK
<1>4. InHand(arp_table)'
  <2>1. pc' = "find" => SeenEmpty' = {}
    BY <1>1, <1>2 DEF SeenEmpty, First
  <2> QED BY <1>1, <1>2, <2>1 DEF InHand
<1> QED BY <1>1, <1>2, <1>3, <1>4, ReadStep DEF ArpInv, ArpTypeOK, Freeing

\* Steps that read the entry in hand.
LEMMA ReadInv ==
  ASSUME ArpInv, Send \/ Xmit \/ FreeEntry \/ FreePacket \/ Mark \/ Put \/ Store
  PROVE  ArpInv'
<1> USE DEF Goto, local
<1>1. /\ UNCHANGED <<arp_table, torn>> /\ idx \in Index /\ dst \in Maybe
      /\ seen \in [Index -> Entry] /\ age \in 0 .. ARP_MAXAGE
      /\ arp_table[idx] \in Entry
  BY DEF ArpInv, ArpTypeOK, Send, Xmit, FreeEntry, FreePacket, Mark, Put, Store
<1>2. CASE Return
  <2>1. pc \notin Freeing
    BY <1>2 DEF Return, Send, Xmit, FreeEntry, FreePacket, Mark, Put, Store, Freeing
  <2>2. PlaceOK' /\ InHand(arp_table)' /\ dst' \in Maybe
    BY <1>2, ReturnPlace, EntryValues DEF PlaceOK, InHand
  <2> QED BY <1>1, <1>2, <2>1, <2>2, ReturnPlace, ReadStep
<1>3. CASE UNCHANGED <<idx, dst, seen, age>>
  <2> DEFINE e == arp_table[idx]
  <2>1. \/ pc = "send" /\ pc' \in {"ask", "xmit"}
        \/ pc = "free" /\ pc' = "drop" /\ e.q # NONE
        \/ pc = "free" /\ pc' = "empty" /\ e.q = NONE
        \/ pc = "drop" /\ pc' = "clear"
        \/ pc = "mark" /\ pc' = "pend"
        \/ pc = "mark" /\ pc' = "put" /\ e.state # "EMPTY"
        \/ pc = "put" /\ pc' = "xmit" /\ e.state \in Stable
        \/ pc = "put" /\ pc' = "store" /\ e.state = "PENDING"
        \/ pc = "store" /\ pc' = "link"
        \/ Return
    BY DEF Send, Xmit, FreeEntry, FreePacket, Mark, Put, Store
  <2>2. CASE ~Return
    <3>1. PlaceOK'
      BY <1>3, <2>1, <2>2 DEF ArpInv, PlaceOK
    <3>2. pc \in Freeing => pc' \in Freeing
      BY <2>1, <2>2 DEF Freeing
    <3>3. ASSUME InHand(arp_table) PROVE InHand(arp_table)'
      BY <1>1, <1>3, <2>1, <2>2, <3>3 DEF InHand, Matching, For, Known
    <3> QED BY <1>1, <1>3, <2>1, <2>2, <3>1, <3>2, <3>3, ReadStep
  <2> QED BY <1>2, <2>2
<1> QED BY <1>2, <1>3 DEF Send, Xmit, FreeEntry, FreePacket, Mark, Put, Store

\* The sweep finds an entry; there is no other, since no host has two.
LEMMA FoundInv ==
  ASSUME ArpInv, Found
  PROVE  ArpInv'
<1>1. /\ pc = "find" /\ pc' = "mark" /\ For(arp_table[idx], dst)
      /\ UNCHANGED <<arp_table, idx, dst, age, torn>> /\ idx \in Index
      /\ seen' = Unseen /\ dst \in Maybe /\ age \in 0 .. ARP_MAXAGE
  BY DEF Found, ArpInv, ArpTypeOK
<1>2. Unseen \in [Index -> Entry]
  BY EntryValues DEF Unseen, Emptied, Entry
<1>3. PlaceOK'
  BY <1>1 DEF ArpInv, PlaceOK
<1>4. ASSUME TableOK(arp_table) PROVE InHand(arp_table)'
  <2>1. Matching(arp_table, dst) \subseteq {idx}
    BY <1>1, <1>4 DEF TableOK, Unique, Matching, For
  <2> QED BY <1>1, <2>1 DEF InHand, Matching, For
<1> QED BY <1>1, <1>2, <1>3, <1>4, ReadStep DEF Freeing

\* What the sweep remembers, of an entry's kind.
LEMMA SweptKind ==
  ASSUME ArpTypeOK
  PROVE  /\ Swept \in [Index -> Entry]
         /\ Swept[idx].state = "EMPTY" <=> arp_table[idx].state = "EMPTY"
         /\ \A i \in Index : i # idx => Swept[i] = seen[i]
<1> DEFINE e == [state   |-> IF arp_table[idx].state \in Stable THEN "STABLE"
                             ELSE arp_table[idx].state,
                 ipaddr  |-> NONE, ethaddr |-> NONE,
                 ctime   |-> arp_table[idx].ctime,
                 q       |-> IF arp_table[idx].q = NONE THEN NONE ELSE dst]
<1>1. idx \in Index /\ arp_table[idx] \in Entry /\ dst \in Maybe
      /\ seen \in [Index -> Entry]
  BY DEF ArpTypeOK
<1>2. e \in Entry /\ (e.state = "EMPTY" <=> arp_table[idx].state = "EMPTY")
  BY <1>1, EntryValues DEF Entry, Stable
<1>3. Swept = [seen EXCEPT ![idx] = e]
  BY DEF Swept
<1> HIDE DEF e
<1> QED BY <1>1, <1>2, <1>3

\* The sweep goes on: an empty entry that it remembers is the one it
\* remembered before, or the one it has just seen.
LEMMA SweepInv ==
  ASSUME ArpInv, Sweep
  PROVE  ArpInv'
<1>1. /\ pc = "find" /\ pc' = "find" /\ ~For(arp_table[idx], dst)
      /\ UNCHANGED <<arp_table, dst, age, torn>> /\ idx \in Index
      /\ idx' = idx + 1 /\ idx + 1 < ARP_TABLE_SIZE
      /\ seen' = Swept /\ dst \in Maybe /\ age \in 0 .. ARP_MAXAGE
  BY DEF Sweep, ArpInv, ArpTypeOK
<1>2. idx' \in Index /\ \A i \in Index : i < idx' => i < idx \/ i = idx
  BY <1>1, ArpAssumption DEF Index
<1>3. PlaceOK'
  BY <1>1 DEF ArpInv, PlaceOK
<1>4. /\ Swept \in [Index -> Entry]
      /\ Swept[idx].state = "EMPTY" <=> arp_table[idx].state = "EMPTY"
      /\ \A i \in Index : i # idx => Swept[i] = seen[i]
  BY SweptKind DEF ArpInv
<1>5. ASSUME InHand(arp_table) PROVE InHand(arp_table)'
  <2>1. ASSUME NEW i \in SeenEmpty' PROVE arp_table[i].state = "EMPTY"
    <3>1. /\ i \in Index /\ (i < idx \/ i = idx) /\ Swept[i].state = "EMPTY"
          /\ \A j \in Index : j < idx + 1 /\ Swept[j].state = "EMPTY" => i <= j
      BY <1>1, <1>2 DEF SeenEmpty, First
    <3>2. CASE i = idx
      BY <1>4, <3>1, <3>2
    <3>3. CASE i < idx
      <4>1. i # idx /\ \A j \in Index : j < idx => j # idx /\ j < idx + 1
        BY <1>1, <3>1, <3>3, ArpAssumption DEF Index
      <4>2. i \in SeenEmpty
        BY <1>4, <3>1, <3>3, <4>1 DEF SeenEmpty, First
      <4> QED BY <1>1, <1>5, <4>2 DEF InHand
    <3> QED BY <3>1, <3>2, <3>3
  <2>2. \A i \in Index : i < idx' => ~For(arp_table[i], dst)
    BY <1>1, <1>2, <1>5 DEF InHand
  <2>3. pc' = "find"
    BY <1>1
  <2> QED BY <1>1, <2>1, <2>2, <2>3 DEF InHand
<1> QED BY <1>1, <1>2, <1>3, <1>4, <1>5, ReadStep DEF Freeing

\* The entry to recycle is one of the table; an empty one if the sweep has
\* seen one.
LEMMA RecycledIsIndex ==
  ASSUME NEW t, NEW i \in Recycled(t)
  PROVE  i \in Index /\ (t[i].state = "EMPTY" => i \in First(In(t, {"EMPTY"})))
<1>1. \A S : First(S) \subseteq S /\ Oldest(t, S) \subseteq S
  BY DEF First, Oldest
<1>2. \A S : In(t, S) \subseteq Index
  BY DEF In
<1>3. i \in Index
  BY <1>1, <1>2 DEF Recycled
<1>4. ASSUME t[i].state = "EMPTY" PROVE i \in First(In(t, {"EMPTY"}))
  <2>1. In(t, {"EMPTY"}) # {} /\ In(t, {"EMPTY"} \cup Stable) # {}
    BY <1>3, <1>4 DEF In
  <2> QED BY <2>1 DEF Recycled
<1> QED BY <1>3, <1>4

\* The sweep is at its end.
LEMMA ChooseInv ==
  ASSUME ArpInv, Choose
  PROVE  ArpInv'
<1>1. /\ pc = "find" /\ ~For(arp_table[idx], dst)
      /\ UNCHANGED <<arp_table, dst, age, torn>> /\ idx \in Index
      /\ idx' \in Recycled(Swept) /\ idx + 1 = ARP_TABLE_SIZE
      /\ pc' = IF Swept[idx'].state = "EMPTY" THEN "fill" ELSE "free"
      /\ seen' = Unseen /\ dst \in Maybe /\ age \in 0 .. ARP_MAXAGE
  BY DEF Choose, ArpInv, ArpTypeOK
<1>2. /\ idx' \in Index
      /\ Swept[idx'].state = "EMPTY" => idx' \in First(In(Swept, {"EMPTY"}))
  BY <1>1, RecycledIsIndex
<1>3. \A i \in Index : (i < idx \/ i = idx) /\ (i < idx => i # idx)
  BY <1>1, ArpAssumption DEF Index
<1>4. /\ Swept[idx].state = "EMPTY" <=> arp_table[idx].state = "EMPTY"
      /\ \A i \in Index : i # idx => Swept[i] = seen[i]
  BY SweptKind DEF ArpInv
<1>5. Unseen \in [Index -> Entry]
  BY EntryValues DEF Unseen, Emptied, Entry
<1>6. PlaceOK'
  BY <1>1 DEF ArpInv, PlaceOK
<1>7. ASSUME TableOK(arp_table), InHand(arp_table) PROVE InHand(arp_table)'
  <2>1. Matching(arp_table, dst) = {}
    BY <1>1, <1>3, <1>7 DEF InHand, Matching
  <2>2. ASSUME pc' = "fill" PROVE arp_table[idx'].state = "EMPTY"
    <3>1. Swept[idx'].state = "EMPTY" /\ idx' \in First(In(Swept, {"EMPTY"}))
      BY <1>1, <1>2, <2>2
    <3>2. CASE idx' = idx
      BY <1>4, <3>1, <3>2
    <3>3. CASE idx' < idx
      <4>1. idx' \in SeenEmpty
        BY <1>2, <1>3, <1>4, <3>1, <3>3 DEF SeenEmpty, First, In
      <4> QED BY <1>1, <1>7, <4>1 DEF InHand
    <3> QED BY <1>2, <1>3, <3>2, <3>3
  <2>3. pc' = "fill" => arp_table[idx'].q = NONE
    BY <1>2, <1>7, <2>2 DEF TableOK, EntryOK
  <2> QED BY <1>1, <2>1, <2>2, <2>3 DEF InHand, Matching
<1> QED BY <1>1, <1>2, <1>5, <1>6, <1>7, ReadStep DEF Freeing

\* A step that writes e to the entry in hand, as young as it was or younger,
\* and for the same host or for one that had no other.
LEMMA WriteStep ==
  ASSUME ArpInv, NEW e \in Entry, arp_table' = [arp_table EXCEPT ![idx] = e],
         torn' = torn,
         pc' \in {"idle", "look", "send", "ask", "xmit", "find", "free", "drop",
                  "clear", "empty", "fill", "mark", "pend", "put", "store", "link",
                  "tmr", "age", "test", "renew"},
         idx' \in Index, dst' \in Maybe, seen' \in [Index -> Entry],
         age' \in 0 .. ARP_MAXAGE,
         pc \in Freeing => (pc' \in Freeing /\ idx' = idx) \/ e.ctime # ARP_MAXAGE,
         e.ctime = ARP_MAXAGE => \/ e.ctime = arp_table[idx].ctime
                                 \/ pc' \in Freeing /\ idx' = idx,
         PlaceOK',
         ~torn /\ TableOK(arp_table) /\ InHand(arp_table) =>
           /\ EntryOK(e)
           /\ e.state # "EMPTY" => \/ /\ arp_table[idx].state # "EMPTY"
                                      /\ e.ipaddr = arp_table[idx].ipaddr
                                   \/ Matching(arp_table, e.ipaddr) \subseteq {idx}
           /\ InHand(arp_table)'
  PROVE  ArpInv'
<1>1. arp_table \in [Index -> Entry] /\ idx \in Index /\ torn \in BOOLEAN
  BY DEF ArpInv, ArpTypeOK
<1>2. /\ arp_table' \in [Index -> Entry]
      /\ arp_table'[idx] = e /\ \A j \in Index : j # idx => arp_table'[j] = arp_table[j]
  BY <1>1
<1>3. ArpTypeOK'
  BY <1>1, <1>2 DEF ArpTypeOK
<1>4. AgeOK'
  BY <1>1, <1>2 DEF ArpInv, AgeOK
<1>5. ASSUME ~torn' PROVE TableOK(arp_table)' /\ InHand(arp_table)'
  <2>1. ~torn /\ TableOK(arp_table) /\ InHand(arp_table)
    BY <1>5 DEF ArpInv
  <2>2. \A j \in Index : EntryOK(arp_table'[j])
    BY <1>2, <2>1 DEF TableOK
  <2>3. ASSUME NEW j \in Index, j # idx, e.state # "EMPTY", arp_table[j].state # "EMPTY"
        PROVE  e.ipaddr # arp_table[j].ipaddr
    BY <1>1, <2>1, <2>3 DEF TableOK, Unique, Matching, For
  <2>4. Unique(arp_table')
    BY <1>1, <1>2, <2>1, <2>3 DEF TableOK, Unique
  <2>5. TableOK(arp_table')
    BY <2>2, <2>4 DEF TableOK
  <2> QED BY <2>1, <2>5
<1> QED BY <1>3, <1>4, <1>5 DEF ArpInv

\* A mapping that is asked for again is marked.
LEMMA AskInv ==
  ASSUME ArpInv, Ask
  PROVE  ArpInv'
<1>1. /\ arp_table \in [Index -> Entry] /\ idx \in Index /\ arp_table[idx] \in Entry
      /\ pc = "ask" /\ pc' = "xmit" /\ UNCHANGED <<idx, dst, seen, age, torn>>
      /\ dst \in Maybe /\ dst # NONE
      /\ seen \in [Index -> Entry] /\ age \in 0 .. ARP_MAXAGE
  BY DEF ArpInv, ArpTypeOK, PlaceOK, Ask, Goto, local
<1>2. PlaceOK'
  BY <1>1 DEF PlaceOK
<1>3. CASE arp_table' = arp_table
  <2>1. InHand(arp_table) => InHand(arp_table)'
    BY <1>1, <1>3 DEF InHand
  <2> QED BY <1>1, <1>2, <1>3, <2>1, ReadStep DEF Freeing
<1>4. CASE arp_table' = [arp_table EXCEPT ![idx].state = "STABLE_REREQUESTING"]
  <2> DEFINE e == [arp_table[idx] EXCEPT !.state = "STABLE_REREQUESTING"]
  <2>1. arp_table' = [arp_table EXCEPT ![idx] = e]
    BY <1>4
  <2>2. /\ e \in Entry /\ e.state = "STABLE_REREQUESTING"
        /\ e.ipaddr = arp_table[idx].ipaddr /\ e.ethaddr = arp_table[idx].ethaddr
        /\ e.ctime = arp_table[idx].ctime /\ e.q = arp_table[idx].q
    BY <1>1, EntryValues DEF Entry
  <2> HIDE DEF e
  <2>3. arp_table'[idx] = e
    BY <1>1, <2>1
  <2>4. ASSUME TableOK(arp_table), InHand(arp_table)
        PROVE  EntryOK(e) /\ arp_table[idx].state # "EMPTY" /\ InHand(arp_table)'
    <3>1. EntryOK(arp_table[idx]) /\ Known(arp_table[idx], dst)
      BY <1>1, <2>4 DEF TableOK, InHand
    <3>2. EntryOK(e) /\ arp_table[idx].state # "EMPTY"
      BY <2>2, <3>1 DEF EntryOK, Known, Stable
    <3>3. InHand(arp_table)'
      BY <1>1, <2>2, <2>3, <3>1 DEF InHand, Known, Stable
    <3> QED BY <3>2, <3>3
  <2> QED BY <1>1, <1>2, <2>1, <2>2, <2>4, WriteStep DEF Freeing
<1> QED BY <1>3, <1>4 DEF Ask

\* etharp_free_entry forgets the packet ...
LEMMA ClearInv ==
  ASSUME ArpInv, ClearPointer
  PROVE  ArpInv'
<1> DEFINE e == [arp_table[idx] EXCEPT !.q = NONE]
<1>1. /\ arp_table \in [Index -> Entry] /\ idx \in Index /\ arp_table[idx] \in Entry
      /\ pc = "clear" /\ pc' = "empty" /\ UNCHANGED <<idx, dst, seen, age, torn>>
      /\ dst \in Maybe /\ seen \in [Index -> Entry] /\ age \in 0 .. ARP_MAXAGE
      /\ arp_table' = [arp_table EXCEPT ![idx] = e]
  BY DEF ArpInv, ArpTypeOK, ClearPointer, Goto, local
<1>2. /\ e \in Entry /\ e.state = arp_table[idx].state
      /\ e.ipaddr = arp_table[idx].ipaddr /\ e.ethaddr = arp_table[idx].ethaddr
      /\ e.ctime = arp_table[idx].ctime /\ e.q = NONE
  BY <1>1, EntryValues DEF Entry
<1> HIDE DEF e
<1>3. arp_table'[idx] = e /\ \A j \in Index : j # idx => arp_table'[j] = arp_table[j]
  BY <1>1
<1>4. PlaceOK'
  BY <1>1 DEF PlaceOK
<1>5. ASSUME TableOK(arp_table), InHand(arp_table)
      PROVE  EntryOK(e) /\ InHand(arp_table)'
             /\ (e.state # "EMPTY" => arp_table[idx].state # "EMPTY")
  <2>1. EntryOK(e)
    BY <1>1, <1>2, <1>5 DEF TableOK, EntryOK
  <2>2. Matching(arp_table', dst) = Matching(arp_table, dst)
    BY <1>2, <1>3 DEF Matching, For
  <2>3. InHand(arp_table)'
    BY <1>1, <1>2, <1>3, <1>5, <2>2 DEF InHand
  <2> QED BY <1>2, <2>1, <2>3
<1> QED BY <1>1, <1>2, <1>4, <1>5, WriteStep DEF Freeing

\* ... and sets the entry free.
LEMMA SetEmptyInv ==
  ASSUME ArpInv, SetEmpty
  PROVE  ArpInv'
<1> DEFINE e == Emptied(arp_table[idx])
<1>1. /\ arp_table \in [Index -> Entry] /\ idx \in Index /\ arp_table[idx] \in Entry
      /\ pc = "empty" /\ arp_table' = [arp_table EXCEPT ![idx] = e] /\ torn' = torn
      /\ dst \in Maybe /\ seen \in [Index -> Entry] /\ age \in 0 .. ARP_MAXAGE
      /\ ArpTypeOK
  BY DEF ArpInv, ArpTypeOK, SetEmpty
<1>2. e \in Entry /\ e.state = "EMPTY" /\ e.ctime = 0 /\ e.q = arp_table[idx].q
  BY <1>1, EntryValues DEF Entry, Emptied
<1> HIDE DEF e
<1>3. arp_table'[idx] = e /\ \A j \in Index : j # idx => arp_table'[j] = arp_table[j]
  BY <1>1
<1>4. /\ \/ dst # NONE /\ pc' = "fill" /\ UNCHANGED <<idx, dst>>
         \/ pc' \in {"idle", "tmr"} /\ dst' = NONE
      /\ idx' \in Index /\ dst' \in Maybe
      /\ seen' \in [Index -> Entry] /\ age' \in 0 .. ARP_MAXAGE
  BY <1>1, NextEntryPlace, EntryValues DEF SetEmpty, Goto, local
<1>5. PlaceOK'
  BY <1>4 DEF PlaceOK
<1>6. ASSUME TableOK(arp_table), InHand(arp_table)
      PROVE  EntryOK(e) /\ InHand(arp_table)'
  <2>1. e.q = NONE
    BY <1>1, <1>2, <1>6 DEF InHand
  <2>2. EntryOK(e)
    BY <1>2, <2>1 DEF EntryOK, Stable
  <2>3. Matching(arp_table', dst) \subseteq Matching(arp_table, dst)
    BY <1>2, <1>3 DEF Matching, For
  <2>4. CASE pc' = "fill"
    BY <1>1, <1>2, <1>3, <1>4, <1>6, <2>1, <2>2, <2>3, <2>4 DEF InHand
  <2>5. CASE pc' \in {"idle", "tmr"}
    BY <2>2, <2>5 DEF InHand
  <2> QED BY <1>4, <2>4, <2>5
<1>7. e.ctime # ARP_MAXAGE
  BY <1>2, EntryValues
<1>8. pc' \in {"fill", "idle", "tmr"}
  BY <1>4
<1> QED BY <1>1, <1>2, <1>4, <1>5, <1>6, <1>7, <1>8, WriteStep

\* A new entry gets its address.
LEMMA FillInv ==
  ASSUME ArpInv, Fill
  PROVE  ArpInv'
<1> DEFINE e == [arp_table[idx] EXCEPT !.ipaddr = dst, !.ctime = 0]
<1>1. /\ arp_table \in [Index -> Entry] /\ idx \in Index /\ arp_table[idx] \in Entry
      /\ dst \in Maybe /\ dst # NONE /\ seen \in [Index -> Entry]
      /\ age \in 0 .. ARP_MAXAGE
      /\ pc = "fill" /\ pc' = "mark" /\ arp_table' = [arp_table EXCEPT ![idx] = e]
      /\ UNCHANGED <<idx, dst, seen, age, torn>>
  BY DEF ArpInv, ArpTypeOK, PlaceOK, Fill, Goto, local
<1>2. /\ e \in Entry /\ e.state = arp_table[idx].state /\ e.ipaddr = dst
      /\ e.ctime = 0 /\ e.q = arp_table[idx].q
  BY <1>1, EntryValues DEF Entry
<1> HIDE DEF e
<1>3. arp_table'[idx] = e /\ \A j \in Index : j # idx => arp_table'[j] = arp_table[j]
  BY <1>1
<1>4. PlaceOK' /\ e.ctime # ARP_MAXAGE
  BY <1>1, <1>2, EntryValues DEF PlaceOK
<1>5. ASSUME TableOK(arp_table), InHand(arp_table)
      PROVE  EntryOK(e) /\ e.state = "EMPTY" /\ InHand(arp_table)'
  <2>1. e.state = "EMPTY" /\ e.q = NONE /\ Matching(arp_table, dst) \subseteq {idx}
    BY <1>1, <1>2, <1>5 DEF InHand
  <2>2. EntryOK(e)
    BY <1>2, <2>1 DEF EntryOK, Stable
  <2>3. Matching(arp_table', dst) \subseteq {idx}
    BY <1>3, <2>1 DEF Matching, For
  <2>4. InHand(arp_table)'
    BY <1>1, <1>2, <1>3, <2>3 DEF InHand
  <2> QED BY <2>1, <2>2, <2>4
<1> QED BY <1>1, <1>2, <1>4, <1>5, WriteStep DEF Freeing

\* ... is pending ...
LEMMA PendInv ==
  ASSUME ArpInv, Pend
  PROVE  ArpInv'
<1> DEFINE e == [arp_table[idx] EXCEPT !.state = "PENDING"]
<1>1. /\ arp_table \in [Index -> Entry] /\ idx \in Index /\ arp_table[idx] \in Entry
      /\ dst \in Maybe /\ dst # NONE /\ seen \in [Index -> Entry]
      /\ age \in 0 .. ARP_MAXAGE
      /\ pc = "pend" /\ pc' = "put" /\ arp_table' = [arp_table EXCEPT ![idx] = e]
      /\ UNCHANGED <<idx, dst, seen, age, torn>>
  BY DEF ArpInv, ArpTypeOK, PlaceOK, Pend, Goto, local
<1>2. /\ e \in Entry /\ e.state = "PENDING" /\ e.ipaddr = arp_table[idx].ipaddr
      /\ e.ctime = arp_table[idx].ctime /\ e.q = arp_table[idx].q
  BY <1>1, EntryValues DEF Entry
<1> HIDE DEF e
<1>3. arp_table'[idx] = e
  BY <1>1
<1>4. PlaceOK'
  BY <1>1 DEF PlaceOK
<1>5. ASSUME TableOK(arp_table), InHand(arp_table)
      PROVE  EntryOK(e) /\ Matching(arp_table, e.ipaddr) \subseteq {idx}
             /\ InHand(arp_table)'
  <2>1. arp_table[idx].ipaddr = dst /\ Matching(arp_table, dst) \subseteq {idx}
    BY <1>1, <1>5 DEF InHand
  <2>2. EntryOK(e)
    BY <1>1, <1>2, <1>5, <2>1 DEF TableOK, EntryOK, Stable
  <2>3. InHand(arp_table)'
    BY <1>1, <1>2, <1>3, <2>1 DEF InHand, For
  <2> QED BY <1>2, <2>1, <2>2, <2>3
<1> QED BY <1>1, <1>2, <1>4, <1>5, WriteStep DEF Freeing

\* ... and gets the packet.
LEMMA LinkInv ==
  ASSUME ArpInv, Link
  PROVE  ArpInv'
<1> DEFINE e == [arp_table[idx] EXCEPT !.q = dst]
<1>1. /\ arp_table \in [Index -> Entry] /\ idx \in Index /\ arp_table[idx] \in Entry
      /\ dst \in Maybe /\ dst # NONE /\ Return /\ torn' = torn
      /\ pc = "link" /\ arp_table' = [arp_table EXCEPT ![idx] = e]
  BY DEF ArpInv, ArpTypeOK, PlaceOK, Link
<1>2. /\ e \in Entry /\ e.state = arp_table[idx].state /\ e.q = dst
      /\ e.ipaddr = arp_table[idx].ipaddr /\ e.ctime = arp_table[idx].ctime
  BY <1>1, EntryValues DEF Entry
<1> HIDE DEF e
<1>3. PlaceOK' /\ InHand(arp_table)' /\ dst' \in Maybe
  BY <1>1, ReturnPlace, EntryValues DEF PlaceOK, InHand
<1>4. ASSUME TableOK(arp_table), InHand(arp_table)
      PROVE  EntryOK(e) /\ arp_table[idx].state # "EMPTY"
  <2>1. For(arp_table[idx], dst) /\ arp_table[idx].state = "PENDING"
    BY <1>1, <1>4 DEF InHand
  <2> QED BY <1>1, <1>2, <1>4, <2>1 DEF TableOK, EntryOK, Stable, For
<1>5. pc \notin Freeing
  BY <1>1 DEF Freeing
<1> QED BY <1>1, <1>2, <1>3, <1>4, <1>5, ReturnPlace, WriteStep

-----------------------------------------------------------------------------
(* etharp_tmr.                                                             *)

\* An entry's age is read, and compared once it is stored.
LEMMA TmrReadInv ==
  ASSUME ArpInv, TmrStart \/ TmrEntry \/ Test
  PROVE  ArpInv'
<1>1. /\ idx \in Index /\ arp_table[idx] \in Entry /\ dst = NONE /\ ArpTypeOK
      /\ dst \in Maybe /\ seen \in [Index -> Entry] /\ age \in 0 .. ARP_MAXAGE
      /\ UNCHANGED <<arp_table, torn>>
  BY DEF ArpInv, ArpTypeOK, PlaceOK, TmrStart, TmrEntry, Test
<1>2. CASE NextEntry /\ pc \in Freeing => arp_table[idx].ctime # ARP_MAXAGE
  <2>1. CASE NextEntry
    <3>1. PlaceOK' /\ InHand(arp_table)'
      BY <1>1, <2>1, NextEntryPlace DEF PlaceOK, InHand
    <3>2. pc' \in {"idle", "tmr"} /\ dst' \in Maybe
      BY <1>1, <2>1, NextEntryPlace
    <3> QED BY <1>1, <1>2, <2>1, <3>1, <3>2, NextEntryPlace, ReadStep
  <2>2. CASE TmrStart
    <3>1. pc = "idle" /\ pc' = "tmr" /\ UNCHANGED <<idx, dst, seen, age>>
      BY <2>2 DEF TmrStart, local
    <3>2. PlaceOK' /\ InHand(arp_table)' /\ pc \notin Freeing
      BY <1>1, <3>1 DEF PlaceOK, InHand, Freeing
    <3> QED BY <1>1, <3>1, <3>2, ReadStep
  <2>3. CASE TmrEntry /\ ~NextEntry
    <3>1. /\ pc = "tmr" /\ pc' = "age" /\ UNCHANGED <<idx, dst, seen>>
          /\ arp_table[idx].state # "EMPTY" /\ age' = arp_table[idx].ctime + 1
      BY <2>3 DEF TmrEntry
    <3>2. arp_table[idx].ctime # ARP_MAXAGE /\ pc \notin Freeing
      BY <1>1, <3>1 DEF ArpInv, AgeOK, Freeing
    <3>3. age' \in 0 .. ARP_MAXAGE
      BY <1>1, <3>1, <3>2, ArpAssumption DEF Entry
    <3>4. PlaceOK' /\ InHand(arp_table)'
      BY <1>1, <3>1 DEF PlaceOK, InHand
    <3> QED BY <1>1, <3>1, <3>2, <3>3, <3>4, ReadStep
  <2>4. CASE Test /\ ~NextEntry
    <3>1. /\ pc = "test" /\ UNCHANGED <<idx, dst, seen, age>>
          /\ \/ pc' = "free"
             \/ /\ pc' = "renew" /\ arp_table[idx].state = "STABLE_REREQUESTING"
                /\ ~(arp_table[idx].ctime >= ARP_MAXAGE)
      BY <2>4 DEF Test, Goto, local
    <3>2. pc' = "renew" => arp_table[idx].ctime # ARP_MAXAGE
      BY <1>1, <3>1, ArpAssumption DEF Entry
    <3>3. PlaceOK' /\ InHand(arp_table)'
      BY <1>1, <3>1 DEF PlaceOK, InHand, Stable
    <3>4. pc' \in Freeing \/ arp_table[idx].ctime # ARP_MAXAGE
      BY <3>1, <3>2 DEF Freeing
    <3> QED BY <1>1, <3>1, <3>3, <3>4, ReadStep
  <2> QED BY <2>1, <2>2, <2>3, <2>4
<1>3. ASSUME NextEntry, pc \in Freeing PROVE arp_table[idx].ctime # ARP_MAXAGE
  <2>1. CASE Test
    <3>1. pc' \in {"idle", "tmr"}
      BY <1>1, <1>3, NextEntryPlace
    <3>2. ~(arp_table[idx].ctime >= ARP_MAXAGE)
      BY <2>1, <3>1 DEF Test, Goto
    <3> QED BY <1>1, <3>2, ArpAssumption DEF Entry
  <2>2. CASE TmrStart \/ TmrEntry
    BY <1>3, <2>2 DEF TmrStart, TmrEntry, Freeing
  <2> QED BY <2>1, <2>2
<1> QED BY <1>2, <1>3

\* The new age is stored.
LEMMA AgeStoreInv ==
  ASSUME ArpInv, Age
  PROVE  ArpInv'
<1> DEFINE e == [arp_table[idx] EXCEPT !.ctime = age]
<1>1. /\ arp_table \in [Index -> Entry] /\ idx \in Index /\ arp_table[idx] \in Entry
      /\ dst = NONE /\ dst \in Maybe /\ seen \in [Index -> Entry]
      /\ age \in 0 .. ARP_MAXAGE /\ arp_table[idx].state # "EMPTY"
      /\ pc = "age" /\ pc' = "test" /\ arp_table' = [arp_table EXCEPT ![idx] = e]
      /\ UNCHANGED <<idx, dst, seen, torn>> /\ age' = 0
  BY DEF ArpInv, ArpTypeOK, PlaceOK, Age
<1>2. /\ e \in Entry /\ e.state = arp_table[idx].state /\ e.q = arp_table[idx].q
      /\ e.ipaddr = arp_table[idx].ipaddr /\ e.ethaddr = arp_table[idx].ethaddr
  BY <1>1 DEF Entry
<1> HIDE DEF e
<1>3. arp_table'[idx] = e
  BY <1>1
<1>4. PlaceOK' /\ InHand(arp_table)'
  BY <1>1, <1>2, <1>3 DEF PlaceOK, InHand
<1>5. TableOK(arp_table) => EntryOK(e)
  BY <1>1, <1>2 DEF TableOK, EntryOK
<1> QED BY <1>1, <1>2, <1>4, <1>5, EntryValues, WriteStep DEF Freeing

\* A mapping may be asked for again.
LEMMA RenewInv ==
  ASSUME ArpInv, Renew
  PROVE  ArpInv'
<1> DEFINE e == [arp_table[idx] EXCEPT !.state = "STABLE"]
<1>1. /\ arp_table \in [Index -> Entry] /\ idx \in Index /\ arp_table[idx] \in Entry
      /\ dst = NONE /\ ArpTypeOK /\ NextEntry
      /\ pc = "renew" /\ arp_table' = [arp_table EXCEPT ![idx] = e] /\ torn' = torn
      /\ arp_table[idx].state # "EMPTY"
  BY DEF ArpInv, ArpTypeOK, PlaceOK, Renew
<1>2. /\ e \in Entry /\ e.state = "STABLE" /\ e.q = arp_table[idx].q
      /\ e.ipaddr = arp_table[idx].ipaddr /\ e.ethaddr = arp_table[idx].ethaddr
      /\ e.ctime = arp_table[idx].ctime
  BY <1>1, EntryValues DEF Entry
<1> HIDE DEF e
<1>3. PlaceOK' /\ InHand(arp_table)' /\ dst' \in Maybe /\ pc' \in {"idle", "tmr"}
  BY <1>1, NextEntryPlace, EntryValues DEF PlaceOK, InHand
<1>4. ASSUME TableOK(arp_table), InHand(arp_table) PROVE EntryOK(e)
  <2>1. arp_table[idx].state \in Stable
    BY <1>1, <1>4 DEF InHand
  <2> QED BY <1>1, <1>2, <1>4, <2>1 DEF TableOK, EntryOK, Stable
<1>5. pc \notin Freeing
  BY <1>1 DEF Freeing
<1> QED BY <1>1, <1>2, <1>3, <1>4, <1>5, NextEntryPlace, WriteStep

\* The invariant is inductive.
LEMMA ArpInductive == ArpInv /\ [ArpNext]_arpVars => ArpInv'
<1> SUFFICES ASSUME ArpInv, [ArpNext]_arpVars PROVE ArpInv'
  OBVIOUS
<1>1. CASE EthIrq
  BY <1>1, EthIrqInv
<1>2. CASE \E h \in Hosts : MainOutput(h)
  BY <1>2, LookInv
<1>3. CASE MainStep
  BY <1>3, LookInv, ReadInv, FoundInv, SweepInv, ChooseInv, AskInv, ClearInv,
     SetEmptyInv, FillInv, PendInv, LinkInv, TmrReadInv, AgeStoreInv, RenewInv
     DEF MainStep
<1>4. CASE TmrStart
  BY <1>4, TmrReadInv
<1>5. CASE UNCHANGED arpVars
  BY <1>5 DEF arpVars, local, ArpInv, ArpTypeOK, AgeOK, PlaceOK, TableOK, Unique,
              InHand, SeenEmpty
<1> QED BY <1>1, <1>2, <1>3, <1>4, <1>5 DEF ArpNext

-----------------------------------------------------------------------------
\* The ARP table and the main loop's variables keep their types, whatever
\* the interrupt does between two steps of the main loop; in particular no
\* age exceeds ARP_MAXAGE and no index leaves the table.
THEOREM ArpTypeCorrect == ArpSpec => []ArpTypeOK
<1>1. ArpInv => ArpTypeOK
  BY DEF ArpInv
<1> QED BY <1>1, ArpInitially, ArpInductive, PTL DEF ArpSpec

\* Both contexts search before they make an entry, and as long as torn is
\* FALSE no host gets two.  torn excludes the interrupt that makes an entry
\* for dst behind the main loop's sweep or after it, and the one that takes
\* the entry the main loop has chosen (Tears).
THEOREM HostsHaveOneEntry == ArpSpec => []OneEntryPerHost
<1>1. ArpInv => OneEntryPerHost
  BY DEF ArpInv, TableOK, Unique, OneEntryPerHost
<1> QED BY <1>1, ArpInitially, ArpInductive, PTL DEF ArpSpec

\* As long as torn is FALSE a packet waits only in the pending entry of its
\* own host.
THEOREM PacketsWaitAtTheirHost == ArpSpec => []QueueIsOwn
<1>1. ArpInv => QueueIsOwn
  BY DEF ArpInv, TableOK, EntryOK, QueueIsOwn
<1> QED BY <1>1, ArpInitially, ArpInductive, PTL DEF ArpSpec

\* As long as torn is FALSE a stable entry has its own host's MAC address, and
\* the main loop's packet leaves for that of the host it is for.
THEOREM MappingsAreTrue == ArpSpec => []MappingIsTrue
<1>1. ASSUME ArpInv, ~torn
      PROVE  /\ \A i \in Index : arp_table[i].state \in Stable =>
                  arp_table[i].ethaddr = arp_table[i].ipaddr
             /\ pc = "xmit" => arp_table[idx].ethaddr = dst
  BY <1>1 DEF ArpInv, ArpTypeOK, TableOK, EntryOK, InHand, Known
<1>2. ArpInv => MappingIsTrue
  BY <1>1 DEF MappingIsTrue
<1> QED BY <1>2, ArpInitially, ArpInductive, PTL DEF ArpSpec

-----------------------------------------------------------------------------
(* Ages.  Neither an interrupt nor the main loop makes a pending entry     *)
(* younger, and none grows older than etharp_tmr allows, torn or not.      *)

PendingFor(t, i, h) == t[i].state = "PENDING" /\ t[i].ipaddr = h

\* The age at which etharp_tmr frees an entry.
AgeLimit(e) == IF e.state = "PENDING" THEN ARP_MAXPENDING ELSE ARP_MAXAGE

\* An entry that has reached its limit is the one that etharp_tmr is freeing.
ExpiresInTime ==
  \A i \in Index :
    arp_table[i].state # "EMPTY" /\ arp_table[i].ctime >= AgeLimit(arp_table[i]) =>
      pc \in Freeing /\ dst = NONE /\ i = idx

\* A free entry has no age, nor has an entry that the main loop has seen free
\* and that has been taken since; the age about to be stored is higher than
\* the one in the table.
AgesKnown ==
  /\ \A i \in Index : arp_table[i].state = "EMPTY" => arp_table[i].ctime = 0
  /\ pc = "find" => \A i \in Index : i < idx /\ seen[i].state = "EMPTY" =>
                                      arp_table[i].ctime = 0
  /\ pc \in {"fill", "pend"} => arp_table[idx].ctime = 0
  /\ pc = "age" => arp_table[idx].ctime < age

AgeInv == ExpiresInTime /\ AgesKnown

\* In a step an entry that is pending for h keeps its age or grows older as
\* long as it is pending for h: packets queued for h do not prolong it.
Older == \A i \in Index, h \in Hosts :
           PendingFor(arp_table, i, h) /\ PendingFor(arp_table', i, h) =>
             arp_table'[i].ctime >= arp_table[i].ctime

GrowsOlder == [][Older]_arpVars

\* f, in the place of e, is new or in use again and starts at 0, or is what e
\* was and keeps its age.
Ages(e, f) ==
  \/ /\ f.ctime = 0 /\ f.state # "EMPTY"
     /\ ~(e.state = "PENDING" /\ f.state = "PENDING" /\ f.ipaddr = e.ipaddr)
  \/ /\ f.ctime = e.ctime
     /\ f.state = e.state \/ (f.state \in Stable /\ e.state \in Stable)

TableAges(t, u) == \A i \in Index : Ages(t[i], u[i])

\* Entries that are not touched keep their age.
LEMMA OneAges ==
  ASSUME NEW t \in [Index -> Entry], NEW i \in Index, NEW e, NEW u,
         u = [t EXCEPT ![i] = e], Ages(t[i], e)
  PROVE  TableAges(t, u)
<1>1. \A j \in Index : u[j] = IF j = i THEN e ELSE t[j]
  OBVIOUS
<1>2. \A j \in Index : Ages(t[j], t[j])
  BY DEF Ages
<1> QED BY <1>1, <1>2 DEF TableAges

\* An entry made stable starts at 0.
LEMMA UpdatedAges ==
  ASSUME NEW t \in [Index -> Entry], NEW h \in Hosts, NEW i \in Index
  PROVE  /\ TableAges(t, Updated(t, i, h))
         /\ TableAges(t, Updated(Fresh(t, i, h), i, h))
<1>1. ASSUME NEW f \in Entry, NEW v, v = [t EXCEPT ![i] = f]
      PROVE  TableAges(t, Updated(v, i, h))
  <2> DEFINE e == [f EXCEPT !.state = "STABLE", !.ethaddr = h, !.ctime = 0,
                            !.q = NONE]
  <2>1. e.state = "STABLE" /\ e.ctime = 0
    BY DEF Entry
  <2>2. Updated(v, i, h) = [t EXCEPT ![i] = e]
    BY <1>1 DEF Updated
  <2> HIDE DEF e
  <2>3. Ages(t[i], e)
    BY <2>1 DEF Ages
  <2> QED BY <2>2, <2>3, OneAges
<1>2. t[i] \in Entry /\ t = [t EXCEPT ![i] = t[i]]
  OBVIOUS
<1>3. \E f \in Entry : Fresh(t, i, h) = [t EXCEPT ![i] = f]
  BY FreshEntry
<1> QED BY <1>1, <1>2, <1>3

\* A packet that is sent leaves all ages alone.
LEMMA OutputAges ==
  ASSUME NEW t \in [Index -> Entry], NEW i \in Index, NEW ok \in BOOLEAN
  PROVE  TableAges(t, OutputTo(t, i, ok))
<1>1. t[i] \in Entry
  OBVIOUS
<1>2. CASE t[i].state = "STABLE" /\ t[i].ctime >= ARP_AGE_REREQUEST_USED /\ ok
  <2> DEFINE e == [t[i] EXCEPT !.state = "STABLE_REREQUESTING"]
  <2>1. e.state = "STABLE_REREQUESTING" /\ e.ctime = t[i].ctime
    BY <1>1 DEF Entry
  <2>2. OutputTo(t, i, ok) = [t EXCEPT ![i] = e]
    BY <1>2 DEF OutputTo
  <2> HIDE DEF e
  <2>3. Ages(t[i], e)
    BY <1>2, <2>1 DEF Ages, Stable
  <2> QED BY <2>2, <2>3, OneAges
<1>3. CASE ~(t[i].state = "STABLE" /\ t[i].ctime >= ARP_AGE_REREQUEST_USED /\ ok)
  <2>1. OutputTo(t, i, ok) = t
    BY <1>3 DEF OutputTo
  <2> QED BY <2>1 DEF TableAges, Ages
<1> QED BY <1>2, <1>3

\* A packet that is queued leaves its entry's age alone, or makes the entry.
LEMMA QueryAges ==
  ASSUME NEW t \in [Index -> Entry], NEW h \in Hosts, NEW i \in Index,
         NEW ok \in BOOLEAN
  PROVE  TableAges(t, Query(t, i, h, ok))
<1>1. ASSUME NEW f \in Entry
      PROVE  LET e == IF ok THEN [f EXCEPT !.q = h] ELSE f
             IN  e.state = f.state /\ e.ipaddr = f.ipaddr /\ e.ctime = f.ctime
  BY DEF Entry
<1>2. CASE Matching(t, h) # {}
  <2> DEFINE e == IF ok THEN [t[i] EXCEPT !.q = h] ELSE t[i]
  <2>1. e.state = t[i].state /\ e.ctime = t[i].ctime
    BY <1>1
  <2>2. Query(t, i, h, ok) = [t EXCEPT ![i] = e]
    BY <1>2 DEF Query, Queued
  <2> HIDE DEF e
  <2>3. Ages(t[i], e)
    BY <2>1 DEF Ages
  <2> QED BY <2>2, <2>3, OneAges
<1>3. CASE Matching(t, h) = {}
  <2>1. PICK f \in Entry : /\ Fresh(t, i, h) = [t EXCEPT ![i] = f]
                           /\ f.state = "EMPTY" /\ f.ipaddr = h /\ f.ctime = 0
    BY FreshEntry
  <2> DEFINE g == [f EXCEPT !.state = "PENDING"]
             e == IF ok THEN [g EXCEPT !.q = h] ELSE g
  <2>2. g \in Entry /\ g.state = "PENDING" /\ g.ipaddr = h /\ g.ctime = 0
    BY <2>1 DEF Entry
  <2>3. Query(t, i, h, ok) = [t EXCEPT ![i] = e]
    BY <1>3, <2>1 DEF Query, Queued
  <2> HIDE DEF g
  <2>4. e.state = "PENDING" /\ e.ipaddr = h /\ e.ctime = 0
    BY <1>1, <2>2
  <2> HIDE DEF e
  <2>5. ~(t[i].state = "PENDING" /\ t[i].ipaddr = h)
    BY <1>3 DEF Matching, For
  <2>6. Ages(t[i], e)
    BY <2>4, <2>5 DEF Ages
  <2> QED BY <2>3, <2>6, OneAges
<1> QED BY <1>2, <1>3

\* So no interrupt and no packet sent makes a pending entry younger.
LEMMA EthIrqAges ==
  ASSUME ArpTypeOK, EthIrq
  PROVE  TableAges(arp_table, arp_table')
<1>1. arp_table \in [Index -> Entry]
  BY DEF ArpTypeOK
<1>2. PICK h \in Hosts : \/ \E forUs \in BOOLEAN : etharp_arp_input(h, forUs)
                         \/ etharp_output(h)
  BY DEF EthIrq, ArpPacket, m_udp_demo_recv
<1>3. \A i \in Find(arp_table, h) : i \in Index
  BY FindIsIndex
<1>4. CASE \E forUs \in BOOLEAN : etharp_arp_input(h, forUs)
  BY <1>1, <1>3, <1>4, UpdatedAges DEF etharp_arp_input
<1>5. CASE etharp_output(h)
  BY <1>1, <1>3, <1>5, OutputAges, QueryAges DEF etharp_output
<1> QED BY <1>2, <1>4, <1>5

\* An entry that is at its limit after such a step was at it before.
LEMMA KindKeeps ==
  ASSUME NEW e \in Entry, NEW f \in Entry, Ages(e, f),
         f.state # "EMPTY", f.ctime >= AgeLimit(f)
  PROVE  e.state # "EMPTY" /\ e.ctime >= AgeLimit(e)
<1>1. AgeLimit(f) \in Nat \ {0}
  BY ArpAssumption DEF AgeLimit
<1>2. f.ctime \in Nat
  BY ArpAssumption DEF Entry
<1>3. f.ctime # 0
  BY <1>1, <1>2
<1>4. f.ctime = e.ctime
  BY <1>3 DEF Ages
<1>5. f.state = e.state \/ (f.state \in Stable /\ e.state \in Stable)
  BY <1>3 DEF Ages
<1>6. AgeLimit(f) = AgeLimit(e) /\ e.state # "EMPTY"
  BY <1>5 DEF AgeLimit, Stable
<1> QED BY <1>4, <1>6

\* The same of all entries: the ages the main loop knows of stay as they are,
\* or become 0.
LEMMA AgesKeep ==
  ASSUME ArpTypeOK, ArpTypeOK', AgeInv, TableAges(arp_table, arp_table')
  PROVE  /\ \A i \in Index : arp_table'[i].state # "EMPTY"
                             /\ arp_table'[i].ctime >= AgeLimit(arp_table'[i]) =>
                               pc \in Freeing /\ dst = NONE /\ i = idx
         /\ \A i \in Index : arp_table'[i].state = "EMPTY" => arp_table'[i].ctime = 0
         /\ \A i \in Index : arp_table'[i].ctime \in {0, arp_table[i].ctime}
         /\ Older
<1>1. \A i \in Index : arp_table[i] \in Entry /\ arp_table'[i] \in Entry
  BY DEF ArpTypeOK
<1>2. ASSUME NEW i \in Index, arp_table'[i].state # "EMPTY",
             arp_table'[i].ctime >= AgeLimit(arp_table'[i])
      PROVE  pc \in Freeing /\ dst = NONE /\ i = idx
  <2>1. arp_table[i].state # "EMPTY" /\ arp_table[i].ctime >= AgeLimit(arp_table[i])
    BY <1>1, <1>2, KindKeeps DEF TableAges
  <2> QED BY <2>1 DEF AgeInv, ExpiresInTime
<1>3. \A i \in Index : arp_table'[i].state = "EMPTY" => arp_table'[i].ctime = 0
  BY DEF TableAges, Ages, AgeInv, AgesKnown, Stable
<1>4. \A i \in Index : arp_table'[i].ctime \in {0, arp_table[i].ctime}
  BY DEF TableAges, Ages
<1>5. Older
  <2>1. SUFFICES ASSUME NEW i \in Index, NEW h \in Hosts,
                        PendingFor(arp_table, i, h), PendingFor(arp_table', i, h)
                 PROVE  arp_table'[i].ctime >= arp_table[i].ctime
    BY DEF Older
  <2>2. arp_table'[i].ctime = arp_table[i].ctime /\ arp_table[i].ctime \in Nat
    BY <1>1, <2>1, ArpAssumption DEF TableAges, Ages, PendingFor, Entry
  <2> QED BY <2>2
<1> QED BY <1>2, <1>3, <1>4, <1>5

\* The interrupt.
LEMMA EthIrqAgeInv ==
  ASSUME ArpInv, AgeInv, ArpInv', EthIrq
  PROVE  AgeInv' /\ Older
<1>1. ArpTypeOK /\ ArpTypeOK'
  BY DEF ArpInv
<1>2. UNCHANGED <<pc, idx, dst, seen, age>>
  BY DEF EthIrq, ArpPacket, m_udp_demo_recv, local
<1>3. TableAges(arp_table, arp_table')
  BY <1>1, EthIrqAges
<1>4. ExpiresInTime' /\ Older
  BY <1>1, <1>2, <1>3, AgesKeep DEF ExpiresInTime, AgeLimit
<1>5. idx \in Index /\ age \in Nat /\ arp_table[idx].ctime \in Nat
  BY <1>1, ArpAssumption DEF ArpTypeOK, Entry
<1>6. \A i \in Index : arp_table'[i].ctime \in {0, arp_table[i].ctime}
  BY <1>1, <1>3, AgesKeep
<1>7. \A i \in Index : arp_table'[i].state = "EMPTY" => arp_table'[i].ctime = 0
  BY <1>1, <1>3, AgesKeep
<1>8. pc = "age" => arp_table'[idx].ctime < age
  BY <1>5, <1>6 DEF AgeInv, AgesKnown
<1>9. AgesKnown'
  BY <1>2, <1>5, <1>6, <1>7, <1>8 DEF AgeInv, AgesKnown
<1> QED BY <1>4, <1>9 DEF AgeInv

\* A step of the main loop that changes no age, outside the places where ages
\* count.
LEMMA CalmStep ==
  ASSUME ArpInv, AgeInv, ArpInv', TableAges(arp_table, arp_table'),
         pc \in Freeing /\ dst = NONE =>
           \/ pc' \in Freeing /\ UNCHANGED <<idx, dst>>
           \/ ~(arp_table[idx].ctime >= AgeLimit(arp_table[idx])) /\ arp_table' = arp_table,
         pc' = "find" => pc = "look" /\ idx' = 0,
         pc' \notin {"fill", "pend", "age"}
  PROVE  AgeInv' /\ Older
<1>1. ArpTypeOK /\ ArpTypeOK'
  BY DEF ArpInv
<1>2. ExpiresInTime'
  <2>1. SUFFICES ASSUME NEW i \in Index, arp_table'[i].state # "EMPTY",
                        arp_table'[i].ctime >= AgeLimit(arp_table'[i])
                 PROVE  pc' \in Freeing /\ dst' = NONE /\ i = idx'
    BY DEF ExpiresInTime, AgeLimit
  <2>2. pc \in Freeing /\ dst = NONE /\ i = idx
    BY <1>1, <2>1, AgesKeep
  <2> QED BY <2>1, <2>2
<1>3. \A i \in Index : ~(i < 0)
  BY ArpAssumption DEF Index
<1>4. AgesKnown'
  BY <1>1, <1>3, AgesKeep DEF AgesKnown
<1> QED BY <1>1, <1>2, <1>4, AgesKeep DEF AgeInv

\* Steps that only read.
LEMMA ReadAges ==
  ASSUME ArpInv, AgeInv, ArpInv',
         \/ \E h \in Hosts : MainOutput(h)
         \/ Look \/ Send \/ Xmit \/ Found \/ FreeEntry \/ FreePacket \/ Put \/ Store
         \/ TmrStart \/ Test
  PROVE  AgeInv' /\ Older
<1> USE DEF Goto, local
<1>1. arp_table' = arp_table
  BY DEF MainOutput, Look, Send, Xmit, Found, FreeEntry, FreePacket, Put, Store,
         TmrStart, Test
<1>2. TableAges(arp_table, arp_table')
  BY <1>1 DEF TableAges, Ages
<1>3. CASE Test
  <2>1. pc = "test" /\ dst = NONE /\ ArpTypeOK
    BY <1>3 DEF Test, ArpInv, PlaceOK
  <2>2. CASE Goto("free")
    BY <1>2, <2>1, <2>2, CalmStep DEF Freeing
  <2>3. CASE ~Goto("free")
    <3>1. ~(arp_table[idx].ctime >= AgeLimit(arp_table[idx]))
      BY <1>3, <2>3 DEF Test, AgeLimit
    <3>2. pc' \in {"renew", "idle", "tmr"}
      BY <1>3, <2>1, <2>3, NextEntryPlace DEF Test
    <3> QED BY <1>1, <1>2, <2>1, <3>1, <3>2, CalmStep
  <2> QED BY <2>2, <2>3
<1>4. CASE FreeEntry \/ FreePacket
  BY <1>2, <1>4, CalmStep DEF FreeEntry, FreePacket, Freeing
<1>5. CASE Look
  BY <1>2, <1>5, CalmStep DEF Look, Freeing
<1>6. CASE \/ \E h \in Hosts : MainOutput(h)
           \/ Send \/ Xmit \/ Found \/ Put \/ Store \/ TmrStart
  <2>1. pc \notin Freeing /\ pc' \notin {"find", "fill", "pend", "age"}
    BY <1>6 DEF MainOutput, Send, Xmit, Found, Put, Store, TmrStart, Return, Freeing
  <2> QED BY <1>2, <2>1, CalmStep
<1> QED BY <1>3, <1>4, <1>5, <1>6

\* Those that find an entry free, or read its age.
LEMMA SeenAges ==
  ASSUME ArpInv, AgeInv, ArpInv', Sweep \/ Choose \/ Mark \/ TmrEntry
  PROVE  AgeInv' /\ Older
<1>1. /\ arp_table' = arp_table /\ ArpTypeOK /\ ArpTypeOK'
      /\ pc \notin Freeing /\ idx \in Index /\ arp_table[idx].ctime \in Nat
  BY ArpAssumption DEF Sweep, Choose, Mark, TmrEntry, ArpInv, ArpTypeOK, Freeing, Entry
<1>2. TableAges(arp_table, arp_table')
  BY <1>1 DEF TableAges, Ages
<1>3. ExpiresInTime' /\ Older
  BY <1>1, <1>2, AgesKeep DEF ExpiresInTime, AgeLimit
<1>4. \A i \in Index : arp_table'[i].state = "EMPTY" => arp_table'[i].ctime = 0
  BY <1>1 DEF AgeInv, AgesKnown
<1>5. /\ Swept[idx].state = "EMPTY" <=> arp_table[idx].state = "EMPTY"
      /\ \A i \in Index : i # idx => Swept[i] = seen[i]
  BY <1>1, SweptKind
<1>6. ASSUME pc = "find", NEW i \in Index, i < idx \/ i = idx, Swept[i].state = "EMPTY"
      PROVE  arp_table[i].ctime = 0
  <2>1. CASE i = idx
    BY <1>1, <1>4, <1>5, <1>6, <2>1
  <2>2. CASE i < idx /\ i # idx
    BY <1>5, <1>6, <2>2 DEF AgeInv, AgesKnown
  <2> QED BY <1>6, <2>1, <2>2
<1>7. CASE Sweep
  <2>1. \A i \in Index : i < idx + 1 => i < idx \/ i = idx
    BY <1>1, ArpAssumption DEF Index
  <2>2. pc = "find" /\ pc' = "find" /\ idx' = idx + 1 /\ seen' = Swept
    BY <1>7 DEF Sweep
  <2>3. AgesKnown'
    BY <1>1, <1>4, <1>6, <2>1, <2>2 DEF AgesKnown
  <2> QED BY <1>3, <2>3 DEF AgeInv
<1>8. CASE Choose
  <2>1. /\ pc = "find" /\ idx' \in Recycled(Swept) /\ idx + 1 = ARP_TABLE_SIZE
        /\ \/ pc' = "fill" /\ Swept[idx'].state = "EMPTY"
           \/ pc' = "free"
    BY <1>8 DEF Choose
  <2>2. idx' \in Index /\ (idx' < idx \/ idx' = idx)
    BY <1>1, <2>1, RecycledIsIndex, ArpAssumption DEF Index
  <2>3. pc' = "fill" => arp_table[idx'].ctime = 0
    BY <1>6, <2>1, <2>2
  <2>4. AgesKnown'
    BY <1>1, <1>4, <2>1, <2>3 DEF AgesKnown
  <2> QED BY <1>3, <2>4 DEF AgeInv
<1>9. CASE Mark
  <2>1. idx' = idx /\ (pc' = "put" \/ (pc' = "pend" /\ arp_table[idx].state = "EMPTY"))
    BY <1>9 DEF Mark, Goto, local
  <2>2. AgesKnown'
    BY <1>1, <1>4, <2>1 DEF AgesKnown
  <2> QED BY <1>3, <2>2 DEF AgeInv
<1>10. CASE TmrEntry
  <2>1. \/ pc' \in {"idle", "tmr"}
        \/ pc' = "age" /\ idx' = idx /\ age' = arp_table[idx].ctime + 1
    BY <1>10 DEF TmrEntry, NextEntry, Return
  <2>2. AgesKnown'
    BY <1>1, <1>4, <2>1 DEF AgesKnown
  <2> QED BY <1>3, <2>2 DEF AgeInv
<1> QED BY <1>7, <1>8, <1>9, <1>10

\* A step that gives the entry in hand the age it had, or none, or a higher
\* one that etharp_tmr is about to test.
LEMMA WriteAges ==
  ASSUME ArpInv, AgeInv, ArpInv', NEW e \in Entry,
         arp_table' = [arp_table EXCEPT ![idx] = e],
         e.state = "EMPTY" => e.ctime = 0,
         e.state # "EMPTY" /\ e.ctime >= AgeLimit(e) =>
           pc' \in Freeing /\ dst' = NONE /\ idx' = idx,
         e.state = "PENDING" /\ arp_table[idx].state = "PENDING" =>
           e.ctime >= arp_table[idx].ctime \/ e.ipaddr # arp_table[idx].ipaddr,
         pc' \notin {"find", "fill", "pend", "age"}
         \/ (pc' \in {"fill", "pend"} /\ idx' = idx /\ e.ctime = 0)
  PROVE  AgeInv' /\ Older
<1>1. /\ idx \in Index /\ arp_table'[idx] = e
      /\ \A j \in Index : arp_table[j].ctime \in Nat
      /\ \A j \in Index : j # idx => arp_table'[j] = arp_table[j]
  BY ArpAssumption DEF ArpInv, ArpTypeOK, Entry
<1>2. ExpiresInTime'
  <2>1. SUFFICES ASSUME NEW i \in Index, arp_table'[i].state # "EMPTY",
                        arp_table'[i].ctime >= AgeLimit(arp_table'[i])
                 PROVE  pc' \in Freeing /\ dst' = NONE /\ i = idx'
    BY DEF ExpiresInTime, AgeLimit
  <2>2. i = idx
    BY <1>1, <2>1 DEF AgeInv, ExpiresInTime
  <2> QED BY <1>1, <2>1, <2>2
<1>3. \A i \in Index : arp_table'[i].state = "EMPTY" => arp_table'[i].ctime = 0
  BY <1>1 DEF AgeInv, AgesKnown
<1>4. AgesKnown'
  BY <1>1, <1>3 DEF AgesKnown
<1>5. Older
  <2>1. SUFFICES ASSUME NEW i \in Index, NEW h \in Hosts,
                        PendingFor(arp_table, i, h), PendingFor(arp_table', i, h)
                 PROVE  arp_table'[i].ctime >= arp_table[i].ctime
    BY DEF Older
  <2>2. CASE i = idx
    BY <1>1, <2>1, <2>2 DEF PendingFor
  <2>3. CASE i # idx
    BY <1>1, <2>3
  <2> QED BY <2>2, <2>3
<1> QED BY <1>2, <1>4, <1>5 DEF AgeInv

\* The entry in hand has not reached its limit, outside etharp_tmr's end.
LEMMA HandYoung ==
  ASSUME ArpInv, AgeInv, pc \notin Freeing \/ dst # NONE
  PROVE  /\ arp_table[idx] \in Entry /\ arp_table[idx].ctime \in Nat
         /\ ~(arp_table[idx].ctime >= ARP_MAXAGE) \/ arp_table[idx].state = "EMPTY"
         /\ ~(arp_table[idx].ctime >= AgeLimit(arp_table[idx]))
            \/ arp_table[idx].state = "EMPTY"
         /\ arp_table[idx].state = "EMPTY" => arp_table[idx].ctime = 0
         /\ ~(0 >= ARP_MAXPENDING) /\ ~(0 >= ARP_MAXAGE)
<1>1. idx \in Index /\ arp_table[idx] \in Entry /\ arp_table[idx].ctime \in Nat
  BY ArpAssumption DEF ArpInv, ArpTypeOK, Entry
<1>2. ~(0 >= ARP_MAXPENDING) /\ ~(0 >= ARP_MAXAGE) /\ ARP_MAXPENDING <= ARP_MAXAGE
      /\ ARP_MAXPENDING \in Nat /\ ARP_MAXAGE \in Nat
  BY ArpAssumption
<1>3. \/ ~(arp_table[idx].ctime >= AgeLimit(arp_table[idx]))
      \/ arp_table[idx].state = "EMPTY"
  BY <1>1 DEF AgeInv, ExpiresInTime
<1>4. ~(arp_table[idx].ctime >= ARP_MAXAGE) \/ arp_table[idx].state = "EMPTY"
  BY <1>1, <1>2, <1>3 DEF AgeLimit
<1>5. arp_table[idx].state = "EMPTY" => arp_table[idx].ctime = 0
  BY <1>1 DEF AgeInv, AgesKnown
<1> QED BY <1>1, <1>2, <1>3, <1>4, <1>5

\* etharp_output and etharp_query write to the entry in hand.
LEMMA QueryAgeInv ==
  ASSUME ArpInv, AgeInv, ArpInv', Ask \/ Fill \/ Pend \/ Link
  PROVE  AgeInv' /\ Older
<1> USE DEF Goto, local
<1> DEFINE f == arp_table[idx]
<1>1. pc \notin Freeing
  BY DEF Ask, Fill, Pend, Link, Freeing
<1>2. /\ f \in Entry /\ f.ctime \in Nat
      /\ ~(f.ctime >= ARP_MAXAGE) \/ f.state = "EMPTY"
      /\ ~(f.ctime >= AgeLimit(f)) \/ f.state = "EMPTY"
      /\ f.state = "EMPTY" => f.ctime = 0
      /\ ~(0 >= ARP_MAXPENDING) /\ ~(0 >= ARP_MAXAGE) /\ dst \in Maybe
  BY <1>1, HandYoung DEF ArpInv, ArpTypeOK
<1>3. CASE Ask
  <2>1. pc' = "xmit"
    BY <1>3 DEF Ask
  <2>2. CASE arp_table' = arp_table
    <3>1. TableAges(arp_table, arp_table')
      BY <2>2 DEF TableAges, Ages
    <3> QED BY <1>1, <2>1, <3>1, CalmStep
  <2>3. CASE arp_table' = [arp_table EXCEPT ![idx].state = "STABLE_REREQUESTING"]
    <3> DEFINE e == [f EXCEPT !.state = "STABLE_REREQUESTING"]
    <3>1. e \in Entry /\ e.state = "STABLE_REREQUESTING" /\ e.ctime = f.ctime
      BY <1>2, EntryValues DEF Entry
    <3>2. arp_table' = [arp_table EXCEPT ![idx] = e]
      BY <2>3
    <3> HIDE DEF e
    <3>3. ~(e.ctime >= AgeLimit(e))
      BY <1>2, <3>1 DEF AgeLimit
    <3> QED BY <2>1, <3>1, <3>2, <3>3, WriteAges
  <2> QED BY <1>3, <2>2, <2>3 DEF Ask
<1>4. CASE Fill
  <2> DEFINE e == [f EXCEPT !.ipaddr = dst, !.ctime = 0]
  <2>1. pc = "fill" /\ pc' = "mark" /\ arp_table' = [arp_table EXCEPT ![idx] = e]
    BY <1>4 DEF Fill
  <2>2. e \in Entry /\ e.state = f.state /\ e.ctime = 0
    BY <1>2, EntryValues DEF Entry
  <2>3. f.ctime = 0
    BY <2>1 DEF AgeInv, AgesKnown
  <2> HIDE DEF e
  <2>4. ~(e.ctime >= AgeLimit(e))
    BY <1>2, <2>2 DEF AgeLimit
  <2>5. e.ctime >= f.ctime
    BY <2>2, <2>3
  <2> QED BY <2>1, <2>2, <2>4, <2>5, WriteAges
<1>5. CASE Pend
  <2> DEFINE e == [f EXCEPT !.state = "PENDING"]
  <2>1. pc = "pend" /\ pc' = "put" /\ arp_table' = [arp_table EXCEPT ![idx] = e]
    BY <1>5 DEF Pend
  <2>2. e \in Entry /\ e.state = "PENDING" /\ e.ctime = f.ctime
    BY <1>2, EntryValues DEF Entry
  <2>3. f.ctime = 0
    BY <2>1 DEF AgeInv, AgesKnown
  <2> HIDE DEF e
  <2>4. ~(e.ctime >= AgeLimit(e))
    BY <1>2, <2>2, <2>3 DEF AgeLimit
  <2>5. e.ctime >= f.ctime
    BY <2>2, <2>3
  <2> QED BY <2>1, <2>2, <2>4, <2>5, WriteAges
<1>6. CASE Link
  <2> DEFINE e == [f EXCEPT !.q = dst]
  <2>1. pc' = "idle" /\ arp_table' = [arp_table EXCEPT ![idx] = e]
    BY <1>6 DEF Link, Return
  <2>2. e \in Entry /\ e.state = f.state /\ e.ctime = f.ctime
    BY <1>2, EntryValues DEF Entry
  <2> HIDE DEF e
  <2>3. ~(e.ctime >= AgeLimit(e)) \/ e.state = "EMPTY"
    BY <1>2, <2>2 DEF AgeLimit
  <2>4. e.ctime >= f.ctime
    BY <1>2, <2>2
  <2> QED BY <1>2, <2>1, <2>2, <2>3, <2>4, WriteAges
<1> QED BY <1>3, <1>4, <1>5, <1>6

\* etharp_free_entry.
LEMMA FreeAges ==
  ASSUME ArpInv, AgeInv, ArpInv', ClearPointer \/ SetEmpty
  PROVE  AgeInv' /\ Older
<1> USE DEF Goto, local
<1> DEFINE f == arp_table[idx]
<1>1. /\ idx \in Index /\ f \in Entry /\ f.ctime \in Nat /\ dst \in Maybe /\ ArpTypeOK
      /\ f.state = "EMPTY" => f.ctime = 0
  BY ArpAssumption DEF ArpInv, ArpTypeOK, Entry, AgeInv, AgesKnown
<1>2. CASE ClearPointer
  <2> DEFINE e == [f EXCEPT !.q = NONE]
  <2>1. /\ pc = "clear" /\ pc' = "empty" /\ UNCHANGED <<idx, dst>>
        /\ arp_table' = [arp_table EXCEPT ![idx] = e]
    BY <1>2 DEF ClearPointer
  <2>2. e \in Entry /\ e.state = f.state /\ e.ctime = f.ctime
    BY <1>1, EntryValues DEF Entry
  <2> HIDE DEF e
  <2>3. e.state # "EMPTY" /\ e.ctime >= AgeLimit(e) => dst = NONE
    BY <1>1, <2>2 DEF AgeLimit, AgeInv, ExpiresInTime
  <2>4. e.ctime >= f.ctime
    BY <1>1, <2>2
  <2> QED BY <1>1, <2>1, <2>2, <2>3, <2>4, WriteAges DEF Freeing
<1>3. CASE SetEmpty
  <2> DEFINE e == Emptied(f)
  <2>1. arp_table' = [arp_table EXCEPT ![idx] = e]
    BY <1>3 DEF SetEmpty
  <2>2. \/ pc' = "fill" /\ idx' = idx
        \/ pc' \in {"idle", "tmr"}
    BY <1>1, <1>3, NextEntryPlace DEF SetEmpty
  <2>3. e \in Entry /\ e.state = "EMPTY" /\ e.ctime = 0
    BY <1>1, EntryValues DEF Entry, Emptied
  <2> HIDE DEF e
  <2> QED BY <2>1, <2>2, <2>3, WriteAges
<1> QED BY <1>2, <1>3

\* etharp_tmr makes an entry older and tests it at once.
LEMMA TmrAges ==
  ASSUME ArpInv, AgeInv, ArpInv', Age \/ Renew
  PROVE  AgeInv' /\ Older
<1> DEFINE f == arp_table[idx]
<1>1. /\ idx \in Index /\ f \in Entry /\ f.ctime \in Nat /\ age \in 0 .. ARP_MAXAGE
      /\ age \in Nat /\ ArpTypeOK /\ dst = NONE /\ f.state # "EMPTY"
  BY ArpAssumption DEF ArpInv, ArpTypeOK, Entry, PlaceOK, Age, Renew
<1>2. CASE Age
  <2> DEFINE e == [f EXCEPT !.ctime = age]
  <2>1. /\ pc = "age" /\ pc' = "test" /\ UNCHANGED <<idx, dst>>
        /\ arp_table' = [arp_table EXCEPT ![idx] = e]
    BY <1>2 DEF Age
  <2>2. e \in Entry /\ e.state = f.state /\ e.ctime = age
    BY <1>1 DEF Entry
  <2>3. f.ctime < age
    BY <2>1 DEF AgeInv, AgesKnown
  <2> HIDE DEF e
  <2>4. e.ctime >= f.ctime
    BY <1>1, <2>2, <2>3
  <2> QED BY <1>1, <2>1, <2>2, <2>4, WriteAges DEF Freeing
<1>3. CASE Renew
  <2> DEFINE e == [f EXCEPT !.state = "STABLE"]
  <2>1. pc = "renew" /\ NextEntry /\ arp_table' = [arp_table EXCEPT ![idx] = e]
    BY <1>3 DEF Renew
  <2>2. e \in Entry /\ e.state = "STABLE" /\ e.ctime = f.ctime
    BY <1>1, EntryValues DEF Entry
  <2>3. pc' \in {"idle", "tmr"}
    BY <1>1, <2>1, NextEntryPlace
  <2>4. ~(f.ctime >= ARP_MAXAGE)
    BY <1>1, <2>1, HandYoung DEF Freeing
  <2> HIDE DEF e
  <2>5. ~(e.ctime >= AgeLimit(e))
    BY <2>2, <2>4 DEF AgeLimit
  <2> QED BY <2>1, <2>2, <2>3, <2>5, WriteAges
<1> QED BY <1>2, <1>3

\* Every step: the bound is kept, and no pending entry grows younger.
LEMMA AgeStep ==
  ASSUME ArpInv, AgeInv, ArpInv', [ArpNext]_arpVars
  PROVE  AgeInv' /\ (Older \/ UNCHANGED arpVars)
<1>1. CASE EthIrq
  BY <1>1, EthIrqAgeInv
<1>2. CASE (\E h \in Hosts : MainOutput(h)) \/ MainStep \/ TmrStart
  BY <1>2, ReadAges, SeenAges, QueryAgeInv, FreeAges, TmrAges DEF MainStep
<1>3. CASE UNCHANGED arpVars
  BY <1>3 DEF arpVars, local, AgeInv, ExpiresInTime, AgesKnown, AgeLimit
<1> QED BY <1>1, <1>2, <1>3 DEF ArpNext

\* The table starts without ages.
LEMMA AgeInitially == ArpInit => AgeInv
<1> SUFFICES ASSUME ArpInit PROVE AgeInv
  OBVIOUS
<1>1. \A i \in Index : arp_table[i].state = "EMPTY" /\ arp_table[i].ctime = 0
  BY DEF ArpInit, Unseen, Emptied
<1>2. pc = "idle"
  BY DEF ArpInit
<1> QED BY <1>1, <1>2 DEF AgeInv, ExpiresInTime, AgesKnown

\* No entry outlives its limit, torn or not: a pending one is freed by the
\* ARP_MAXPENDING-th etharp_tmr, any other by the ARP_MAXAGE-th, and between
\* two calls of etharp_tmr no entry in use has reached its limit.
THEOREM EntriesExpire == ArpSpec => []ExpiresInTime
<1>1. ArpInv /\ AgeInv /\ [ArpNext]_arpVars => ArpInv' /\ AgeInv'
  BY ArpInductive, AgeStep
<1>2. AgeInv => ExpiresInTime
  BY DEF AgeInv
<1> QED BY <1>1, <1>2, ArpInitially, AgeInitially, PTL DEF ArpSpec

\* No step, torn or not, makes a pending entry younger, however many packets
\* for its host are queued in it: with EntriesExpire the safety part of
\* PendingEnds.
THEOREM PendingGrowsOlder == ArpSpec => GrowsOlder
<1>1. ArpInv /\ AgeInv /\ [ArpNext]_arpVars => ArpInv' /\ AgeInv' /\ [Older]_arpVars
  BY ArpInductive, AgeStep
<1>2. ArpSpec => [][Older]_arpVars
  BY <1>1, ArpInitially, AgeInitially, PTL DEF ArpSpec
<1> QED BY <1>2 DEF GrowsOlder
=============================================================================
