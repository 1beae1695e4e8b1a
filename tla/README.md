# Verification of the STM32 TCP/UDP server

This directory holds TLA+ specifications of the firmware under `src/project`: a
TCP server and two UDP responders on an STM32F407 with a LAN8720 PHY, on lwIP
1.4.1 with `NO_SYS`. TLC checks the specifications on small instances; TLAPS
proves the central safety properties for every value of the constants.

## The system

There is no operating system and no lock. Four contexts run the code:

| context | what it runs | preempted by |
|---|---|---|
| main loop | `main`, `lwip_comm_init`, `tcp_udp_test`: key scan, broadcast, `lwip_periodic_handle` (the timers of TCP, ARP and DHCP and the callbacks they make) | all the others |
| USART1 interrupt | `USART1_IRQHandler` | Ethernet, TIM3 by priority |
| TIM3 interrupt (priority 1) | `lwip_localtime += 10` every 10 ms | Ethernet |
| Ethernet interrupt (priority 0) | `ETH_IRQHandler` -> `ethernetif_input` -> all of lwIP -> the server's callbacks | nothing |

So lwIP and the client list are used from two contexts, the main loop and the
Ethernet interrupt, with `SYS_LIGHTWEIGHT_PROT` 0. The Ethernet DMA is a third
actor on the two descriptor rings. That is where the hard behaviours are.

### Components

* **Client list** (`SYSTEM/container/linked_list.c`). A doubly linked ring with a
  head; state: `prev`, `next`, `len`. `list_init`, `list_append`, `list_size`,
  `list_remove`. `list_remove` decides from the node's own pointers whether it is
  a member and leaves a removed node pointing to itself. Correct if the pointers
  always form one ring of `len` nodes, and if a second removal is harmless.
* **TCP server** (`LWIP/lwip_app/tcp_udp_server/tcp_udp_server.c`). State: the list
  of `TcpClientInfo` records (`pcb`, `sendBuf`), each also the `callback_arg` of its
  pcb. Callbacks accept, recv, sent, poll, err; `tcp_sendData`/`tcp_sendBuf`;
  the KEY0 broadcast in the main loop. Correct if callbacks get their own live
  record, the list is the set of established clients, buffers are neither lost
  nor freed twice, the broadcast reaches everyone and the main loop goes on.
* **lwIP TCP as it drives the callbacks** (`tcp_in.c`, `tcp.c`, `tcp_out.c`): pcb
  states of a passive open, pcb and segment pools, `tcp_kill_prio`, `tcp_abandon`,
  the time-outs of `tcp_slowtmr`. Third-party code, modelled as far as it decides
  when which callback is called.
* **TCP timers** (`tcp_tmr`, `tcp_fasttmr`, `tcp_slowtmr`). They walk
  `tcp_active_pcbs` in the main loop while the interrupt registers, removes and
  reorders pcbs; a u8 pass number marks what has been served. Correct if a pass
  ends, serves everyone and leaves the list whole.
* **DHCP and fall-back** (`lwip_dhcp_process_handle`, `dhcp.c`, the wait in `main`).
  State: `struct dhcp`, the interface's address, `lwipdev`. Timers act in the main
  loop, answers in the interrupt. Correct if what is bound is what was
  acknowledged and checked, and if the wait for an address ends.
* **ARP cache and IP output, UDP responders** (`etharp.c`, `m_udp_demo_recv`). A
  table of mappings with at most one waiting packet each, searched, recycled and
  aged from both contexts. Correct if a host has one entry, a packet waits only in
  its own and no entry waits for ever.
* **Periodic timers, key scan** (`lwip_periodic_handle`, `TIM3_IRQHandler`,
  `KEY_Scan`): four deadlines on a wrapping clock; a latch and a delay. Correct if
  every timer is called on time and one press gives one broadcast.
* **Block allocator** (`MALLOC/malloc.c`). A table with one u16 per block;
  `mymem_malloc` scans it downwards, `mymem_free` clears as many entries as the
  first one says. Correct if no two callers share a block, a request fails only
  if nothing fits, and the table describes exactly what is handed out.
* **Start-up** (`USER/main.c`, `lwip_comm_init`, `LAN8720_Init`). Six buffers are
  allocated, the PHY is waited for, and everything is tried again on failure.
* **Ethernet receive path** (`ETH_IRQHandler`, `ETH_Rx_Packet`, `low_level_input`):
  a ring of descriptors shared with the DMA through their OWN bits, and the
  interrupt flags R and NIS. Correct if every frame is delivered once, in order.
* **Ethernet transmit path** (`low_level_output`, `ETH_Tx_Packet`): the other ring,
  with two senders. Correct if what is accepted is sent as it was given.
* **lwIP's memory pools, IP reassembly, USART receiver, delay, LED, external SRAM,
  printing**, ST's library, the rest of lwIP: not modelled, see below.

The hazards, each at its line, are in `PROJECT.json`.

## Modules

| module | models | role |
|---|---|---|
| `LinkedList` | `linked_list.c` | operators on a list record; `Represents`, `Detached` |
| `ClientList` | the list under the callbacks' calls, with heap reuse | state machine, extended by `TcpServer` |
| `ClientQueue` | what the list promises: a queue without duplicates | abstract specification |
| `TcpServer` | callbacks, broadcast, lwIP's TCP | state machine; its list of connections implements `ClientQueue` |
| `TcpTmr` | `tcp_tmr`, `tcp_fasttmr`, `tcp_slowtmr` | state machine |
| `PoolBlocks` | runs of blocks in a table | operators |
| `BlockPool` | what the allocator promises | abstract specification |
| `MyMalloc` | `malloc.c`, the scan entry by entry | state machine, implements `BlockPool` |
| `Boot` | `main`'s retry loop | state machine on the abstract pool |
| `Dhcp` | DHCP client, fall-back, wait | actions and their steps |
| `StartUp` | from reset to the server | composes `Boot` and `Dhcp` |
| `EthFrames` | the frames | constants shared by the two rings |
| `FrameFifo` | what a descriptor ring promises | abstract specification |
| `EthRx`, `EthTx` | the two rings with the DMA | actions; each implements `FrameFifo` |
| `EthDriver` | handler, main loop and DMA | composes `EthRx` and `EthTx` |
| `Arp` | ARP cache, UDP responder | state machine |
| `PeriodicTimers`, `Key` | deadlines and clock; `KEY_Scan` | actions |
| `MainLoop` | the loop of `tcp_udp_test` | composes the two |
| `MC...` | constants for TLC | |
| `...Proofs` | the theorems | |

Definitions carry the source's names; `PROJECT.json` maps each to its lines.
Definitions marked *Mutant* are not part of the specifications: each is the form a
plausible mistake in the code would give to the definition below it, and shows
that the property named in `PROJECT.json` would notice.

### Granularity and windows

The Ethernet interrupt's work, from the frame to the last callback, is one step: nothing
preempts it, and neither the main loop nor TIM3 sees it half done. Only in `EthRx` the
handler's accesses are steps of their own, because the DMA works while it runs. What the
main loop does is cut into steps, and the interrupt comes between any two of them. Where
it is cut:

* `TcpTmr`, `Arp`, `EthTx`, `PeriodicTimers`, `Dhcp`: at each write to shared memory
  and at each read whose value is used after a later step. In `TcpTmr` the load of
  `pcb->next` and the store to `prev->next` or `tcp_active_pcbs` are two steps, and so
  are the second load with `memp_free` and the reset of `tcp_active_pcbs_changed`. In
  `Arp` a sweep goes entry by entry, `ctime++` is a load and a store, and the state
  that is written after `etharp_request` is written in a step of its own.
* `ClientList` and `TcpServer`: at each callback and each call of `tcp_sendData`.
  `list_remove`, `tcp_sendData` and the timers' removal of a pcb are one step, also in
  the main loop.

Taken as one step, and so assumed to be undisturbed: the reads of several fields of
one entry or pcb for one test; repeated reads of a field without a call or a write
in between; the writes to the fields of one entry that end one function
(`etharp_find_entry`'s address and age; `struct eth_addr`, six bytes); in `Dhcp`, the
three addresses that are always set together and `tries++` with the new
time-out; in `Key`, the reads of the pins (`key.c:46` and `54` read them one after
the other); in `EthRx`, the tests of ES, LS and FS, which the MAC's dropping of bad
frames makes constant.

Four variables record that the interrupt hit a place where the main loop has no
protection: `torn` in `TcpTmr` and `Arp`, `mixed` in `EthTx`, `odd` in `Dhcp`. The
properties of these modules hold until then, so what sets them is part of the
result. It is what a masked interrupt would have to cover, at this granularity. Each
window was left out in turn to see whether a property then fails. Those for which
none does: in `TcpTmr`, the pcb itself between its unlinking and `memp_free` (it is
on no list then); in `Arp`, a change of an entry whose packet the main loop has
freed and not yet replaced (the packets themselves are not modelled, the use of a
freed one is), and in `InHand` three conjuncts that follow from the others. What
happens inside the windows is in the specifications too: "What the violated runs show"
lists what TLC finds there when it is asked without the reservation.

### ClientList and TcpServer

A node is allocated (`heap`), linked (`list`) and, as a ghost, in the queue `order`.
While a node is not allocated its memory changes arbitrarily (`Scribble`), so an
operation that relied on stale pointers would be caught. `order` is what the
pointers are compared with.

In `TcpServer` each action of the Ethernet interrupt is one segment with all the
callbacks it causes: nothing preempts that interrupt. The main loop's steps are
the key scan, one `tcp_sendData` of the broadcast, one advance of its cursor, each
pcb `tcp_slowtmr` removes or polls, and the end of the timers. A pcb's send queue
is a segment in flight and one behind it (Nagle). `SynByKilling` is `tcp_alloc`
without a free pcb: an established client is aborted, its error callback changes
the list, all inside the segment of another connection. `missed` is a ghost: the
clients that the running broadcast still owes a message. When the broadcast's
cursor stands at a freed record, the next access is a use after free; the program
is then followed no further (`pc = "wild"`), which is why the runs with KEY0 say
`CHECK_DEADLOCK FALSE`: what a processor does from there on is anything.

Abstractions: a callback made by the main loop's timers, and one body of the
broadcast, is one step; a reply is one pbuf and one unit of the send buffer; the
peer sends no data after its FIN; windows, sequence numbers and the heap
`tcp_write` copies into are left out; which connection `tcp_kill_prio` finds oldest
is left open. `tcp_close` never takes its RST branch here, because
`m_tcp_server_recv` accounts for all data with `tcp_recved` and never refuses any.

### TcpTmr

The list `tcp_active_pcbs` pointer by pointer, with the walk's two pointers `pcb`
and `prev`, and `nxt`, the successor it has loaded for an unlinking. The interrupt's
`Register`, `Remove` and `MoveToFront` come between any two steps of the walk.
`Remove` sets `tcp_active_pcbs_changed` when it goes by `TCP_PCB_REMOVE_ACTIVE` and not
when `tcp_input` calls `tcp_pcb_remove` itself. Which pcb has timed out and which is
polled is left open. Histories: `active`, what should be on the list; `owed`, who was
there when the pass began and was not moved past the walk.

The windows. A pcb registered between `++tcp_timer_ctr` and the reading of the list
carries the number of the pass, and `tcp_fasttmr` never leaves it (`FastSpins`): the
main loop hangs. So it does when the pcb in hand is moved to the front, or freed
and taken by a new connection. `tcp_slowtmr` skips pcbs it has served
(`tcp.c:813`) without making them `prev`; a removal after a prepend or after a
restart then unlinks with the wrong `prev`, and connections drop off the list
(lwIP asserts "first pcb == tcp_active_pcbs" there). Between the load
of `pcb->next` and its store (`tcp.c:955`, `959`) a successor that is removed or moved
comes back onto the list by the store. A pcb that a segment moves past the walk in 255
passes in a row carries the number of the next one (`Overdue`).

### MyMalloc and Boot

One pool, in units of blocks. Each turn of the scan is a step, with its u16
counter; marking and clearing a run are one step, since only `main` calls the
allocator and nothing interrupts it there that would. The contents of the memory
and `memrdy` are left out (`main` initialises all pools first). `ret` is what the
last allocation returned, `runs` the ghost set of runs handed out.

`Boot` uses the pool by its abstract rule (highest place), which `MyMalloc` is
proved to implement. The cable may be plugged and unplugged at any moment. A
failed attempt keeps the buffers it has, as in the code: only a failed
allocation frees those of its own function.

### Dhcp and StartUp

The main loop is in one operation of the client at a time, `op`, at a step `todo`; a
record gives what follows each step: `dhcp_discover`, for instance, is to clear the
offer, set the state, create the message, send it, count the try and start the timer.
`then` is what the main loop does after the operation, `seen` the address that
`lwip_dhcp_process_handle` has read and not yet used. The interrupt's handlers come
between any two. `sent` says that an answer with the current xid can exist at all;
messages are lost, late and repeated by the handlers' being enabled and never
forced. `tries` counts exactly up to what it is compared with and then only
"many", with its wrap (u8). How long a timer runs is left open, but for fairness.
`up` is the interface's flag, which a bind sets and a NAK and a release take away.
The branch of `lwip_dhcp_process_handle` and its writing of the static address are two
steps.
`odd` records three things: an answer inside an operation of the main loop, an
OFFER without server identifier (which stops the client: `request_timeout` is
cleared before the OFFER is looked at), and an assertion that fails because both
contexts make a message. `StartUp` runs `Boot` until `lwip_comm_init` comes to
`dhcp_start` and `Dhcp` from there on. `dhcp_start` is called twice, as in the code:
in `lwip_comm_init` and, `dhcpstatus` being 0, in the first
`lwip_dhcp_process_handle`.

### EthRx, EthTx and EthDriver

`EthRx`: the DMA stores a frame in its next descriptor and raises R and NIS; NIS
calls the handler. A full ring stops the DMA (RBUS), without an interrupt. The
handler's test, its handing back of a descriptor, its resuming of the DMA and its
two clears are separate steps. `ETH_MACDMA_Config` makes the MAC drop frames with
errors and giants, so a descriptor holds one whole frame.

`EthTx`: the main loop's `low_level_output` is taken one shared access at a time, the
copy pbuf by pbuf (`Pbufs`); the interrupt's is one step, and comes anywhere in the main
loop's. lwIP's `rawapi.txt` forbids that ("may only be used from this thread"); the
program does not prevent it. Between the main loop's test of OWN and its new
`DMATxDescToSet` (`HandingOver`) a hand-over by the interrupt does lasting harm: both
hand over one descriptor, or one that the DMA has passed. `mixed` records it, and what
is claimed of the ring is claimed until then. Calls of the interrupt at any other
moment, also between the copy and the test, and calls that are refused, do no harm to
the ring; to the contents of a frame they may (`eth_tx_full`). `DMATxDescToSet` is not a
volatile pointer, so between two uses in `ETH_Tx_Packet` the compiler may keep it or
read it again; both are allowed. `taken` is a ghost: the frame accepted last for a
descriptor.

`EthDriver` puts them on one processor: the main loop stands still while the
handler runs, lwIP sends from inside `netif->input`, and both DMA engines go on.

### Arp

The interrupt runs `etharp_arp_input` and `etharp_output` (for the UDP responder and
every other reply) in one step; the main loop runs `etharp_output`, `etharp_query`,
`etharp_find_entry`, `etharp_free_entry` and `etharp_tmr` step by step, with the
index it has. `ARP_QUEUEING` is 0, so an entry holds one packet; a packet is known
by the host it is for, and a host stands for both its addresses. `seen` is what the
sweep has read so far, `age` the value of `ctime` that is about to be stored. `InHand`
says what the main loop takes for granted at each of its places, and `torn` is set
when the interrupt makes that false (`Tears`): it makes an entry for `dst` behind the
sweep or before the main loop has made its own; it fills the empty entry that the
sweep remembers; it recycles or fills the entry that was chosen or found, the one by
which a packet is being sent, or the one that is put back to stable; it changes the
packet of an entry that is being freed. The reply of `m_udp_demo_recv` takes a
pbuf and gives it back in the same step.

### PeriodicTimers, Key and MainLoop

One unit of time is a tick of TIM3. The test of a deadline and the new deadline
read the clock separately, and ticks come in between. What the broadcast and the
timers' bodies do takes time and nothing else here. `MaxTurn` bounds the ticks in
one turn of the loop: it is an assumption, and `broadcast_stuck` shows one way in
which the program breaks it. `CalledOnTime` states how late a timer may be in terms
of it. Keys change at any moment, also during the delay of `KEY_Scan`.

## Runs

| run | checks | bounds | result |
|---|---|---|---|
| `tcp_server` | types, live callback arguments, list = established, pbufs and segments balanced, ring shape, detached nodes, `list_remove`'s test, the broadcast reaches all, order of service, LAST_ACK ends | 2 pcbs, 3 records, 3 segments, 2 pbufs, 2 replies per send buffer | holds |
| `tcp_timers` | types, list exact, a pass serves all, a pass ends | 3 pcbs, pass numbers modulo 3 | holds, 660,000 states |
| `main_loop` | types, timers on time, one report per press, a held KEY0 is reported | 4 timers, clock modulo 9, 2 ticks per turn, 2 keys | holds |
| `block_allocator` | types, disjoint runs, exact table, refinement of `BlockPool` | 6 blocks, sizes up to beyond the pool | holds |
| `start_up` | types, buffers ready, bound = configured and up, declined not used, the wait ends | 30 blocks, buffers of 1 to 3, 2 leases, 4 tries | holds, 320,000 states |
| `ethernet` | types, a frame at every packet, the receive ring is a FIFO, a stream flows, the transmit ring is a FIFO, refusal only when full, everything drains | both rings of 2, 2 frames, 1 pbuf, 1 late | holds, 340,000 states |
| `arp` | types, one entry per host, packets wait in their own, true mappings, no entry stays pending | 2 entries, 3 hosts, both ages 2 | holds, 390,000 states |
| `broadcast_stuck` | the main loop goes round | 2 pcbs, 2 records, 3 pbufs | violated |
| `record_leak` | records are freed | the same | violated |
| `boot_retry` | boots once the cable stays plugged in | the board's sizes | violated |
| `static_lost` | the static address stays | as `start_up` | violated |
| `eth_tx_full` | what is accepted is what is sent | receive ring of 1, transmit ring of 2, 2 frames, 2 pbufs | violated |

Why the bounds are enough. With two pcbs and three records there is a record whose
pcb has been recycled, a client that is killed for another, and a neighbour on
either side of a record removed twice; the segment and pbuf pools are smaller than
what two clients can ask for, so every refusal happens. Three pcbs in `tcp_timers`
give a walk one that it stands on, one before and one behind; a pass number modulo
3 comes round in the second round of `tcp_tmr`. There the search ends with the
pass in which an interrupt first hit a window (`ThroughTornPass`), since nothing is
claimed from then on. Four timers with intervals 1 to 4, a clock modulo 9 and up
to two ticks in a turn wrap the clock in every phase of every timer. Six blocks
allow three runs with gaps of different sizes between them, at both ends of the
table and in the middle. Two leases let an address be offered, declined and
replaced by another; the fall-back is at 4 tries as in the program. Thirty blocks
run out at each of the six allocations of the second and third attempts. A
ring of two fills, empties, wraps and has a descriptor that is free beside one that is
not; the real rings have five. In `ethernet` the search ends with the step that first
mixes two hand-overs (`UntilMixed`): nothing is claimed of transmission from then on,
and reception depends on nothing that transmission does. What is in the buffers does
not decide any step, so one pbuf is enough there; `eth_tx_full`, which is about the
contents, has two. Three hosts and two entries force every kind of recycling, and with
ages of 2 an entry is asked for again, expires and is recycled before it does. `Late`
in `EthRx` bounds the frames that arrive between the
handler's last look at the ring and its return by one: these are a few
instructions, and the shortest frame takes 6.7 us.

Fairness. `TcpServer`: the main loop keeps taking steps (nothing but finite
interrupts delays it), and a pcb that stays in a state with a time limit is removed
by some pass of `tcp_slowtmr`; that is strong fairness, because the timers run only
in their part of the loop. It is justified by TIM3 and `lwip_periodic_handle`, and
it holds only as long as the loop gets there (`LastAckEnds` says so), which is what
`broadcast_stuck` refutes. `TcpTmr`, `MainLoop`, `Boot`: the main loop runs. `StartUp`:
besides, a DHCP time-out that is set over and over runs out in the end, as
`dhcp_fine_tmr` counts it down every 500 ms. `EthDriver`: a pending interrupt is
served, a call of `low_level_output` goes on whenever the handler leaves it the
processor again and again (strong), and the transmitting DMA works; nothing is
assumed of the network, and `StreamFlows` (frames keep coming), `TxDrains` (the
handler returns again and again) and `StartUpEnds` (the cable stays, the server
falls silent) state what they need in the property. `Arp`: the main loop goes on,
and comes back to `etharp_tmr`. No fairness is assumed of peers, keys or the cable.

## What the violated runs show

1. **`broadcast_stuck`** (`tcp_udp_server.c:62`). A FIN leaves the record allocated
   and pointing to itself (`linked_list.c:55`); a broadcast that stands there never
   ends and no timer of lwIP ever runs again.
2. **`record_leak`** (`:122`). After an orderly close nobody frees the record: for
   a pcb that ends by the last ACK lwIP calls no error callback.
3. **`boot_retry`** (`lwip_comm.c:121`). Two attempts without cable keep 2 x 45 kB
   of the 100 kB pool; no later attempt can succeed. (`memp_memory` is taken as
   14 kB, computed from `lwipopts.h`; the other sizes are exact.)
4. **`static_lost`** (`lwip_comm.c:245`). The fall-back does not stop the DHCP client:
   an OFFER that comes later is taken up, and a NAK then sets the address to
   0.0.0.0. `dhcpstatus` says static and nobody looks again.
5. **`eth_tx_full`** (`ethernetif.c:53`). The frame is copied before OWN is tested: a
   full ring means that an accepted frame is overwritten by a refused one.

The specifications also contain what the reservations of the properties leave out. TLC
finds each of these when it is asked; they have no run of their own:

* the assertion of `tcp_slowtmr` at `tcp.c:958` fails: a new connection comes to the
  front while the walk stands at the old first one with no `prev`, and if that one has
  timed out the store takes the new one off the list;
* an address is used that has been declined: the ARP reply comes after `dhcp_timeout`
  has decided to bind (`dhcp.c:422`) and before `dhcp.c:1003`;
* the static address is given to an interface that is down: a NAK takes it down
  (`dhcp.c:203`), the server falls silent and the retries run out (`lwip_comm.c:247`);
* a frame for which ERR_OK was returned is never sent: the interrupt sends while the
  main loop hands a descriptor over (`lan8720.c:209`), and `DMATxDescToSet` and the DMA
  get out of step;
* the assertion of `etharp_find_entry` at `etharp.c:392` fails: the interrupt fills the
  empty entry that the main loop's sweep remembers, and the main loop gives it another
  address.

Besides these there are, without a run: the use after free when a
RST comes between two steps of the broadcast (`BroadcastWild`), after which the
record may belong to a newer client and others be passed over; a reply in
`sendBuf` that the next one overwrites, so that its pool pbuf is lost (`lost` in
`tcp_sendData`); the pcb that stays in CLOSE_WAIT when `tcp_close` found no segment
for its FIN (`RecvFin`); the frame that stays in the receive ring because its
interrupt was cleared with an earlier one's (`ClearR`, `ClearNIS`), which
`StreamFlows` shows to wait for the next frame and no longer; and the other windows
of `TcpTmr` and `Arp`.

## Proofs

Checked by `tlapm`; the theorems worth knowing are listed in `PROJECT.json`.

* **`ClientListProofs`**: `ListStaysWellFormed`, `ListStaysHeapConsistent`,
  `RemoveStaysTruthful`. It begins with lemmas about the operators, for lists of any
  length: what `list_append` and `list_remove` do to a list that `Represents` a
  sequence, and that they leave detached nodes detached. The ring is described by
  position (`Ring(q, i)`), so that no induction is needed. The inductive invariant is
  the conjunction of type, ring shape and `HeapConsistent`. The last is the
  strengthening: the error callback calls `list_remove` on records that a FIN has
  already removed, and the ring survives only because these still point to
  themselves. `ContentsRepresented` says that reading the pointers one by one
  (`Contents`, a recursive function) gives the sequence that the list represents.
* **`TcpServerProofs`**: `ServerTypeCorrect`, `ServerListWellFormed`,
  `CallbacksGetLiveRecords`, `ListIsExact`. The inductive invariant adds to the
  list's that arguments of accepted pcbs are allocated and owned by that pcb, and
  that the list holds exactly those of the established ones. Ownership
  (`owner[arg[p]] = p`) gives injectivity, without which freeing one pcb's record
  could take another's. On top of it:
  `BroadcastIsComplete`, whose invariant is that whoever the broadcast still owes a
  message stands at or behind its cursor in the list; a cursor whose record has been
  removed but not freed points to itself, and the broadcast does not end there at all
  (`broadcast_stuck`);
  `PoolsBalance`, by cardinalities, which needs that a record outside the heap holds
  no reply (or `m_tcp_server_accept` would forget one);
  `ServesConnectionsInOrder`, the refinement of `ClientQueue`: each append is an
  arrival, each removal of a member a departure, everything else, other connections'
  change of records included, a stutter;
  `NothingAfterFin`, an action property: in `LAST_ACK` a connection keeps its record
  and never has more to send than before, because both ways to `tcp_write`, the reply
  that waits in `sendBuf` and the broadcast that stands at the removed record, end at
  its test of the state.
* **`TcpTmrProofs`**: `TmrTypeCorrect`, `ActiveListIsExact`, `PassServesEveryOne`,
  `SlowUnlinksRightly`, `WalksGoOn`. The invariant names a sequence `q` that the
  pointers spell and the number `w` of its members that the walk has behind it. `pcb` is
  the next one, `prev` is the last one behind; behind, whoever is owed has been served
  and nobody is `Overdue`; ahead, nobody carries the number of the pass. Each part needs
  the others: unlinking by way of `prev` is right only if `tcp_slowtmr` has skipped
  nobody (`NothingSkipped`), it skips nobody only if nobody ahead carries the number,
  and that is so only because a walk that ends leaves nobody `Overdue`, so that the
  number, when it is counted up, comes round on none of them. Between load and store of
  an unlinking, `nxt` is the successor of `pcb` in `q`; after the store `pcb` is off `q`
  and still points to it (`Successor`). The interrupt's three operations cut `q`, or
  push to its front, or both (`CutChain`, `PushChain`); outside the windows they leave
  the walk where it is. `ListedChain` shows that a search from the head (`Listed`, a
  recursive function) comes to exactly the members of `q` and the end. The same
  invariant gives the two `LWIP_ASSERT`s of `tcp_slowtmr` (`tcp.c:954` and `958`) and
  that no walk comes to stand, which is what `PassEnds` needs besides fairness.
* **`ArpProofs`**: `ArpTypeCorrect`, `HostsHaveOneEntry`, `PacketsWaitAtTheirHost`,
  `MappingsAreTrue`. The interrupt changes the table as `Amends` says: one entry, for a
  host that had this one or none. The main loop works on an index it found some steps
  ago, so the invariant says what it knows at each `pc` (`InHand`), e.g. that no entry
  behind the sweep is for `dst`. The interrupts that do not set `torn` are those that
  leave `InHand` true; that the main loop's own steps establish it is what has to be
  proved. `EntriesExpire` and `PendingGrowsOlder` are about ages: every change that is
  not `etharp_tmr`'s starts an entry at 0 or leaves its age alone (`Ages`), and a free
  entry has age 0, so that one that becomes pending starts there. Both hold whatever is
  torn: what `etharp_tmr` stores is never less than what the entry has, and an entry
  that the main loop takes for empty has age 0 also when the interrupt has taken it
  meanwhile, so that `Fill` makes nobody younger (`AgesKnown`).
* **`EthDriverProofs`**: `DriverTypeCorrect`, `DescriptorIsThere`, `ReceivesInOrder`,
  `RefusesOnlyWhenFull`, `TransmitsInOrder`, `ReceptionStaysAwake`, `NoFrameIsLeft`. The
  descriptors of one party are always a run on the ring, from the index of the side that
  takes to that of the side that puts (`Run`), and what `ETH_GetRxPktSize` saw is still
  there when `ETH_Rx_Packet` looks again. From this, both rings implement `FrameFifo`: a
  store or an accept appends, a give-back or a transmission takes the head. The results
  about transmission hold with the interrupt's calls anywhere in the main loop's, until
  two hand-overs are `mixed`; after that TLC finds a frame that is never sent. The
  invariant needs, while `HandingOver`, that the descriptor in hand is still the one at
  `DMATxDescToSet`; a mixed hand-over is what breaks that. `ReceptionStaysAwake` adds
  that a DMA that has stopped for want of a descriptor leaves the ring full until
  `low_level_input` resumes it, and that since the handler's last look, at an empty
  ring, only the late frames have come; it assumes `Late < ETH_RXBUFNB`, and that is
  needed: with as many late frames as descriptors TLC finds the handler away, no
  interrupt pending and the ring full. `NoFrameIsLeft` adds that a DMA that has stopped
  has nothing to send before OWN is set; it too is said until two hand-overs are mixed.
* **`StartUpProofs`**: `StartTypeCorrect`, `BuffersAreReady`, `BoundLeaseIsSet`,
  `DeclinedStaysUnused`. For `Boot`: a pointer of the current attempt is `FAIL` or has
  a run of its own, whatever the pointers of earlier attempts hold. For `Dhcp`: at
  which steps of which operation the main loop can be (`PlaceOK`), the state in which
  it is there (`OpOK`), which address may be where (`LeaseOK`), and that before the
  second `dhcp_start` the client comes no further than the first ARP check
  (`FirstRound`); without the last, that `dhcp_start` could clear a bound lease whose
  address stays on the interface. `Waiting` is for the fall-back,
  which decides first and writes the static address later: a lease that is bound
  while `lwip_dhcp_process_handle` still waits is what it sees next, so that there is no
  lease under way when it writes. All but the
  types is said as long as no answer has come inside an operation (`"overlap" \notin odd`).
* **`MyMallocProofs`**: `MallocTypeCorrect`, `RunsStayDisjoint`, `MapStaysExact`,
  `MallocRefinesPool`. The invariant adds the scan's loop invariant (the last
  `cmemb` entries looked at are free, and no place above has been missed) and,
  while marking, that the place is free. Refinement is safety only; the steps of
  the scan are stutters of `BlockPool`.
* **`MainLoopProofs`**: `LoopTypeCorrect`, `TimersOnTime`, `PressReportedOnce`. The
  invariant ties each deadline to the clock (the clock is the deadline plus the time
  since, less at most one wrap) and bounds how late a deadline can be by whether it
  has been tested in this turn of the loop; without the first the unsigned
  subtraction could not be shown to give the time since. For the key: when the latch
  is open, a scan is settling or no key is down, there was a moment since the last
  report at which all keys were up.

What a recursive function computes is shown without induction over an operator: if
it differed from the closed form, there would be a least place where it does
(`WFMin` of the library, on `<` over the naturals), and the step before gives the
contradiction. `Contents` and `Listed` are treated this way.

Assumptions: `HeadAssumption` (the head is not a record), `ServerAssumption` (`NULL` is
not a record; records and pcbs are finite in number; pool sizes are naturals, at least
one reply fits), `TcpTmrAssumption` (finitely many pcbs, `NULL` is none of them, a pass
number of more than two values), `TblAssumption` and `MallocAssumption` (block size
positive; the table shorter than a u16 counts; no request so large that its block count
wraps: the largest in the program is about 16 kB, a wrap needs 2 MB), `BootAssumption`
(each buffer is at least one block and fits the table), `DhcpAssumption` (the static
address and 0.0.0.0 are not leased), `RxAssumption` and `TxAssumption` (rings and chains
of pbufs are not empty), `ArpAssumption` (the table is not empty; an entry is pending
for no longer than a stable one lives), `TimersAssumption` (each interval and two turns
of the loop fit below the clock's wrap) and `KeyAssumption`. The results about the walks
of `tcp_tmr` and the ARP results, but for the types, `EntriesExpire` and
`PendingGrowsOlder`, hold while `torn` is false, those about transmission while `mixed`
is, and those about leases while `odd` has no overlap, as the properties themselves say.

Every safety property that a passing run checks is proved. Only model-checked: all
liveness (`LastAckEnds`, `PassEnds`, `HeldIsReported`, `StartUpEnds`, `StreamFlows`,
`TxDrains`, `PendingEnds`), which TLAPS does not reach. For five of
them the safety they rest on is proved: `NothingAfterFin`, `WalksGoOn`,
`ReceptionStaysAwake`, `NoFrameIsLeft`, and `EntriesExpire` with `PendingGrowsOlder`.
These and `SlowUnlinksRightly` are stated in the proof modules and have no run.

## Not modelled

* The tearing of `list_remove` and of `tcp_sendBuf` by the interrupt, and of lwIP's
  `memp` and `pbuf` free lists. With no lock and no masking there is no property to
  be expected of these: any two overlapping calls may break them. What would have
  to be masked is every call of lwIP from the main loop.
* IP reassembly: its timer is never called (see the hazards), fragments are not part
  of the service.
* `USART1_IRQHandler` assembles lines that nothing reads.
* Dead code: lines 71-80 of `tcp_udp_server.c` and `m_tcp_server_remove_timewait` come
  after `while(1)`. In DHCP, REBOOTING and INFORM, which nothing enters.
* Register, pin and clock configuration, delays, LEDs, printing. ST's library and
  lwIP beyond what is named above. `mem_perused`, which only reads.
  `TEST/linked-list` is read as a statement of the list's intended use.

## What is left

Every safety property that a run checks is proved, and so is the safety that five of
the seven liveness properties rest on. Still open:

1. The same for `HeldIsReported` and `StartUpEnds`.
2. The hazards without a property: non-atomic updates of the client list, of `sendBuf`
   and of lwIP's pools from both contexts. Modelling them means splitting each
   interrupt-visible operation into its memory accesses.
3. IP reassembly and the pools of `memp.c` as components of their own.
