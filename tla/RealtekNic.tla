----------------------------- MODULE RealtekNic -----------------------------
(***************************************************************************)
(* The Realtek driver (drivers/net/realtek.c): probing through the PCI bus *)
(* (drivers/bus/pci.c), opening and closing, the transmit and receive      *)
(* rings, the receive buffer of the legacy RTL8139, and polling, while the *)
(* card works on the same descriptors and interrupt status.                *)
(*                                                                         *)
(* The driver's steps are split wherever the card can act between two of   *)
(* its reads or writes: pc is where realtek_poll() stands, seen the status *)
(* it read.  Ring counters are unsigned integers that wrap at CounterMod.  *)
(* netdev, card and the fields of card are the environment.                *)
(***************************************************************************)
EXTENDS Naturals, Sequences, FiniteSets

CONSTANTS
  RTL_NUM_DESC,   \* descriptors per ring (RTL_NUM_TX_DESC, RTL_NUM_RX_DESC)
  CounterMod,     \* values of the counters (2^32 in the code)
  RTL_RXBUF_LEN,  \* length of the legacy receive buffer
  Lengths,        \* lengths of received packets
  Packets,        \* packets to transmit
  Chips,          \* what may be in the slot: "8139", "8139C+", "8169", "8125"
  Workloads,      \* what happens together: sets of "tx", "rx" and "link"
  MaxLegacy       \* bound: packets waiting in the legacy receive buffer

ASSUME NicConstantsOK ==
  /\ RTL_NUM_DESC \in Nat \ {0} /\ CounterMod \in Nat
  /\ CounterMod > RTL_NUM_DESC /\ CounterMod % RTL_NUM_DESC = 0
  /\ RTL_RXBUF_LEN \in Nat \ {0} /\ RTL_RXBUF_LEN % 4 = 0 /\ MaxLegacy \in Nat
  /\ \A len \in Lengths : len \in Nat
  /\ Chips \subseteq {"8139", "8139C+", "8169", "8125"}

VARIABLES bus, rtl, netdev, card
vars == <<bus, rtl, netdev, card>>

Slots == 0..(RTL_NUM_DESC - 1)
None == "none"
Free == [own |-> FALSE, eor |-> FALSE, pkt |-> None]

\* realtek_init_ring(), and realtek_destroy_ring() after it.
Ring == [prod |-> 0, cons |-> 0, desc |-> [k \in Slots |-> Free]]
Count(r) == (r.prod + CounterMod - r.cons) % CounterMod
Inc(n) == (n + 1) % CounterMod
Index(n) == n % RTL_NUM_DESC

\* The last descriptor ends the ring.
IsLast(k) == k = RTL_NUM_DESC - 1

\* A descriptor handed to the card.
Populate(k, p) == [own |-> TRUE, eor |-> IsLast(k), pkt |-> p]

-----------------------------------------------------------------------------
(* Probing *)

\* realtek_detect()
Detect(chip) ==
  [legacy |-> chip = "8139", have_phy_regs |-> chip \in {"8169", "8125"},
   have_ocp |-> chip = "8125", eeprom |-> chip \in {"8139", "8139C+"}]

Steps == <<"alloc", "ioremap", "reset", "nvs_read", "phy_reset",
           "register_netdev", "register_nvo">>

\* Mutant: one label too low, the registers stay mapped.
UnwindShort(step) ==
  CASE step = "register_nvo" -> {"netdev", "registered"}
    [] step = "alloc" -> {}
    [] OTHER -> {"netdev"}

\* What each error label of realtek_probe() undoes.
Unwind(step) ==
  CASE step = "register_nvo" -> {"registered", "regs", "netdev"}
    [] step \in {"register_netdev", "phy_reset", "nvs_read", "reset"} ->
         {"regs", "netdev"}
    [] step = "ioremap" -> {"netdev"}
    [] step = "alloc" -> {}

\* What realtek_probe() holds when a step fails.
Acquired(step) ==
  CASE step = "alloc" -> {}
    [] step = "ioremap" -> {"netdev"}
    [] step \in {"reset", "nvs_read", "phy_reset", "register_netdev"} ->
         {"netdev", "regs"}
    [] step = "register_nvo" -> {"netdev", "regs", "registered"}

Possible(step, chip) ==
  CASE step \in {"nvs_read", "register_nvo"} -> Detect(chip).eeprom
    [] step = "phy_reset" -> Detect(chip).have_phy_regs
    [] OTHER -> TRUE

Closed(chip, held) ==
  [held |-> held, legacy |-> Detect(chip).legacy, up |-> FALSE,
   tx |-> Ring, rx |-> Ring, rx_iobuf |-> {}, offset |-> 0,
   pc |-> "idle", seen |-> {}]
NoCard(chip, load) == [chip |-> chip, on |-> FALSE, tx |-> 0, rx |-> 0,
                 kick |-> FALSE, isr |-> {}, sent |-> {}, queue |-> << >>,
                 offset |-> 0, link |-> FALSE, load |-> load]
NoNetdev == [queue |-> << >>, deferred |-> << >>, link |-> FALSE]

Init == \E chip \in Chips, load \in Workloads :
  /\ bus = [st |-> "scan", pci |-> FALSE, children |-> FALSE]
  /\ rtl = Closed(chip, {}) /\ netdev = NoNetdev /\ card = NoCard(chip, load)

\* realtek_check_link(): the network device learns the state of the link.
CheckLink(nd) == [nd EXCEPT !.link = card.link]

\* pcibus_probe(): a struct pci_device, the driver's probe(), which fails at
\* some step or succeeds (with options in the EEPROM, if there is one and
\* it is not in use for VPD); the structure is freed unless it became a child.
PciProbe ==
  /\ bus.st = "scan"
  /\ \/ \E k \in 1..Len(Steps) :
          /\ Possible(Steps[k], card.chip)
          /\ rtl' = Closed(card.chip, Acquired(Steps[k]) \ Unwind(Steps[k]))
          /\ bus' = [st |-> "done", pci |-> FALSE, children |-> FALSE]
          /\ UNCHANGED netdev
     \/ /\ \E nvo \in SUBSET IF Detect(card.chip).eeprom THEN {"nvo"} ELSE {} :
             rtl' = Closed(card.chip, {"netdev", "regs", "registered"} \cup nvo)
        /\ bus' = [st |-> "done", pci |-> TRUE, children |-> TRUE]
        /\ netdev' = CheckLink(netdev)
  /\ UNCHANGED card

Remove(s) == Closed(card.chip, s.held \ {"nvo", "registered", "regs", "netdev"})

\* pcibus_remove(); the network device is closed.
PciRemove ==
  /\ bus.children /\ ~rtl.up
  /\ bus' = [st |-> "removed", pci |-> FALSE, children |-> FALSE]
  /\ rtl' = Remove(rtl)
  /\ UNCHANGED <<netdev, card>>

-----------------------------------------------------------------------------
(* Receive ring *)

\* Mutant: one descriptor more than the ring has.
RoomOver(r) == RTL_NUM_DESC + 1 - Count(r)
Room(r) == IF Count(r) < RTL_NUM_DESC THEN RTL_NUM_DESC - Count(r) ELSE 0

\* realtek_refill_rx(): n descriptors, fewer than there is room for when an
\* allocation fails.
RefillRx(s, n) ==
  LET new == {Index(s.rx.prod + k) : k \in 0..(n - 1)}
  IN [s EXCEPT !.rx.prod = (@ + n) % CounterMod,
               !.rx.desc = [k \in Slots |-> IF k \in new THEN Populate(k, None)
                                         ELSE @[k]],
               !.rx_iobuf = @ \cup new]

Refills(s) == IF s.legacy THEN {0} ELSE 0..Room(s.rx)

\* realtek_open(): rings and buffer, or nothing of them; then the card is
\* enabled and the receive ring filled as far as memory goes.
Open(n) ==
  /\ "registered" \in rtl.held /\ ~rtl.up
  /\ n \in Refills(rtl)
  /\ rtl' = RefillRx([rtl EXCEPT !.up = TRUE], n)
  /\ card' = [card EXCEPT !.on = TRUE, !.tx = 0, !.rx = 0, !.offset = 0]
  /\ netdev' = CheckLink(netdev)
  /\ UNCHANGED bus

\* realtek_close(): card off, then both rings and every buffer; only the
\* legacy card is reset, with its interrupt status.
CloseRings(s) == [s EXCEPT !.up = FALSE, !.tx = Ring, !.rx = Ring,
                           !.rx_iobuf = {}, !.offset = 0]

Close ==
  /\ rtl.up /\ rtl.pc = "idle"
  /\ rtl' = CloseRings(rtl)
  /\ card' = [card EXCEPT !.on = FALSE, !.kick = FALSE, !.sent = {}, !.queue = << >>,
                          !.isr = IF rtl.legacy THEN {} ELSE @]
  /\ netdev' = [netdev EXCEPT !.queue = << >>, !.deferred = << >>]
  /\ UNCHANGED bus

-----------------------------------------------------------------------------
(* Transmit ring *)

\* Mutant: the doorbell is rung only when the ring was empty.
TransmitQuiet(s, nd, p, mapped) ==
  LET k == Index(s.tx.prod)
  IN IF Count(s.tx) >= RTL_NUM_DESC
     THEN [rtl |-> s, netdev |-> [nd EXCEPT !.deferred = Append(@, p)],
           kick |-> FALSE]
     ELSE IF ~mapped
     THEN [rtl |-> s, netdev |-> [nd EXCEPT !.deferred = << >>], kick |-> FALSE]
     ELSE [rtl |-> [s EXCEPT !.tx.prod = Inc(@), !.tx.desc[k] = Populate(k, p)],
           netdev |-> [nd EXCEPT !.queue = Append(@, p)],
           kick |-> Count(s.tx) = 0]

\* realtek_transmit(): defer when the ring is full, else map the buffer, hand
\* over the next descriptor and ring the doorbell.  When mapping fails,
\* netdev_tx() completes the packet with an error, which cancels every
\* deferred one.
Transmit(s, nd, p, mapped) ==
  LET k == Index(s.tx.prod)
  IN IF Count(s.tx) >= RTL_NUM_DESC
     THEN [rtl |-> s, netdev |-> [nd EXCEPT !.deferred = Append(@, p)],
           kick |-> FALSE]
     ELSE IF ~mapped
     THEN [rtl |-> s, netdev |-> [nd EXCEPT !.deferred = << >>], kick |-> FALSE]
     ELSE [rtl |-> [s EXCEPT !.tx.prod = Inc(@), !.tx.desc[k] = Populate(k, p)],
           netdev |-> [nd EXCEPT !.queue = Append(@, p)], kick |-> TRUE]

Pending == {netdev.queue[k] : k \in 1..Len(netdev.queue)} \cup
           {netdev.deferred[k] : k \in 1..Len(netdev.deferred)}

\* One packet is like another: take any that is not on its way.
NetTx(mapped) ==
  LET p == CHOOSE q \in Packets : q \notin Pending
      r == Transmit(rtl, netdev, p, mapped)
  IN /\ rtl.up /\ rtl.pc = "idle" /\ "tx" \in card.load /\ Packets \ Pending # {}
     /\ rtl' = r.rtl /\ netdev' = r.netdev
     /\ card' = [card EXCEPT !.kick = @ \/ r.kick, !.sent = @ \ {p}]
     /\ UNCHANGED bus

\* Mutant: the slot is given back after the network layer has been told.
CompleteLate(s, nd, mapped) ==
  LET n == [nd EXCEPT !.queue = Tail(@)]
      r == IF n.deferred = << >> THEN [rtl |-> s, netdev |-> n, kick |-> FALSE]
           ELSE Transmit(s, [n EXCEPT !.deferred = Tail(@)], Head(n.deferred), mapped)
  IN [r EXCEPT !.rtl.tx.cons = Inc(@)]

\* One completion: the slot is free again, the oldest packet complete, and
\* the first deferred packet (netdev_tx_complete_next()) transmitted.
Complete(s, nd, mapped) ==
  LET c == [s EXCEPT !.tx.cons = Inc(@)]
      n == [nd EXCEPT !.queue = Tail(@)]
  IN IF n.deferred = << >> THEN [rtl |-> c, netdev |-> n, kick |-> FALSE]
     ELSE Transmit(c, [n EXCEPT !.deferred = Tail(@)], Head(n.deferred), mapped)

TxDone(s) == /\ s.tx.cons # s.tx.prod
             /\ ~s.tx.desc[Index(s.tx.cons)].own

-----------------------------------------------------------------------------
(* realtek_poll() *)

Goto(s, pc) == [s EXCEPT !.pc = pc]

\* Mutant: only the bits of the interrupt mask are looked at.
InterruptedMasked == card.isr \cap {"TOK", "ROK", "LINK"} # {}

\* Nothing to do when the interrupt status is clear.
Interrupted == card.isr # {}

PollStatus ==
  /\ rtl.up /\ rtl.pc = "idle" /\ Interrupted
  /\ rtl' = [rtl EXCEPT !.pc = "ack", !.seen = card.isr]
  /\ UNCHANGED <<bus, netdev, card>>

\* Mutant: every bit is acknowledged, not only those that were read.
AcknowledgeAll == /\ card' = [card EXCEPT !.isr = {}]
                  /\ rtl' = Goto(rtl, "tx")

\* Acknowledge what was read, before looking at the rings.
Acknowledge == /\ card' = [card EXCEPT !.isr = @ \ rtl.seen]
               /\ rtl' = Goto(rtl, "tx")

PollAck == /\ rtl.pc = "ack" /\ Acknowledge
           /\ UNCHANGED <<bus, netdev>>

\* realtek_poll_tx() goes on while the next descriptor is the driver's.
PollTxMore(s) == "TOK" \in s.seen /\ TxDone(s)

PollTx(mapped) ==
  LET r == Complete(rtl, netdev, mapped)
  IN /\ rtl.pc = "tx"
     /\ IF PollTxMore(rtl)
        THEN /\ rtl' = r.rtl /\ netdev' = r.netdev
             /\ card' = [card EXCEPT !.kick = @ \/ r.kick,
                                     !.sent = @ \ {Head(netdev.queue)}]
        ELSE rtl' = Goto(rtl, "rx") /\ UNCHANGED <<netdev, card>>
     /\ UNCHANGED bus

\* realtek_poll_rx(): hand over the oldest buffer that the card has filled.
RxDone(s) == /\ s.rx.cons # s.rx.prod
             /\ ~s.rx.desc[Index(s.rx.cons)].own

PollRx ==
  LET k == Index(rtl.rx.cons)
  IN /\ rtl.pc = "rx" /\ ~rtl.legacy
     /\ rtl' = IF "ROK" \in rtl.seen /\ RxDone(rtl)
               THEN [rtl EXCEPT !.rx_iobuf = @ \ {k}, !.rx.cons = Inc(@)]
               ELSE Goto(rtl, "refill")
     /\ UNCHANGED <<bus, netdev, card>>

\* Mutant: packets are not padded to a multiple of four bytes.
NextOffsetUnaligned(off, len) == (off + 4 + len) % RTL_RXBUF_LEN

\* Where the packet after one at off begins: a header, the data, alignment.
NextOffset(off, len) == (((off + 4 + len + 3) \div 4) * 4) % RTL_RXBUF_LEN

\* realtek_legacy_poll_rx(): copy out the packet at the driver's offset, or
\* leave it there when no buffer can be allocated.
LegacyPollRx(mem) ==
  LET m == Head(card.queue)
      more == "ROK" \in rtl.seen /\ card.queue # << >>
  IN /\ rtl.pc = "rx" /\ rtl.legacy
     /\ more \/ mem
     /\ IF more /\ mem
        THEN /\ rtl' = [rtl EXCEPT !.offset = NextOffset(@, m.len)]
             /\ card' = [card EXCEPT !.queue = Tail(@)]
        ELSE rtl' = Goto(rtl, "refill") /\ UNCHANGED card
     /\ UNCHANGED <<bus, netdev>>

\* Check the link if it changed, and refill.
PollEnd(n) ==
  /\ rtl.pc = "refill" /\ n \in Refills(rtl)
  /\ netdev' = IF "LINK" \in rtl.seen THEN CheckLink(netdev) ELSE netdev
  /\ rtl' = [RefillRx(rtl, n) EXCEPT !.pc = "idle", !.seen = {}]
  /\ UNCHANGED <<bus, card>>

-----------------------------------------------------------------------------
(* The card *)

Raise(bit) == card.isr \cup {bit}

\* The next descriptor: back to the first after the one that ends the ring.
\* The legacy transmit registers simply go round.
After(k, eor) == IF eor THEN 0 ELSE k + 1

CardSend ==
  LET k == card.tx
      d == rtl.tx.desc[k]
  IN /\ card.on /\ card.kick /\ k \in Slots /\ d.own
     /\ rtl' = [rtl EXCEPT !.tx.desc[k].own = FALSE]
     /\ card' = [card EXCEPT !.tx = After(k, d.eor), !.isr = Raise("TOK"),
                             !.sent = @ \cup {d.pkt}]
     /\ UNCHANGED <<bus, netdev>>

\* The card has caught up and waits for the doorbell.
CardRest ==
  /\ card.on /\ card.kick /\ card.tx \in Slots /\ ~rtl.tx.desc[card.tx].own
  /\ card' = [card EXCEPT !.kick = FALSE]
  /\ UNCHANGED <<bus, rtl, netdev>>

\* A packet arrives for which there is a descriptor.
CardReceive ==
  LET k == card.rx
      d == rtl.rx.desc[k]
  IN /\ card.on /\ "rx" \in card.load
     /\ ~rtl.legacy /\ k \in Slots /\ d.own
     /\ rtl' = [rtl EXCEPT !.rx.desc[k].own = FALSE]
     /\ card' = [card EXCEPT !.rx = After(k, d.eor), !.isr = Raise("ROK")]
     /\ UNCHANGED <<bus, netdev>>

\* A packet for which there is none is lost, and leaves a status bit that
\* the driver has no name for.
CardOverflow ==
  /\ card.on /\ "rx" \in card.load
  /\ ~rtl.legacy /\ card.rx \in Slots /\ ~rtl.rx.desc[card.rx].own
  /\ card' = [card EXCEPT !.isr = Raise("RDU")]
  /\ UNCHANGED <<bus, rtl, netdev>>

\* Packets start at multiples of four in the legacy buffer, and run on into
\* the padding beyond its end.
CardReceiveLegacy(len) ==
  /\ card.on /\ "rx" \in card.load
  /\ rtl.legacy /\ Len(card.queue) < MaxLegacy
  /\ card' = [card EXCEPT
       !.queue = Append(@, [off |-> card.offset, len |-> len]),
       !.offset = (card.offset + 4 + len + ((4 - (len % 4)) % 4)) % RTL_RXBUF_LEN,
       !.isr = Raise("ROK")]
  /\ UNCHANGED <<bus, rtl, netdev>>

LinkChange ==
  /\ card.on /\ "link" \in card.load
  /\ card' = [card EXCEPT !.link = ~@, !.isr = Raise("LINK")]
  /\ UNCHANGED <<bus, rtl, netdev>>

-----------------------------------------------------------------------------
Poll == \/ PollStatus \/ PollAck \/ PollRx
        \/ \E b \in BOOLEAN : PollTx(b) \/ LegacyPollRx(b)
        \/ \E n \in 0..RTL_NUM_DESC : PollEnd(n)
Refill == \E n \in 1..RTL_NUM_DESC : PollEnd(n)

Next ==
  \/ PciProbe
  \/ PciRemove
  \/ \E n \in 0..RTL_NUM_DESC : Open(n)
  \/ Close
  \/ \E mapped \in BOOLEAN : NetTx(mapped)
  \/ PollStatus
  \/ PollAck
  \/ \E mapped \in BOOLEAN : PollTx(mapped)
  \/ PollRx
  \/ \E mem \in BOOLEAN : LegacyPollRx(mem)
  \/ \E n \in 0..RTL_NUM_DESC : PollEnd(n)
  \/ CardSend
  \/ CardRest
  \/ CardReceive
  \/ CardOverflow
  \/ \E len \in Lengths : CardReceiveLegacy(len)
  \/ LinkChange

Spec == Init /\ [][Next]_vars

\* The network stack polls for ever; the card transmits what it is given and
\* packets keep arriving; an allocation that is tried for ever succeeds.
Fairness == /\ WF_vars(Poll) /\ WF_vars(CardSend) /\ WF_vars(CardOverflow)
            /\ SF_vars(Refill)
FairSpec == Spec /\ Fairness

-----------------------------------------------------------------------------
(* Properties *)

Window(r) == {Index(r.cons + k) : k \in 0..(Count(r) - 1)}

\* The driver's counters and offset are in range, and so is the card's
\* position: the card never runs past the end of a ring.
TypeOK ==
  /\ {rtl.tx.prod, rtl.tx.cons, rtl.rx.prod, rtl.rx.cons} \subseteq 0..(CounterMod - 1)
  /\ card.tx \in Slots /\ card.rx \in Slots
  /\ rtl.offset \in {4 * k : k \in 0..(RTL_RXBUF_LEN \div 4 - 1)}
  /\ card.isr \cup rtl.seen \subseteq {"TOK", "ROK", "LINK", "RDU"}

\* However often the counters wrap: the buffers recorded are those of the
\* descriptors in use, the card owns none besides, and a ring is never over
\* full, so that refilling never finds a buffer where it puts one (the
\* assertion in realtek_refill_rx()).
RingsSound ==
  /\ Count(rtl.tx) <= RTL_NUM_DESC /\ Count(rtl.rx) <= RTL_NUM_DESC
  /\ rtl.rx_iobuf = Window(rtl.rx)
  /\ \A k \in Slots : /\ rtl.rx.desc[k].own => k \in Window(rtl.rx)
                      /\ rtl.tx.desc[k].own => k \in Window(rtl.tx)

\* The packet completed next is the one in the oldest descriptor, and the
\* card has sent it: with the ring full and packets deferred, too.
CompletesSent ==
  /\ Len(netdev.queue) = Count(rtl.tx)
  /\ \A k \in 1..Len(netdev.queue) :
       rtl.tx.desc[Index(rtl.tx.cons + k - 1)].pkt = netdev.queue[k]
  /\ TxDone(rtl) => Head(netdev.queue) \in card.sent
  /\ netdev.deferred # << >> => Count(rtl.tx) = RTL_NUM_DESC

\* No completion is ever overlooked: when the driver is not polling and a
\* descriptor is back from the card, the status says so.  A completion that
\* races with the poll raises the status again after it was acknowledged.
NoLostCompletion ==
  rtl.up /\ rtl.pc = "idle" => /\ TxDone(rtl) => "TOK" \in card.isr
                               /\ RxDone(rtl) => "ROK" \in card.isr

\* Driver and card agree on where the oldest packet of the legacy receive
\* buffer begins, wherever the buffer wrapped.
LegacyInSync ==
  rtl.up /\ card.queue # << >> => Head(card.queue).off = rtl.offset

\* A probe that fails leaves nothing behind, and neither does removal:
\* exactly the children of the bus hold resources, and every buffer and
\* ring is gone while the device is closed.
NothingLeaked ==
  /\ rtl.held # {} <=> bus.children
  /\ bus.st # "scan" => (bus.pci <=> bus.children)
  /\ ~rtl.up => rtl.rx_iobuf = {} /\ rtl.tx = Ring /\ rtl.rx = Ring

\* The link state reported is the card's, or a change is still to be seen,
\* however changes race with the polls.
LinkReported ==
  rtl.up /\ rtl.pc = "idle" /\ "LINK" \notin card.isr => netdev.link = card.link

\* "Leave packet for next poll": a packet that realtek_legacy_poll_rx()
\* could not copy out is seen by the next poll, which looks at the buffer
\* only if the interrupt status is not clear.
LeftForNextPoll ==
  rtl.up /\ rtl.pc = "idle" /\ card.queue # << >> => "ROK" \in card.isr

\* The last packet of a full queue is completed or dropped in the end,
\* deferred packets included.
Transmits == \A p \in Packets : p \in Pending ~> p \notin Pending

\* A receive ring that ran empty for want of memory is filled again: the
\* refill of a later poll is reached although no descriptor completes, as
\* long as packets arrive.
RxRecovers ==
  rtl.up /\ ~rtl.legacy /\ "rx" \in card.load /\ rtl.rx_iobuf = {}
    ~> ~rtl.up \/ rtl.rx_iobuf # {}
=============================================================================
