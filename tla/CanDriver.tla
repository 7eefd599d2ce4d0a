------------------------------ MODULE CanDriver ----------------------------
(***************************************************************************)
(* board/drivers/fdcan.h with can_send of can_common.h and the flow control *)
(* of can_comms.h: CAN packets from the host and from other buses wait in   *)
(* one queue per bus for the one-element TX FIFO of its FDCAN core; what    *)
(* the cores send and receive goes to can_rx_q, which the host reads.       *)
(*                                                                          *)
(* Handlers do not preempt each other, but the cores go on while a handler  *)
(* runs: a handler that loops is a sequence of steps here, and only the     *)
(* actions of the hardware come between them.  IR is cleared by writing     *)
(* ones, so that each "IR |= flag" clears every flag that is set; an        *)
(* interrupt that is pending in the NVIC stays pending all the same.        *)
(*                                                                          *)
(* The orientation is fixed: core b serves bus b.                           *)
(***************************************************************************)
EXTENDS Integers, Sequences, FiniteSets, Functions

CONSTANTS
    Bus,
    Route,         \* [Bus -> SUBSET Bus]: where safety_fwd_hook may send to
    TxSize,        \* elements a tx queue holds: CAN_TX_BUFFER_SIZE - 1
    RxSize,        \* elements can_rx_q holds: CAN_RX_BUFFER_SIZE - 1
    RxFifo,        \* FDCAN_RX_FIFO_0_EL_CNT
    MinSlots,      \* MAX_CAN_MSGS_PER_SPI_BULK_TRANSFER
    MsgsPerWrite,  \* the most messages the host puts into one transfer
    Faults,        \* which of "bus_off", "error", "bad" (checksum) may happen
    MaxSends,      \* bound: packets the host writes
    MaxFrames,     \* bound: frames the car sends
    MaxResets      \* bound: bus-offs, errors, clears and re-initialisations

ASSUME DriverAssumption ==
    /\ IsFiniteSet(Bus)
    /\ Route \in [Bus -> SUBSET Bus]
    /\ TxSize \in Nat \ {0} /\ RxSize \in Nat \ {0}
    /\ RxFifo \in Nat \ {0, 1}
    /\ MinSlots \in Nat /\ MsgsPerWrite \in 1 .. MinSlots
    /\ MinSlots <= TxSize
    /\ Faults \subseteq {"bus_off", "error", "bad"}
    /\ MaxSends \in Nat /\ MaxFrames \in Nat /\ MaxResets \in Nat

VARIABLES
    tx,          \* can_queues: per bus, "good" or "bad" packets
    core,        \* the TX FIFO of each core: "idle" or "busy"
    rx_fifo,     \* the number of frames in RX FIFO 0
    bus_off,     \* the core is bus-off
    ir,          \* the flags set in IR
    it0, it1,    \* pending in the NVIC: IT0 (can_rx), IT1 (process_can)
    isr,         \* the handler that runs
    ready,       \* spi_can_tx_ready
    rx_q,        \* the number of packets in can_rx_q
    tx_buffer_overflow, rx_buffer_overflow, safety_tx_blocked,
    total_tx_cnt, total_tx_lost_cnt, total_tx_checksum_error_cnt,
    total_rx_cnt,
    sends, frames, resets,  \* bounds: how often the environment acted
    accepted,    \* ghost: packets can_send put into a queue
    sent,        \* ghost: frames on the bus
    discarded,   \* ghost: packets in queue or core when they were cleared
    taken,       \* ghost: packets the host has read, or cleared
    spoiled,     \* ghost: the last pop was a bad packet, or the core was reset
    host_lost    \* ghost: a packet of the host found its queue full

hardware == <<core, rx_fifo, bus_off, ir, it0, it1>>
counters == <<tx_buffer_overflow, rx_buffer_overflow, safety_tx_blocked,
              total_tx_cnt, total_tx_lost_cnt, total_tx_checksum_error_cnt,
              total_rx_cnt>>
ghosts == <<accepted, sent, discarded, taken, spoiled, host_lost>>
vars == <<tx, hardware, isr, ready, rx_q, counters, sends, frames, resets, ghosts>>

Flag == {"RF0N", "TFE", "BO", "ERR"}
NoIsr == [at |-> "none", bus |-> {}, left |-> 0, seen |-> {}]

Most == MaxSends + MaxFrames

TypeOK == /\ tx \in [Bus -> Seq({"good", "bad"})]
          /\ \A b \in Bus : Len(tx[b]) <= TxSize
          /\ core \in [Bus -> {"idle", "busy"}]
          /\ rx_fifo \in [Bus -> 0 .. RxFifo]
          /\ bus_off \in [Bus -> BOOLEAN]
          /\ ir \in [Bus -> SUBSET Flag]
          /\ it0 \in [Bus -> BOOLEAN] /\ it1 \in [Bus -> BOOLEAN]
          /\ isr \in [at : {"none", "read", "rx", "write"}, bus : SUBSET Bus,
                      left : 0 .. MsgsPerWrite, seen : SUBSET Flag]
          /\ ready \in BOOLEAN
          /\ rx_q \in 0 .. RxSize
          /\ total_tx_cnt \in [Bus -> 0 .. Most]
          /\ total_tx_lost_cnt \in [Bus -> 0 .. Most]
          /\ total_tx_checksum_error_cnt \in [Bus -> 0 .. MaxSends]

-----------------------------------------------------------------------------
(* The queues *)

free(q) == TxSize - Len(q)

\* refresh_can_tx_slots_available, once the queues are queues: the host may
\* write when each of them has room for a whole transfer.
Refreshed(queues) == ready \/ \A b \in Bus : free(queues[b]) >= MinSlots

\* can_push of n packets to can_rx_q, one after the other.
PushRx(n) ==
    LET fits == IF n <= RxSize - rx_q THEN n ELSE RxSize - rx_q
    IN  /\ rx_q' = rx_q + fits
        /\ rx_buffer_overflow' = rx_buffer_overflow + (n - fits)

\* process_can of core b, when its queue is q (after a can_push, if there was
\* one).  It sends one packet and echoes it to the host; a packet whose
\* checksum is wrong is popped and not sent.  extra packets went to can_rx_q
\* in the same step.
ProcessCan(b, q, extra) ==
    LET pops == core[b] = "idle" /\ q # <<>>
        sends_it == pops /\ Head(q) = "good"
        queue == IF pops THEN Tail(q) ELSE q
    IN  /\ tx' = [tx EXCEPT ![b] = queue]
        /\ ir' = [ir EXCEPT ![b] = {}]
        /\ core' = [core EXCEPT ![b] = IF sends_it THEN "busy" ELSE @]
        /\ total_tx_cnt' = [total_tx_cnt EXCEPT ![b] =
                              IF sends_it THEN @ + 1 ELSE @]
        /\ total_tx_checksum_error_cnt' =
             [total_tx_checksum_error_cnt EXCEPT ![b] =
                IF pops /\ ~sends_it THEN @ + 1 ELSE @]
        /\ ready' = IF pops THEN Refreshed([tx EXCEPT ![b] = queue]) ELSE ready
        /\ PushRx(extra + IF sends_it THEN 1 ELSE 0)
        /\ spoiled' = [spoiled EXCEPT ![b] = IF pops THEN ~sends_it ELSE @]

\* A bug: the free slots are not looked at.
Queue_overruns(b, packet) ==
    /\ ProcessCan(b, Append(tx[b], packet), 0)
    /\ accepted' = [accepted EXCEPT ![b] = @ + 1]
    /\ UNCHANGED tx_buffer_overflow

\* can_send past the tx hook.
Queue(b, packet) ==
    LET full == free(tx[b]) = 0
    IN  /\ ProcessCan(b, IF full THEN tx[b] ELSE Append(tx[b], packet), 0)
        /\ tx_buffer_overflow' = tx_buffer_overflow + (IF full THEN 1 ELSE 0)
        /\ accepted' = [accepted EXCEPT ![b] = IF full THEN @ ELSE @ + 1]

-----------------------------------------------------------------------------
(* The hardware *)

\* A frame went out: TX FIFO empty.
Transmit(b) ==
    /\ core[b] = "busy" /\ ~bus_off[b]
    /\ core' = [core EXCEPT ![b] = "idle"]
    /\ sent' = [sent EXCEPT ![b] = @ + 1]
    /\ ir' = [ir EXCEPT ![b] = @ \cup {"TFE"}]
    /\ it1' = [it1 EXCEPT ![b] = TRUE]
    /\ UNCHANGED <<tx, rx_fifo, bus_off, it0, isr, ready, rx_q, counters, sends,
                   frames, resets, accepted, discarded, taken, spoiled, host_lost>>

\* A frame of the car; the RX FIFO overwrites its oldest element when full.
Frame(b) ==
    /\ frames < MaxFrames /\ ~bus_off[b]
    /\ frames' = frames + 1
    /\ rx_fifo' = [rx_fifo EXCEPT ![b] = IF @ = RxFifo THEN @ ELSE @ + 1]
    /\ ir' = [ir EXCEPT ![b] = @ \cup {"RF0N"}]
    /\ it0' = [it0 EXCEPT ![b] = TRUE]
    /\ UNCHANGED <<tx, core, bus_off, it1, isr, ready, rx_q, counters, sends,
                   resets, ghosts>>

\* The bus fails: bus-off, or another error.
Fault(b, flag) ==
    /\ resets < MaxResets /\ ~bus_off[b]
    /\ \/ flag = "BO" /\ "bus_off" \in Faults
       \/ flag = "ERR" /\ "error" \in Faults
    /\ resets' = resets + 1
    /\ bus_off' = [bus_off EXCEPT ![b] = flag = "BO"]
    /\ ir' = [ir EXCEPT ![b] = @ \cup {flag}]
    /\ it0' = [it0 EXCEPT ![b] = TRUE]
    /\ UNCHANGED <<tx, core, rx_fifo, it1, isr, ready, rx_q, counters, sends,
                   frames, ghosts>>

-----------------------------------------------------------------------------
(* The interrupts of a core *)

\* A bug: the handler acts only if the flag is still set.
It1_flagged(b) ==
    /\ isr = NoIsr /\ it1[b]
    /\ it1' = [it1 EXCEPT ![b] = FALSE]
    /\ IF "TFE" \in ir[b] THEN ProcessCan(b, tx[b], 0)
       ELSE UNCHANGED <<tx, ir, core, total_tx_cnt, total_tx_checksum_error_cnt,
                        ready, rx_q, rx_buffer_overflow, spoiled>>
    /\ UNCHANGED <<rx_fifo, bus_off, it0, isr, tx_buffer_overflow,
                   safety_tx_blocked, total_tx_lost_cnt, total_rx_cnt, sends,
                   frames, resets, accepted, sent, discarded, taken, host_lost>>

\* FDCANx_IT1_IRQ_Handler
It1(b) ==
    /\ isr = NoIsr /\ it1[b]
    /\ it1' = [it1 EXCEPT ![b] = FALSE]
    /\ ProcessCan(b, tx[b], 0)
    /\ UNCHANGED <<rx_fifo, bus_off, it0, isr, tx_buffer_overflow,
                   safety_tx_blocked, total_tx_lost_cnt, total_rx_cnt, sends,
                   frames, resets, accepted, sent, discarded, taken, host_lost>>

\* can_rx begins: IR is read ...
It0(b) ==
    /\ isr = NoIsr /\ it0[b]
    /\ it0' = [it0 EXCEPT ![b] = FALSE]
    /\ isr' = [at |-> "read", bus |-> {b}, left |-> 0, seen |-> ir[b]]
    /\ UNCHANGED <<tx, core, rx_fifo, bus_off, ir, it1, ready, rx_q, counters,
                   sends, frames, resets, ghosts>>

\* ... and then cleared, with what was set since.
RxAck(b) ==
    /\ isr.at = "read" /\ isr.bus = {b}
    /\ isr' = [isr EXCEPT !.at = "rx"]
    /\ ir' = [ir EXCEPT ![b] = {}]
    /\ UNCHANGED <<tx, core, rx_fifo, bus_off, it0, it1, ready, rx_q, counters,
                   sends, frames, resets, ghosts>>

\* can_rx takes one frame, forwards it to d, or to no bus, and hands it to the
\* host.  (Its echo, if it is forwarded, is pushed before it.)  When the FIFO
\* is full the oldest element is skipped, because it may be overwritten.
RxFrame(b) ==
    /\ isr.at = "rx" /\ isr.bus = {b} /\ rx_fifo[b] > 0
    /\ rx_fifo' = [rx_fifo EXCEPT ![b] = @ - (IF @ = RxFifo THEN 2 ELSE 1)]
    /\ total_rx_cnt' = [total_rx_cnt EXCEPT ![b] = @ + 1]
    /\ \/ /\ PushRx(1)
          /\ UNCHANGED <<tx, core, ir, ready, tx_buffer_overflow, total_tx_cnt,
                         total_tx_checksum_error_cnt, accepted, spoiled>>
       \/ \E d \in Route[b] :
             LET full == free(tx[d]) = 0
             IN  /\ ProcessCan(d, IF full THEN tx[d] ELSE Append(tx[d], "good"), 1)
                 /\ tx_buffer_overflow' =
                      tx_buffer_overflow + (IF full THEN 1 ELSE 0)
                 /\ accepted' = [accepted EXCEPT ![d] = IF full THEN @ ELSE @ + 1]
    /\ UNCHANGED <<bus_off, it0, it1, isr, safety_tx_blocked, total_tx_lost_cnt,
                   sends, frames, resets, sent, discarded, taken, host_lost>>

\* can_clear_send: the core is reset, what is in its FIFOs is lost.
CoreReset(b) ==
    /\ core' = [core EXCEPT ![b] = "idle"]
    /\ rx_fifo' = [rx_fifo EXCEPT ![b] = 0]
    /\ bus_off' = [bus_off EXCEPT ![b] = FALSE]
    /\ spoiled' = [spoiled EXCEPT ![b] = TRUE]

\* A bug: the frame that was in the TX FIFO is not counted.
RxErrors_uncounted(b) ==
    /\ ir' = [ir EXCEPT ![b] = {}]
    /\ \/ /\ "BO" \in isr.seen \/ "ERR" \in isr.seen
          /\ CoreReset(b)
          /\ UNCHANGED total_tx_lost_cnt
       \/ /\ "BO" \notin isr.seen
          /\ UNCHANGED <<core, rx_fifo, bus_off, spoiled, total_tx_lost_cnt>>

\* update_can_health_pkt with error flags: a bus-off, and an error that is a
\* missing acknowledgement with too many of them before, reset the core.
RxErrors(b) ==
    /\ ir' = [ir EXCEPT ![b] = {}]
    /\ \/ /\ "BO" \in isr.seen \/ "ERR" \in isr.seen
          /\ total_tx_lost_cnt' = [total_tx_lost_cnt EXCEPT ![b] =
                                     IF core[b] = "busy" THEN @ + 1 ELSE @]
          /\ CoreReset(b)
       \/ /\ "BO" \notin isr.seen
          /\ UNCHANGED <<core, rx_fifo, bus_off, spoiled, total_tx_lost_cnt>>

\* can_rx ends.
RxEnd(b) ==
    /\ isr.at = "rx" /\ isr.bus = {b} /\ rx_fifo[b] = 0
    /\ isr' = NoIsr
    /\ IF isr.seen \cap {"BO", "ERR"} # {} THEN RxErrors(b)
       ELSE UNCHANGED <<core, rx_fifo, bus_off, ir, spoiled, total_tx_lost_cnt>>
    /\ it0' = [it0 EXCEPT ![b] = @ \/ ir'[b] \cap {"RF0N", "BO", "ERR"} # {}]
    /\ UNCHANGED <<tx, it1, ready, rx_q, tx_buffer_overflow, rx_buffer_overflow,
                   safety_tx_blocked, total_tx_cnt, total_tx_checksum_error_cnt,
                   total_rx_cnt, sends, frames, resets, accepted, sent,
                   discarded, taken, host_lost>>

-----------------------------------------------------------------------------
(* The host *)

\* spi_rx_done, endpoint 3: a transfer of n packets begins.  Without
\* spi_can_tx_ready the transfer is refused and nothing changes.
WriteBegin(n) ==
    /\ isr = NoIsr /\ ready /\ sends + n <= MaxSends
    /\ ready' = FALSE
    /\ sends' = sends + n
    /\ isr' = [at |-> "write", bus |-> {}, left |-> n, seen |-> {}]
    /\ UNCHANGED <<tx, hardware, rx_q, counters, frames, resets, ghosts>>

\* comms_can_write hands one packet to can_send: the tx hook rejects it and it
\* goes back to the host, or its bus does not exist, or it is queued.
WriteFrame ==
    /\ isr.at = "write" /\ isr.left > 0
    /\ isr' = [isr EXCEPT !.left = @ - 1]
    /\ \/ /\ safety_tx_blocked' = safety_tx_blocked + 1
          /\ PushRx(1)
          /\ UNCHANGED <<tx, core, ir, ready, tx_buffer_overflow, total_tx_cnt,
                         total_tx_checksum_error_cnt, accepted, spoiled, host_lost>>
       \/ UNCHANGED <<tx, core, ir, ready, rx_q, counters, accepted, spoiled,
                      host_lost>>
       \/ \E b \in Bus, packet \in {"good"} \cup (Faults \cap {"bad"}) :
             /\ Queue(b, packet)
             /\ host_lost' = (host_lost \/ free(tx[b]) = 0)
             /\ UNCHANGED safety_tx_blocked
    /\ UNCHANGED <<rx_fifo, bus_off, it0, it1, total_tx_lost_cnt, total_rx_cnt,
                   sends, frames, resets, sent, discarded, taken>>

\* comms_can_write ends.
WriteEnd ==
    /\ isr.at = "write" /\ isr.left = 0
    /\ isr' = NoIsr
    /\ ready' = Refreshed(tx)
    /\ UNCHANGED <<tx, hardware, rx_q, counters, sends, frames, resets, ghosts>>

\* comms_can_read takes one packet.
HostRead ==
    /\ isr = NoIsr /\ rx_q > 0
    /\ rx_q' = rx_q - 1
    /\ taken' = taken + 1
    /\ UNCHANGED <<tx, hardware, isr, ready, counters, sends, frames, resets,
                   accepted, sent, discarded, spoiled, host_lost>>

\* A bug: can_clear does not look at the slots again.
ClearQueue_norefresh(b) ==
    /\ isr = NoIsr /\ resets < MaxResets
    /\ resets' = resets + 1
    /\ tx' = [tx EXCEPT ![b] = <<>>]
    /\ discarded' = [discarded EXCEPT ![b] = @ + Len(tx[b])]
    /\ UNCHANGED <<hardware, isr, ready, rx_q, counters, sends, frames, accepted,
                   sent, taken, spoiled, host_lost>>

\* Request 0xf1 clears a tx queue.
ClearQueue(b) ==
    /\ isr = NoIsr /\ resets < MaxResets
    /\ resets' = resets + 1
    /\ tx' = [tx EXCEPT ![b] = <<>>]
    /\ discarded' = [discarded EXCEPT ![b] = @ + Len(tx[b])]
    /\ ready' = Refreshed(tx')
    /\ UNCHANGED <<hardware, isr, rx_q, counters, sends, frames, accepted, sent,
                   taken, spoiled, host_lost>>

\* Request 0xf1 clears can_rx_q.
ClearRx ==
    /\ isr = NoIsr /\ resets < MaxResets
    /\ resets' = resets + 1
    /\ rx_q' = 0
    /\ taken' = taken + rx_q
    /\ ready' = Refreshed(tx)
    /\ UNCHANGED <<tx, hardware, isr, counters, sends, frames, accepted, sent,
                   discarded, spoiled, host_lost>>

\* can_init_all: every queue is cleared and every core reset.  A transmission
\* under way is lost and not counted in total_tx_lost_cnt.
CanInitAll ==
    /\ isr = NoIsr /\ resets < MaxResets
    /\ resets' = resets + 1
    /\ tx' = [b \in Bus |-> <<>>]
    /\ discarded' = [b \in Bus |-> discarded[b] + Len(tx[b]) +
                                     (IF core[b] = "busy" THEN 1 ELSE 0)]
    /\ core' = [b \in Bus |-> "idle"]
    /\ rx_fifo' = [b \in Bus |-> 0]
    /\ bus_off' = [b \in Bus |-> FALSE]
    /\ ir' = [b \in Bus |-> {}]
    /\ ready' = Refreshed(tx')
    /\ UNCHANGED <<it0, it1, isr, rx_q, counters, sends, frames, accepted, sent,
                   taken, spoiled, host_lost>>

-----------------------------------------------------------------------------
Zero == [b \in Bus |-> 0]

Init == /\ tx = [b \in Bus |-> <<>>]
        /\ core = [b \in Bus |-> "idle"] /\ rx_fifo = Zero
        /\ bus_off = [b \in Bus |-> FALSE] /\ ir = [b \in Bus |-> {}]
        /\ it0 = [b \in Bus |-> FALSE] /\ it1 = [b \in Bus |-> FALSE]
        /\ isr = NoIsr /\ ready = TRUE /\ rx_q = 0
        /\ tx_buffer_overflow = 0 /\ rx_buffer_overflow = 0
        /\ safety_tx_blocked = 0 /\ total_tx_cnt = Zero
        /\ total_tx_lost_cnt = Zero /\ total_tx_checksum_error_cnt = Zero
        /\ total_rx_cnt = Zero
        /\ sends = 0 /\ frames = 0 /\ resets = 0
        /\ accepted = Zero /\ sent = Zero /\ discarded = Zero /\ taken = 0
        /\ spoiled = [b \in Bus |-> FALSE] /\ host_lost = FALSE

Environment == \E b \in Bus : Frame(b) \/ Fault(b, "BO") \/ Fault(b, "ERR")

Core(b) == It0(b) \/ RxAck(b) \/ RxFrame(b) \/ RxEnd(b) \/ It1(b)

Host == \/ \E n \in 1 .. MsgsPerWrite : WriteBegin(n)
        \/ HostRead
        \/ \E b \in Bus : ClearQueue(b)
        \/ ClearRx
        \/ CanInitAll

Next == \/ Environment
        \/ \E b \in Bus : Transmit(b) \/ Core(b)
        \/ WriteFrame \/ WriteEnd
        \/ Host

Spec == Init /\ [][Next]_vars

-----------------------------------------------------------------------------
(* Properties *)

\* Every packet a tx queue took is waiting, on its way, sent, or counted as
\* lost: total_tx_lost_cnt and total_tx_checksum_error_cnt (health.h:46) miss
\* none but those that a clear or a re-initialisation threw away.
Accounted ==
    \A b \in Bus :
       accepted[b] = Len(tx[b]) + (IF core[b] = "busy" THEN 1 ELSE 0) + sent[b]
                       + total_tx_lost_cnt[b] + total_tx_checksum_error_cnt[b]
                       + discarded[b]

\* can_rx_q hands the host everything that was received, rejected or sent, or
\* rx_buffer_overflow counts it (can_common.h:230, fdcan.h:127, 213).
NothingUnreported ==
    rx_q + taken + rx_buffer_overflow
      = SumFunction(total_rx_cnt) + safety_tx_blocked + SumFunction(total_tx_cnt)

\* The two together: on its way from the host to a bus and from a bus to the
\* host no packet is lost but those a counter of the health packets reports.
LossesAreCounted == Accounted /\ NothingUnreported

\* A queue that waits waits for its core, or for an interrupt that will serve
\* it (fdcan.h:87-89): whichever handler cleared the flag.  Only a packet with
\* a wrong checksum, which raises no TFE, and a reset of the core leave a queue
\* that nothing serves until the next can_send.
StallsOnlyWhenSpoiled ==
    \A b \in Bus : tx[b] # <<>> /\ core[b] = "idle" /\ ~it1[b] => spoiled[b]

\* The host is refused only while some queue lacks the room for a transfer:
\* every step that frees a slot looks again (can_comms.h:115, can_common.h:118).
NotReadyMeansFull ==
    isr.at # "write" /\ ~ready => \E b \in Bus : free(tx[b]) < MinSlots

\* "The panda will NAK CAN writes when there is CAN congestion."
\* (python/__init__.py:822): no packet of an accepted transfer finds its queue
\* full.  Not so: a pop in the middle of a transfer sets spi_can_tx_ready, and
\* the rest of the transfer fills the queue.
CongestionIsNaked == ~host_lost

\* "2. H7 gets stuck in bus off recovery state indefinitely" (fdcan.h:70), so
\* that a bus-off core is reset.  Not so when another handler clears the flag
\* "Clear Tx FIFO Empty flag" (fdcan.h:87) before can_rx reads it.
BusOffIsSeen ==
    \A b \in Bus : bus_off[b] => \/ "BO" \in ir[b]
                                 \/ isr.bus = {b} /\ "BO" \in isr.seen
=============================================================================
