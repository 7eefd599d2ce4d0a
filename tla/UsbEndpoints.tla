---------------------------- MODULE UsbEndpoints ---------------------------
(***************************************************************************)
(* Flow control of the host's CAN writes over USB: endpoint 3 of           *)
(* board/drivers/usb.h.  The host sends a chunk in USB packets; the USB    *)
(* core takes them while the endpoint is armed and puts them, and a mark   *)
(* at the end of the transfer, in its FIFO; usb_irqhandler takes them out  *)
(* one at a time and passes the CAN packets to the transmit queues.  The   *)
(* endpoint is armed again when the transfer is done and enough of the     *)
(* queue is free, by the USB or by a CAN interrupt.                        *)
(*                                                                         *)
(* Interrupt handlers do not interrupt each other; the host and the USB    *)
(* core go on between any two.  A transfer ends with a short USB packet or *)
(* when as many have come as the endpoint was armed for.  What is in the   *)
(* packets is in CanComms, where the queue goes in CanDriver.              *)
(***************************************************************************)
EXTENDS Integers, Sequences, Functions

CONSTANTS
    Slots,       \* usable elements of the transmit queue: 415
    MinFree,     \* MAX_CAN_MSGS_PER_USB_BULK_TRANSFER: 51
    Armed,       \* USB packets the endpoint is armed for: 32
    FifoSize,    \* entries of the RX FIFO, which holds 256 bytes
    Chunk,       \* the chunks of the host: the CAN packets in each USB packet
    MaxForwards, \* bound: frames another bus forwards to this queue
    MaxConnects  \* bound: hosts that connect

ASSUME UsbAssumption ==
    /\ Slots \in Nat /\ MinFree \in Nat /\ MinFree <= Slots
    /\ Armed \in Nat \ {0} /\ FifoSize \in Nat
    /\ MaxForwards \in Nat /\ MaxConnects \in Nat
    \* pack_can_buffer ends a chunk after 256 bytes: 43 CAN packets or fewer.
    /\ \A packets \in Chunk : /\ packets \in Seq(Nat) \ {<<>>}
                              /\ SumFunction(packets) <= MinFree

VARIABLES
    sending,    \* what is left of the host's chunk: [rest, short]
    left,       \* USB packets the endpoint still takes; 0: NAKSTS
    fifo,       \* the RX FIFO of the core: CAN packets in each, or Done
    xfrc,       \* USB_OTG_DOEPINT_XFRC
    outep3_processing,
    free,       \* elements of the queue that are free
    forwards, connects,
    causes      \* ghost: what may make the packets not fit, see LossHasCause

usbVars == <<sending, left, fifo, xfrc, outep3_processing, free,
             forwards, connects, causes>>

Done == -1
Nothing == [rest |-> <<>>, short |-> TRUE]

UsbTypeOK == /\ sending \in [rest : Seq(Nat), short : BOOLEAN]
             /\ left \in 0 .. Armed
             /\ fifo \in Seq(Nat \cup {Done})
             /\ xfrc \in BOOLEAN
             /\ outep3_processing \in BOOLEAN
             /\ free \in 0 .. Slots
             /\ forwards \in 0 .. MaxForwards
             /\ connects \in 0 .. MaxConnects
             /\ causes \subseteq {"connected", "forwarded", "joined", "early"}

-----------------------------------------------------------------------------
(* The host, and the USB core *)

\* pack_can_buffer, and a bulkWrite for the chunk.  Only a chunk whose length
\* is a multiple of the packet size does not end with a short packet.
BulkWrite == /\ sending.rest = <<>>
             /\ \E packets \in Chunk, short \in BOOLEAN :
                    /\ sending' = [rest |-> packets, short |-> short]
                    /\ causes' = IF sending.short THEN causes
                                 ELSE causes \cup {"joined"}
             /\ UNCHANGED <<left, fifo, xfrc, outep3_processing, free,
                            forwards, connects>>

\* The core takes a packet if it has room; the last of a transfer disarms the endpoint.
PacketArrives ==
    /\ sending.rest # <<>> /\ left > 0
    /\ Len(fifo) + 2 <= FifoSize
    /\ LET last == sending.short /\ Len(sending.rest) = 1
       IN  /\ left' = IF last THEN 0 ELSE left - 1
           /\ fifo' = IF left' = 0 THEN fifo \o <<Head(sending.rest), Done>>
                                   ELSE Append(fifo, Head(sending.rest))
    /\ sending' = [sending EXCEPT !.rest = Tail(@)]
    /\ UNCHANGED <<xfrc, outep3_processing, free, forwards, connects, causes>>

\* The write times out; what was sent of it is sent.
WriteTimeout == /\ sending.rest # <<>>
           /\ sending' = [sending EXCEPT !.rest = <<>>]
           /\ causes' = causes \cup {"joined"}
           /\ UNCHANGED <<left, fifo, xfrc, outep3_processing, free,
                          forwards, connects>>

-----------------------------------------------------------------------------
(* The panda *)

\* The endpoint is armed early when packets of the transfer before are in the
\* FIFO and the handler, which would know, has seen none of them.
Causes(processing, xs) == IF xs = <<>> \/ processing THEN {} ELSE {"early"}

\* A bug: the transfer in progress is not waited for.
Resume_hasty(room, processing, xs) ==
    IF room >= MinFree /\ left = 0
    THEN left' = Armed /\ causes' = Causes(processing, xs)
    ELSE UNCHANGED <<left, causes>>

\* refresh_can_tx_slots_available and can_tx_comms_resume_usb, when by then
\* the queue has this room and the FIFO these entries.
Resume(room, processing, xs) ==
    IF room >= MinFree /\ ~processing /\ left = 0
    THEN left' = Armed /\ causes' = Causes(processing, xs)
    ELSE UNCHANGED <<left, causes>>

\* A bug: the end of the transfer does not let the endpoint be armed.
TransferDone_kept(room, processing, xs) == UNCHANGED <<left, causes>>

\* What the handler does about XFRC.
TransferDone(room, processing, xs) == Resume(room, processing, xs)

\* One entry of the FIFO is taken out, then the endpoints are looked at if one
\* had raised an interrupt before, this or another.
usb_irqhandler ==
    /\ fifo # <<>> \/ xfrc
    /\ LET xs == IF fifo = <<>> THEN fifo ELSE Tail(fifo)
           update == fifo # <<>> /\ Head(fifo) # Done
           raised == xfrc \/ (fifo # <<>> /\ Head(fifo) = Done)
           room == IF ~update THEN free
                   ELSE IF Head(fifo) > free THEN 0 ELSE free - Head(fifo)
       IN  /\ fifo' = xs
           /\ free' = room
           /\ \E oepint \in {xfrc, TRUE} :
                  /\ xfrc' = (raised /\ ~oepint)
                  /\ outep3_processing' = /\ outep3_processing \/ update
                                          /\ ~(raised /\ oepint)
                  /\ IF raised /\ oepint THEN TransferDone(room, FALSE, xs)
                     ELSE IF update THEN Resume(room, TRUE, xs)
                     ELSE UNCHANGED <<left, causes>>
    /\ UNCHANGED <<sending, forwards, connects>>

\* process_can takes a packet from the queue.
CanPop == /\ free < Slots
          /\ free' = free + 1
          /\ Resume(free + 1, outep3_processing, fifo)
          /\ UNCHANGED <<sending, fifo, xfrc, outep3_processing,
                         forwards, connects>>

\* can_clear
CanClear == /\ free' = Slots
            /\ Resume(Slots, outep3_processing, fifo)
            /\ UNCHANGED <<sending, fifo, xfrc, outep3_processing,
                           forwards, connects>>

\* A frame of another bus, or one more of the host's over another interface.
Forward == /\ forwards < MaxForwards /\ free > 0
           /\ forwards' = forwards + 1
           /\ free' = free - 1
           /\ causes' = causes \cup {"forwarded"}
           /\ UNCHANGED <<sending, left, fifo, xfrc, outep3_processing, connects>>

\* usb_reset flushes the FIFO, and USB_REQ_SET_CONFIGURATION arms the endpoint
\* whatever the queue has free; outep3_processing stays.
SetConfiguration == /\ connects < MaxConnects
           /\ connects' = connects + 1
           /\ sending' = Nothing
           /\ fifo' = <<>>
           /\ xfrc' = FALSE
           /\ left' = Armed
           /\ causes' = {"connected"}
           /\ UNCHANGED <<outep3_processing, free, forwards>>

UsbInit == /\ sending = Nothing
           /\ left = 0
           /\ fifo = <<>>
           /\ xfrc = FALSE
           /\ outep3_processing = FALSE
           /\ free = Slots
           /\ forwards = 0 /\ connects = 0
           /\ causes = {}

UsbNext == \/ BulkWrite \/ PacketArrives \/ WriteTimeout
           \/ usb_irqhandler \/ CanPop \/ CanClear \/ Forward \/ SetConfiguration

UsbSpec == UsbInit /\ [][UsbNext]_usbVars

\* The core takes packets while it may, pending interrupts are served, and the
\* buses take what is in the queue.
UsbFairness == /\ WF_usbVars(PacketArrives)
               /\ WF_usbVars(usb_irqhandler)
               /\ WF_usbVars(CanPop)

-----------------------------------------------------------------------------
(* What must hold *)

\* A host that has connected and writes is served, or gives up: the endpoint is
\* never left unarmed with nobody to arm it, whichever of the two interrupts
\* saw the end of the transfer or the room in the queue first.
WritesGetThrough == (connects > 0 /\ sending.rest # <<>>) ~> sending.rest = <<>>

\* CAN packets of the host find the queue full only after a new connection
\* armed the endpoint blindly, or frames of others took the room, or two writes
\* became one transfer, or the endpoint was armed when the handler had not
\* looked at the transfer before.
LossHasCause ==
    fifo # <<>> /\ Head(fifo) > free => causes # {}
=============================================================================
