------------------------------ MODULE CanQueue -----------------------------
(***************************************************************************)
(* The ring of CAN packets of board/drivers/can_common.h: can_rx_q and the *)
(* three transmit queues.  An array of fifo_size elements is used between  *)
(* a read index r_ptr and a write index w_ptr; one element is always left  *)
(* free so that w_ptr = r_ptr can only mean "empty".                       *)
(*                                                                         *)
(* Every operation runs between ENTER_CRITICAL and EXIT_CRITICAL, with     *)
(* interrupts off, so each one is a single atomic step here, whichever     *)
(* interrupt handler (USB, SPI, CAN) calls it.                             *)
(***************************************************************************)
EXTENDS Integers, Sequences

CONSTANTS Packet,      \* the packets that can be queued
          fifo_size,   \* number of array elements: 4096 (rx), 416 (tx)
          NoPacket     \* contents of an element never written, not a packet

ASSUME QueueAssumption == /\ fifo_size \in Nat \ {0}
                          /\ NoPacket \notin Packet

VARIABLES elems,       \* the array, indexed from 0
          w_ptr,       \* index the next push writes
          r_ptr,       \* index the next pop reads
          call,        \* the operation called last
          ret,         \* what the last can_push or can_pop returned
          slots,       \* what the last can_slots_empty returned
          elem         \* what the last successful can_pop copied out

vars == <<elems, w_ptr, r_ptr, call, ret, slots, elem>>

Index == 0 .. fifo_size - 1

TypeOK == /\ elems \in [Index -> Packet \cup {NoPacket}]
          /\ w_ptr \in Index
          /\ r_ptr \in Index
          /\ call \in {"init", "push", "pop", "slots_empty", "clear"}
          /\ ret \in BOOLEAN
          /\ slots \in 0 .. fifo_size - 1
          /\ elem \in Packet \cup {NoPacket}

\* The static initialiser of can_buffer: both indices 0, the array zeroed.
Init == /\ elems = [i \in Index |-> NoPacket]
        /\ w_ptr = 0
        /\ r_ptr = 0
        /\ call = "init"
        /\ ret = FALSE
        /\ slots = 0
        /\ elem = NoPacket

\* The wrap-around both operations compute by hand.
NextIndex(i) == IF i + 1 = fifo_size THEN 0 ELSE i + 1

\* A bug the properties must notice: a push that forgets the slot kept free,
\* so that a ring that has just been filled looks empty.
can_push_overruns(p) ==
    /\ call' = "push"
    /\ elems' = [elems EXCEPT ![w_ptr] = p]
    /\ w_ptr' = NextIndex(w_ptr)
    /\ ret' = TRUE
    /\ UNCHANGED <<r_ptr, slots, elem>>

can_push(p) ==
    /\ call' = "push"
    /\ \/ /\ NextIndex(w_ptr) # r_ptr
          /\ elems' = [elems EXCEPT ![w_ptr] = p]
          /\ w_ptr' = NextIndex(w_ptr)
          /\ ret' = TRUE
          /\ UNCHANGED <<r_ptr, slots, elem>>
       \/ /\ NextIndex(w_ptr) = r_ptr
          /\ ret' = FALSE
          /\ UNCHANGED <<elems, w_ptr, r_ptr, slots, elem>>

can_pop ==
    /\ call' = "pop"
    /\ \/ /\ w_ptr # r_ptr
          /\ elem' = elems[r_ptr]
          /\ r_ptr' = NextIndex(r_ptr)
          /\ ret' = TRUE
          /\ UNCHANGED <<elems, w_ptr, slots>>
       \/ /\ w_ptr = r_ptr
          /\ ret' = FALSE
          /\ UNCHANGED <<elems, w_ptr, r_ptr, slots, elem>>

SlotsEmpty == IF w_ptr >= r_ptr THEN fifo_size - 1 - w_ptr + r_ptr
                                ELSE r_ptr - w_ptr - 1

can_slots_empty == /\ call' = "slots_empty"
                   /\ slots' = SlotsEmpty
                   /\ UNCHANGED <<elems, w_ptr, r_ptr, ret, elem>>

can_clear == /\ call' = "clear"
             /\ w_ptr' = 0
             /\ r_ptr' = 0
             /\ UNCHANGED <<elems, ret, slots, elem>>

Next == \/ \E p \in Packet : can_push(p)
        \/ can_pop
        \/ can_slots_empty
        \/ can_clear

Spec == Init /\ [][Next]_vars

-----------------------------------------------------------------------------
(* The queue the two indices stand for: the elements from r_ptr up to, and *)
(* not including, w_ptr, going round the end of the array.                 *)

Count == IF w_ptr >= r_ptr THEN w_ptr - r_ptr ELSE w_ptr - r_ptr + fifo_size

Slot(i) == IF r_ptr + i <= fifo_size THEN r_ptr + i - 1
                                     ELSE r_ptr + i - 1 - fifo_size

Contents == [i \in 1 .. Count |-> elems[Slot(i)]]

Fifo == INSTANCE CanFifo WITH queue <- Contents, Capacity <- fifo_size - 1

(* Refinement: the ring behaves as a FIFO of fifo_size - 1 packets.  A     *)
(* push is refused only when all the usable slots are taken, nothing is    *)
(* lost, duplicated, reordered or delivered again after the indices wrap,  *)
(* and can_slots_empty reports what that FIFO has free.                    *)
RefinesFifo == Fifo!Spec

\* The contents are packets that were pushed, never elements still zeroed: the
\* part of the refinement that makes it inductive.
OnlyPackets == \A i \in 1 .. Count : elems[Slot(i)] \in Packet
=============================================================================
