------------------------------ MODULE CanFifo ------------------------------
(***************************************************************************)
(* What a CAN queue of the firmware promises to its users: a bounded FIFO  *)
(* of packets.  A push onto a full queue is refused and loses nothing that *)
(* was accepted before, packets leave in the order they were accepted,     *)
(* and the number of free slots is the true one.                           *)
(*                                                                         *)
(* This is the abstract counterpart of CanQueue, which implements it with  *)
(* two indices into an array (board/drivers/can_common.h).                 *)
(***************************************************************************)
EXTENDS Integers, Sequences

CONSTANTS Packet,     \* the packets that can be queued
          Capacity,   \* how many packets fit
          NoPacket    \* the contents of an out parameter nothing was written to

VARIABLES queue,      \* the accepted packets not taken yet, oldest first
          call,       \* the operation called last
          ret,        \* whether the last push or pop succeeded
          slots,      \* the last answer to "how many slots are free?"
          elem        \* the packet the last successful pop delivered

vars == <<queue, call, ret, slots, elem>>

Init == /\ queue = <<>>
        /\ call = "init"
        /\ ret = FALSE
        /\ slots = 0
        /\ elem = NoPacket

\* A push is accepted exactly when there is room.
Push(p) == /\ Len(queue) < Capacity
           /\ call' = "push"
           /\ queue' = Append(queue, p)
           /\ ret' = TRUE
           /\ UNCHANGED <<slots, elem>>

PushFull == /\ Len(queue) = Capacity
            /\ call' = "push"
            /\ ret' = FALSE
            /\ UNCHANGED <<queue, slots, elem>>

Pop == /\ queue # <<>>
       /\ call' = "pop"
       /\ elem' = Head(queue)
       /\ queue' = Tail(queue)
       /\ ret' = TRUE
       /\ UNCHANGED slots

PopEmpty == /\ queue = <<>>
            /\ call' = "pop"
            /\ ret' = FALSE
            /\ UNCHANGED <<queue, slots, elem>>

SlotsEmpty == /\ call' = "slots_empty"
              /\ slots' = Capacity - Len(queue)
              /\ UNCHANGED <<queue, ret, elem>>

Clear == /\ call' = "clear"
         /\ queue' = <<>>
         /\ UNCHANGED <<ret, slots, elem>>

Next == \/ \E p \in Packet : Push(p)
        \/ PushFull
        \/ Pop
        \/ PopEmpty
        \/ SlotsEmpty
        \/ Clear

Spec == Init /\ [][Next]_vars
=============================================================================
