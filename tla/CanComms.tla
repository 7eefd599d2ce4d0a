------------------------------ MODULE CanComms -----------------------------
(***************************************************************************)
(* The two byte streams of CAN packets between host and panda, which       *)
(* board/can_comms.h and python/__init__.py cut into chunks: a packet may  *)
(* span several chunks, each side keeps the part it has in a buffer, and a *)
(* host that connects resets the panda's buffers at any point.             *)
(*                                                                         *)
(* A byte is its position in the stream.  What its value would mean as the *)
(* first byte of a packet is Length: the size of the packet where one      *)
(* starts (Boundary), anything elsewhere.  Handlers are not preempted; one *)
(* iteration of their loops is one step.                                   *)
(***************************************************************************)
EXTENDS Integers, Sequences

CONSTANTS
    Total,      \* bound: positions of each stream
    Length,     \* [0 .. Total - 1 -> Nat]: header plus dlc_to_len of a byte
    Boundary,   \* where packets start and end
    MaxLength,  \* of a packet: 70 bytes
    Chunks,     \* sizes of the chunks the host writes
    ReadSize,   \* size of the chunks it reads: 64 (USB) or 1984 (SPI)
    BulkReads,  \* chunks in one bulkRead: 16384 / ReadSize
    Kept        \* whether a connecting host may have kept its own buffer

Position == 0 .. Total - 1

ASSUME CommsAssumption ==
    /\ Total \in Nat
    /\ MaxLength \in Nat
    /\ Length \in [Position -> 1 .. MaxLength]
    /\ Boundary \subseteq 0 .. Total
    /\ 0 \in Boundary /\ Total \in Boundary
    /\ \A b \in Boundary \ {Total} :
         /\ b + Length[b] \in Boundary
         /\ \A c \in Boundary : c > b => c >= b + Length[b]
    /\ Chunks \subseteq Nat \ {0}
    /\ ReadSize \in Nat \ {0}
    /\ BulkReads \in Nat \ {0}
    /\ Kept \subseteq BOOLEAN

VARIABLES
    (* from the host to the CAN buses *)
    next_out,     \* the next byte the host writes
    chunk,        \* what comms_can_write has left of the chunk it was given
    write_buffer, \* can_write_buffer: data up to ptr
    tail_size,    \* can_write_buffer.tail_size
    handed,       \* the packet given to can_send last
    due,          \* ghost: where the packet to be handed next starts
    (* from the CAN buses to the host *)
    arrived,      \* the end of the last packet pushed onto can_rx_q
    next_in,      \* where the packet to be popped next starts
    read_buffer,  \* can_read_buffer: data up to ptr
    max_len,      \* of the running comms_can_read, 0 if none is
    data,         \* what it has written so far
    dat,          \* what bulkRead has returned, then what is left to unpack
    reads,        \* chunks it may still read, 0 if the host is not reading
    overflow,     \* can_rx_overflow_buffer
    unpacking,    \* unpack_can_buffer is running
    wanted,       \* ghost: where the packet to be unpacked next starts
    bad           \* "CAN packet checksum incorrect" was raised

writing == <<next_out, chunk, write_buffer, tail_size, handed, due>>
panda_reading == <<arrived, next_in, read_buffer, max_len, data>>
host_reading == <<dat, reads, overflow, unpacking, wanted, bad>>
vars == <<writing, panda_reading, host_reading>>

MIN(a, b) == IF a < b THEN a ELSE b

\* n consecutive bytes from position a on.
Run(a, n) == [i \in 1 .. n |-> a + i - 1]

Take(s, n) == SubSeq(s, 1, n)
Drop(s, n) == SubSeq(s, n + 1, Len(s))

-----------------------------------------------------------------------------
(* comms_can_write *)

\* The host writes the next chunk; pack_can_buffer has joined whole packets.
HostWrite ==
    /\ chunk = <<>>
    /\ \E n \in Chunks :
         /\ next_out + n <= Total
         /\ chunk' = Run(next_out, n)
         /\ next_out' = next_out + n
    /\ UNCHANGED <<write_buffer, tail_size, handed, due,
                   panda_reading, host_reading>>

\* A packet is complete and goes to can_send.
Hand(packet) ==
    /\ handed' = packet
    /\ due' = due + Length[due]

\* "we have enough data to complete the buffer"
Complete ==
    /\ chunk # <<>>
    /\ write_buffer # <<>>
    /\ tail_size <= Len(chunk)
    /\ Hand(write_buffer \o Take(chunk, tail_size))
    /\ chunk' = Drop(chunk, tail_size)
    /\ write_buffer' = <<>>
    /\ tail_size' = 0
    /\ UNCHANGED <<next_out, panda_reading, host_reading>>

\* "maybe next time"
Later ==
    /\ chunk # <<>>
    /\ write_buffer # <<>>
    /\ tail_size > Len(chunk)
    /\ write_buffer' = write_buffer \o chunk
    /\ tail_size' = tail_size - Len(chunk)
    /\ chunk' = <<>>
    /\ UNCHANGED <<next_out, handed, due, panda_reading, host_reading>>

\* A whole packet in the chunk.
Whole ==
    /\ chunk # <<>>
    /\ write_buffer = <<>>
    /\ LET pckt_len == Length[chunk[1]]
       IN  /\ pckt_len <= Len(chunk)
           /\ Hand(Take(chunk, pckt_len))
           /\ chunk' = Drop(chunk, pckt_len)
    /\ UNCHANGED <<next_out, write_buffer, tail_size,
                   panda_reading, host_reading>>

\* A bug: what is missing of the packet is counted without its first byte.
Stash_short ==
    /\ chunk # <<>>
    /\ write_buffer = <<>>
    /\ Length[chunk[1]] > Len(chunk)
    /\ write_buffer' = chunk
    /\ tail_size' = MIN(Length[chunk[1]] - Len(chunk) + 1, MaxLength)
    /\ chunk' = <<>>
    /\ UNCHANGED <<next_out, handed, due, panda_reading, host_reading>>

\* The start of a packet that does not end in this chunk.
Stash ==
    /\ chunk # <<>>
    /\ write_buffer = <<>>
    /\ Length[chunk[1]] > Len(chunk)
    /\ write_buffer' = chunk
    /\ tail_size' = Length[chunk[1]] - Len(chunk)
    /\ chunk' = <<>>
    /\ UNCHANGED <<next_out, handed, due, panda_reading, host_reading>>

Write == HostWrite \/ Complete \/ Later \/ Whole \/ Stash

-----------------------------------------------------------------------------
(* comms_can_read *)

\* A packet comes from a bus, or from the safety hooks, between two handlers.
\* That can_rx_q may be full is left to CanDriver.
Push == /\ max_len = 0
        /\ arrived < Total
        /\ arrived' = arrived + Length[arrived]
        /\ UNCHANGED <<writing, next_in, read_buffer, max_len, data,
                       host_reading>>

\* "Send tail of previous message if it is in buffer"
ReadBegin ==
    /\ reads > 0
    /\ max_len = 0
    /\ LET overflow_len == MIN(ReadSize, Len(read_buffer))
       IN  /\ data' = Take(read_buffer, overflow_len)
           /\ read_buffer' = Drop(read_buffer, overflow_len)
    /\ max_len' = ReadSize
    /\ UNCHANGED <<writing, arrived, next_in, host_reading>>

\* A bug: a packet that does not fit is left for the next chunk.
More_whole == /\ read_buffer = <<>>
              /\ next_in < arrived
              /\ Len(data) + Length[next_in] <= max_len

\* There is room in the chunk and a packet to put there.
More == /\ read_buffer = <<>>
        /\ next_in < arrived
        /\ Len(data) < max_len

\* "Fill rest of buffer with new data"; what does not fit is kept.
ReadPacket ==
    /\ max_len > 0
    /\ More
    /\ LET can_packet == Run(next_in, Length[next_in])
           fits == MIN(Len(can_packet), max_len - Len(data))
       IN  /\ data' = data \o Take(can_packet, fits)
           /\ read_buffer' = Drop(can_packet, fits)
           /\ next_in' = next_in + Len(can_packet)
    /\ UNCHANGED <<writing, arrived, max_len, host_reading>>

\* The chunk goes to the host, whose bulkRead stops at a short one; what it
\* has read is unpacked behind the bytes kept from the call before.
ReadEnd ==
    /\ max_len > 0
    /\ ~More
    /\ reads' = IF Len(data) < max_len THEN 0 ELSE reads - 1
    /\ unpacking' = (reads' = 0)
    /\ dat' = IF reads' = 0 THEN overflow \o dat \o data ELSE dat \o data
    /\ max_len' = 0
    /\ data' = <<>>
    /\ UNCHANGED <<writing, arrived, next_in, read_buffer,
                   overflow, wanted, bad>>

-----------------------------------------------------------------------------
(* can_recv *)

\* The host starts to read; it does one thing at a time.
HostRead == /\ reads = 0
            /\ ~unpacking
            /\ reads' = BulkReads
            /\ UNCHANGED <<writing, panda_reading,
                           dat, overflow, unpacking, wanted, bad>>

\* A whole message is left, by what its first byte says.
HasMessage == dat # <<>> /\ Length[dat[1]] <= Len(dat)

\* The bytes are those of one packet: else its checksum would not be right.
IsPacket(bytes) ==
    /\ bytes[1] \in Boundary
    /\ bytes = Run(bytes[1], Length[bytes[1]])

\* The next message.  An AssertionError ("CAN packet checksum incorrect")
\* leaves can_recv with the overflow buffer it had, what was read is lost.
Unpack ==
    /\ unpacking
    /\ HasMessage
    /\ IF IsPacket(Take(dat, Length[dat[1]]))
       THEN /\ dat' = Drop(dat, Length[dat[1]])
            /\ wanted' = dat[1] + Length[dat[1]]
            /\ UNCHANGED <<unpacking, bad>>
       ELSE /\ dat' = <<>>
            /\ unpacking' = FALSE
            /\ bad' = TRUE
            /\ UNCHANGED wanted
    /\ UNCHANGED <<writing, panda_reading, reads, overflow>>

\* "we need more from the next transfer"
UnpackEnd ==
    /\ unpacking
    /\ ~HasMessage
    /\ overflow' = dat
    /\ dat' = <<>>
    /\ unpacking' = FALSE
    /\ UNCHANGED <<writing, panda_reading, reads, wanted, bad>>

Read == Push \/ ReadBegin \/ ReadPacket \/ ReadEnd

Recv == HostRead \/ Unpack \/ UnpackEnd

-----------------------------------------------------------------------------
(* A connection starts *)

\* A bug: the packet the host before wrote half of is kept.
comms_can_reset_readonly ==
    /\ read_buffer' = <<>>
    /\ UNCHANGED <<write_buffer, tail_size>>

comms_can_reset ==
    /\ write_buffer' = <<>>
    /\ tail_size' = 0
    /\ read_buffer' = <<>>

\* Panda.connect, after the host before it stopped anywhere between two calls.
\* A new Panda object has an empty buffer, Panda.reconnect keeps the one it
\* has.  The new host starts with a packet of its own.
Connect ==
    /\ chunk = <<>>
    /\ max_len = 0
    /\ comms_can_reset
    /\ \E b \in Boundary : /\ b >= next_out
                           /\ \A c \in Boundary : c >= next_out => c >= b
                           /\ next_out' = b
                           /\ due' = b
    /\ \E kept \in Kept : overflow' = IF kept THEN overflow ELSE <<>>
    /\ wanted' = next_in
    /\ dat' = <<>>
    /\ reads' = 0
    /\ unpacking' = FALSE
    /\ UNCHANGED <<chunk, handed, arrived, next_in, max_len, data, bad>>

Init == /\ next_out = 0
        /\ chunk = <<>>
        /\ write_buffer = <<>>
        /\ tail_size = 0
        /\ handed = <<>>
        /\ due = 0
        /\ arrived = 0
        /\ next_in = 0
        /\ read_buffer = <<>>
        /\ max_len = 0
        /\ data = <<>>
        /\ dat = <<>>
        /\ reads = 0
        /\ overflow = <<>>
        /\ unpacking = FALSE
        /\ wanted = 0
        /\ bad = FALSE

Next == Write \/ Read \/ Recv \/ Connect

Spec == Init /\ [][Next]_vars

-----------------------------------------------------------------------------
(* What must hold *)

\* The buffers hold part of a packet, never a whole one, and the count of
\* missing bytes belongs to it: 72 bytes are enough.
TypeOK ==
    /\ next_out \in 0 .. Total
    /\ chunk \in Seq(Position)
    /\ write_buffer \in Seq(Position)
    /\ tail_size \in Nat
    /\ (write_buffer = <<>>) = (tail_size = 0)
    /\ Len(write_buffer) + tail_size <= MaxLength
    /\ handed \in Seq(Position)
    /\ due \in 0 .. Total
    /\ arrived \in 0 .. Total
    /\ next_in \in 0 .. arrived
    /\ read_buffer \in Seq(Position)
    /\ read_buffer # <<>> => Len(read_buffer) < MaxLength
    /\ max_len \in {0, ReadSize}
    /\ data \in Seq(Position)
    /\ Len(data) <= max_len
    /\ dat \in Seq(Position)
    /\ reads \in 0 .. BulkReads
    /\ overflow \in Seq(Position)
    /\ unpacking \in BOOLEAN
    /\ wanted \in 0 .. Total
    /\ bad \in BOOLEAN

\* Every packet given to can_send is the next one of the host connected now,
\* byte for byte, however it was cut into chunks and wherever the host before
\* stopped (comms_can_write, comms_can_reset).
SentInOrder ==
    [][handed' # handed => handed' = Run(due, Length[due])]_vars

\* When the host has written whole packets the panda has handed on all of
\* them: none waits in can_write_buffer for bytes of a later one.
NothingHeldBack == chunk = <<>> /\ next_out \in Boundary => due = next_out

\* No byte of a packet that was popped is lost, doubled or out of order on its
\* way: what the host keeps, what it has read and what the panda keeps follow
\* one another (comms_can_read, can_recv).
ReceivedInOrder ==
    (IF unpacking THEN dat ELSE overflow \o dat) \o data \o read_buffer
        = Run(wanted, next_in - wanted)

\* "chunks are always the given length, except the last one" (can_comms.h:7):
\* bulkRead stops at a short chunk, when there is nothing left to read.
ShortIsLast ==
    [][max_len > 0 /\ max_len' = 0 /\ Len(data) < max_len
          => next_in = arrived /\ read_buffer = <<>>]_vars

\* can_recv never raises "CAN packet checksum incorrect": the panda's buffer
\* and the host's are at the same place in a packet whenever a host connects,
\* as "the overflow buffers are reset by a dedicated control transfer handler,
\* which is sent by the host on each start of a connection" (can_comms.h:10).
HostParses == ~bad

\* The three together: no byte is held back, lost, doubled or out of order, in
\* either direction, and the host can parse what it gets.
StreamsAreWhole == NothingHeldBack /\ ReceivedInOrder /\ HostParses
=============================================================================
