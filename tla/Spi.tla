--------------------------------- MODULE Spi -------------------------------
(***************************************************************************)
(* The protocol between host and panda over SPI: the state machine of      *)
(* board/drivers/spi.h with the DMA of llspi.h, and the transfers of       *)
(* python/spi.py with their retries.                                       *)
(*                                                                         *)
(* SPI moves a cell (a byte) in each direction when the host clocks it.    *)
(* The panda's DMA is armed for some cells to receive, or for some to      *)
(* send, or for neither while a handler has yet to run: then what the host *)
(* sends is lost and what it reads is idle.  A handler runs at any time    *)
(* after its DMA has finished, also in the middle of what the host reads.  *)
(*                                                                         *)
(* A cell is known by what it is part of and its position there.  A        *)
(* corrupted cell is never taken for another one, and a checksum is right  *)
(* exactly when the cells before it are.                                   *)
(***************************************************************************)
EXTENDS Naturals, Sequences

CONSTANTS
    Kind,          \* kinds of requests
    Refusable,     \* those that are refused while the queues are full
    HeaderSize,    \* SPI_HEADER_SIZE: 7
    DataSize,      \* [Kind -> Nat]: of data and checksum
    ResponseSize,  \* [Kind -> Nat]: of DACK, length, response, checksum
    PollSize,      \* cells read at a time until one starts with DACK: 68
    Patience,      \* reads in MIN_ACK_TIMEOUT_MS
    MaxCalls,      \* bound: transfers the host starts
    MaxFaults      \* bound: cells corrupted, and handlers that are late

ASSUME SpiAssumption ==
    /\ Refusable \subseteq Kind
    /\ HeaderSize \in Nat \ {0}
    /\ DataSize \in [Kind -> Nat \ {0}]
    /\ ResponseSize \in [Kind -> Nat \ {0, 1}]
    /\ PollSize \in Nat \ {0, 1}
    /\ Patience \in Nat \ {0}
    /\ MaxCalls \in Nat
    /\ MaxFaults \in Nat

VARIABLES
    (* the host *)
    call, kind,  \* its request: a number, and what it asks for
    phase,       \* of _transfer_spidev, or "idle"
    clocked,     \* cells of the running xfer2 that have been clocked
    got,         \* the response, as far as it was read
    expected,    \* how many cells of it there are
    polls,       \* reads without an answer
    (* the panda *)
    spi_state,
    header,      \* the valid header in spi_buf_rx: its call and kind
    rx, rx_left, \* what was received since the DMA was armed, and is missing
    tx,          \* what is left to be sent
    done,        \* the DMA whose handler has not run: "rx", "tx" or "none"
    (* around them *)
    late,        \* the handler did not run before the next xfer2
    faults,      \* how often something went wrong
    calm,        \* nothing goes wrong any more
    (* ghosts *)
    runs,        \* how often a request was carried out
    ran,         \* the call that was carried out last
    answer,      \* the run whose response the last transfer returned
    before       \* faults before the transfer began

host == <<call, kind, phase, clocked, got, expected, polls>>
panda == <<spi_state, header, rx, rx_left, tx, done>>
ghosts == <<runs, ran, answer, before>>
spiVars == <<host, panda, late, faults, calm, ghosts>>

NoCall == 0

Cell(of, c, i) == [of |-> of, call |-> c, i |-> i]
Lone(of) == Cell(of, NoCall, 0)    \* "idle", "junk", "poll", "hack", "nack"

\* n cells that belong together; the last one is their checksum.
Packet(of, c, n) == [i \in 1 .. n |-> Cell(IF i = n THEN "sum" ELSE of, c, i)]

\* The response of run n.  After the DACK comes its length.
Response(n, size) == [i \in 1 .. size |-> IF i = 2 THEN Cell("length", n, size)
                                                   ELSE Cell("response", n, i)]

SpiTypeOK ==
    /\ call \in 0 .. MaxCalls
    /\ kind \in Kind
    /\ phase \in {"idle", "header", "hack", "data", "dack", "rest"}
    /\ clocked \in Nat
    /\ Len(got) <= expected
    /\ polls \in 0 .. Patience
    /\ spi_state \in {"HEADER", "HEADER_ACK", "HEADER_NACK", "DATA_RX", "DATA_TX"}
    /\ header.call \in 0 .. call /\ header.kind \in Kind
    /\ done \in {"none", "rx", "tx"}
    /\ (done = "none") = (rx_left > 0 \/ tx # <<>>)
    /\ rx_left > 0 => tx = <<>> /\ spi_state \in {"HEADER", "DATA_RX"}
    /\ late => done # "none"
    /\ faults \in 0 .. MaxFaults
    /\ ran \in 0 .. call
    /\ answer \in 0 .. runs

-----------------------------------------------------------------------------
(* The wire *)

\* The panda's side of one cell.
Shift(out) ==
    IF tx # <<>>
    THEN /\ tx' = Tail(tx)
         /\ done' = IF Len(tx) = 1 THEN "tx" ELSE done
         /\ UNCHANGED <<rx, rx_left>>
    ELSE IF rx_left > 0
    THEN /\ rx' = Append(rx, out)
         /\ rx_left' = rx_left - 1
         /\ done' = IF rx_left = 1 THEN "rx" ELSE done
         /\ UNCHANGED tx
    ELSE UNCHANGED <<rx, rx_left, tx, done>>

Wire == {"good", "mosi", "miso"}    \* which of the two cells is corrupted

\* What the host reads.
In(wire) == CASE wire = "miso" -> Lone("junk")
              [] wire # "miso" /\ tx # <<>> -> Head(tx)
              [] wire # "miso" /\ tx = <<>> -> Lone("idle")

\* The host clocks one cell.  If it is the first of an xfer2 a handler that has
\* not run is late.
Clock(out, wire) ==
    LET lag == clocked = 0 /\ done # "none" /\ ~late
        wrong == (IF lag THEN 1 ELSE 0) + (IF wire # "good" THEN 1 ELSE 0)
    IN  /\ wrong > 0 => ~calm /\ faults + wrong <= MaxFaults
        /\ faults' = faults + wrong
        /\ late' = (late \/ lag)
        /\ Shift(IF wire = "mosi" THEN Lone("junk") ELSE out)
        /\ UNCHANGED <<call, kind, spi_state, header, calm, runs, ran, before>>

-----------------------------------------------------------------------------
(* The panda *)

\* llspi_mosi_dma
Arm(state, n) == /\ spi_state' = state
                 /\ rx' = <<>>
                 /\ rx_left' = n
                 /\ UNCHANGED tx

\* llspi_miso_dma
Send(state, cells) == /\ spi_state' = state
                      /\ tx' = cells
                      /\ rx' = <<>>
                      /\ UNCHANGED rx_left

Handled == /\ done' = "none"
           /\ late' = FALSE
           /\ UNCHANGED <<host, faults, calm, answer, before>>

\* spi_rx_done in SPI_STATE_HEADER.  A header that is whole is that of the call
\* under way: handlers have run before another one begins.
RxHeader ==
    /\ done = "rx" /\ spi_state = "HEADER"
    /\ IF rx = Packet("header", call, HeaderSize)
       THEN /\ header' = [call |-> call, kind |-> kind]
            /\ Send("HEADER_ACK", <<Lone("hack")>>)
       ELSE /\ Send("HEADER_NACK", <<Lone("nack")>>)
            /\ UNCHANGED header
    /\ Handled
    /\ UNCHANGED <<runs, ran>>

\* A bug: the checksum of the data is not looked at.
Intact_always(c) == TRUE

\* validate_checksum: the cells of the data, or those of a whole header.
Intact(c) == rx \in {Packet("data", c, Len(rx)), Packet("header", c, HeaderSize)}

\* The handler of the endpoint has done its work.
Respond(own) ==
    /\ runs' = runs + 1
    /\ ran' = IF own THEN header.call ELSE NoCall
    /\ Send("DATA_TX", Response(runs', ResponseSize[header.kind]))

Refuse == /\ Send("HEADER_NACK", <<Lone("nack")>>)
          /\ UNCHANGED <<runs, ran>>

\* spi_rx_done in SPI_STATE_DATA_RX.
RxData ==
    /\ done = "rx" /\ spi_state = "DATA_RX"
    /\ IF \E c \in 1 .. call : Intact(c)
       THEN \/ Respond(rx = Packet("data", header.call, DataSize[header.kind]))
            \/ header.kind \in Refusable /\ ~calm /\ Refuse
       ELSE Refuse
    /\ Handled
    /\ UNCHANGED header

\* A bug: after a NACK the DMA is not armed for the next header.
TxDone_nonack ==
    /\ done = "tx"
    /\ CASE spi_state = "HEADER_ACK"  -> Arm("DATA_RX", DataSize[header.kind])
         [] spi_state = "HEADER_NACK" -> Arm("HEADER", 0)
         [] spi_state = "DATA_TX"     -> Arm("HEADER", HeaderSize)
    /\ Handled
    /\ UNCHANGED <<header, runs, ran>>

\* spi_tx_done
TxDone ==
    /\ done = "tx"
    /\ IF spi_state = "HEADER_ACK" THEN Arm("DATA_RX", DataSize[header.kind])
                                   ELSE Arm("HEADER", HeaderSize)
    /\ Handled
    /\ UNCHANGED <<header, runs, ran>>

-----------------------------------------------------------------------------
(* The host: _transfer and _transfer_spidev *)

\* The next step of a transfer; every one starts with a new xfer2.
Go(next) == /\ phase' = next
            /\ clocked' = 0
            /\ polls' = 0
            /\ got' = <<>>
            /\ expected' = PollSize

Begin == /\ phase = "idle" /\ call < MaxCalls
         /\ call' = call + 1
         /\ kind' \in Kind
         /\ Go("header")
         /\ answer' = 0
         /\ before' = faults
         /\ UNCHANGED <<panda, late, faults, calm, runs, ran>>

\* xfer2 of a packet.
SendPacket(packet, next) ==
    /\ \E wire \in Wire : Clock(packet[clocked + 1], wire)
    /\ IF clocked + 1 = Len(packet)
       THEN Go(next)
       ELSE clocked' = clocked + 1 /\ UNCHANGED <<phase, polls, got, expected>>
    /\ UNCHANGED answer

SendHeader == phase = "header" /\ SendPacket(Packet("header", call, HeaderSize), "hack")

SendData == phase = "data" /\ SendPacket(Packet("data", call, DataSize[kind]), "dack")

\* The time for an acknowledgement is not over: it is longer than any handler.
Waiting == polls < Patience \/ done # "none" \/ clocked > 0

Unanswered == polls' = IF polls < Patience THEN polls + 1 ELSE polls

PollHack ==
    /\ phase = "hack" /\ Waiting
    /\ \E wire \in Wire :
          /\ Clock(Lone("poll"), wire)
          /\ CASE In(wire) = Lone("nack") -> Go("header")
               [] In(wire) = Lone("hack") -> Go("data")
               [] OTHER -> /\ Unanswered
                           /\ UNCHANGED <<phase, clocked, got, expected>>
    /\ UNCHANGED answer

\* What was read is a response with the right checksum.
IsResponse(cells) == cells = Response(cells[1].call, Len(cells))

\* The response was read: it is returned, or the transfer is tried again.
Finish(cells) ==
    IF IsResponse(cells)
    THEN /\ phase' = "idle"
         /\ answer' = cells[1].call
         /\ clocked' = 0 /\ polls' = 0 /\ got' = <<>>
         /\ expected' = PollSize
    ELSE Go("header") /\ UNCHANGED answer

\* A bug: the rest of a long response is not read.
Acknowledged_norest(cells) ==
    Finish(SubSeq(cells, 1, IF cells[2].of = "length" /\ cells[2].i < PollSize
                            THEN cells[2].i ELSE PollSize))

\* A read of PollSize cells that starts with a DACK is the response or the
\* first part of it.  If its length was corrupted, any number is expected.
Acknowledged(cells) ==
    \E size \in IF cells[2].of = "length" THEN {cells[2].i}
                ELSE {ResponseSize[k] : k \in Kind} :
       IF size <= PollSize
       THEN Finish(SubSeq(cells, 1, size))
       ELSE /\ phase' = "rest"
            /\ got' = cells
            /\ expected' = size
            /\ clocked' = 0
            /\ UNCHANGED <<polls, answer>>

PollDack ==
    /\ phase = "dack" /\ Waiting
    /\ \E wire \in Wire :
          LET cells == Append(got, In(wire))
          IN  /\ Clock(Lone("poll"), wire)
              /\ IF Len(cells) < PollSize
                 THEN /\ got' = cells
                      /\ clocked' = clocked + 1
                      /\ UNCHANGED <<phase, expected, polls, answer>>
                 ELSE CASE cells[1] = Lone("nack") -> Go("header") /\ UNCHANGED answer
                        [] cells[1].of = "response" /\ cells[1].i = 1 ->
                             Acknowledged(cells)
                        [] OTHER -> /\ Unanswered
                                    /\ got' = <<>>
                                    /\ clocked' = 0
                                    /\ UNCHANGED <<phase, expected, answer>>

\* The rest of a response.
ReadRest ==
    /\ phase = "rest"
    /\ \E wire \in Wire :
          LET cells == Append(got, In(wire))
          IN  /\ Clock(Lone("poll"), wire)
              /\ IF Len(cells) < expected
                 THEN /\ got' = cells
                      /\ clocked' = clocked + 1
                      /\ UNCHANGED <<phase, expected, polls, answer>>
                 ELSE Finish(cells)

\* PandaSpiMissingAck
Timeout == /\ phase \in {"hack", "dack"}
           /\ ~Waiting
           /\ Go("header")
           /\ UNCHANGED <<call, kind, panda, late, faults, calm, ghosts>>

\* The time for the whole transfer is over, or the host process ends: between
\* two calls of xfer2, and long before another process starts to talk.
GiveUp == /\ phase # "idle" /\ clocked = 0 /\ done = "none" /\ ~calm
          /\ phase' = "idle"
          /\ got' = <<>>
          /\ expected' = PollSize
          /\ polls' = 0
          /\ UNCHANGED <<call, kind, clocked, panda, late, faults, calm, ghosts>>

\* From now on nothing goes wrong.
Calm == /\ ~calm /\ ~late
        /\ calm' = TRUE
        /\ UNCHANGED <<host, panda, late, faults, ghosts>>

-----------------------------------------------------------------------------
\* spi_init has armed the DMA for the first header.
SpiInit == /\ call = NoCall
        /\ kind \in Kind
        /\ phase = "idle"
        /\ clocked = 0
        /\ got = <<>>
        /\ expected = PollSize
        /\ polls = 0
        /\ spi_state = "HEADER"
        /\ header = [call |-> NoCall, kind |-> kind]
        /\ rx = <<>>
        /\ rx_left = HeaderSize
        /\ tx = <<>>
        /\ done = "none"
        /\ late = FALSE
        /\ faults = 0
        /\ calm = FALSE
        /\ runs = 0
        /\ ran = NoCall
        /\ answer = 0
        /\ before = 0

Transfer == SendHeader \/ PollHack \/ SendData \/ PollDack \/ ReadRest \/ Timeout

Panda == RxHeader \/ RxData \/ TxDone

SpiNext == Begin \/ Transfer \/ GiveUp \/ Panda \/ Calm

SpiSpec == SpiInit /\ [][SpiNext]_spiVars

\* A transfer goes on, and a handler whose DMA has finished runs.
SpiFairness == WF_spiVars(Transfer) /\ WF_spiVars(Panda)

-----------------------------------------------------------------------------
(* What must hold *)

\* The protocol is a remote call: a transfer that returns was carried out with
\* its own data, and returns the answer of the run that came last.  Whatever
\* the wire did before, nothing the host did not ask for is carried out
\* (spi_rx_done, _transfer).
Remote == INSTANCE RemoteCall WITH busy <- phase # "idle", done <- ran
CallsAreRemote == Remote!Spec

\* A request is carried out twice only if something went wrong since the
\* transfer began: the retries alone never do that.
TwiceOnlyAfterFaults ==
    [][runs' # runs /\ ran = call => faults > before]_spiVars

\* Whatever state the two were left in, a transfer succeeds once nothing goes
\* wrong any more: the panda gets through what it is still armed for, with
\* what the host sends and reads meanwhile, and the host gets its NACK.
Recovers == (calm /\ phase # "idle") ~> (phase = "idle" /\ ran = call)
=============================================================================
