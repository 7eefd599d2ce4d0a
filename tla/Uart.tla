-------------------------------- MODULE Uart -------------------------------
(***************************************************************************)
(* The UART between the panda and the computer behind it, UART7: the two   *)
(* rings of board/drivers/uart.h, the interrupt handler of                 *)
(* stm32h7/lluart.h, and the host's requests to write, read and clear.     *)
(*                                                                         *)
(* Handlers run one at a time and ring operations with interrupts off, so  *)
(* each is one step; the UART receives and sends between any two.  Both    *)
(* rings are in overwrite mode, as all of the firmware's are.              *)
(***************************************************************************)
EXTENDS Integers, Sequences

CONSTANTS Byte,
          FIFO_SIZE_INT,  \* elements of each ring: 1024
          NoByte          \* nothing there, or never written

ASSUME UartAssumption == /\ FIFO_SIZE_INT \in Nat /\ FIFO_SIZE_INT > 1
                         /\ NoByte \notin Byte

VARIABLES tx, rx,  \* the rings: [elems, w_ptr, r_ptr]
          TXE,     \* the transmit register is empty
          TXEIE,   \* an interrupt is raised as long as it is
          RDR,     \* a received byte, which raises an interrupt
          sent,    \* the byte written to the transmit register last
          got,     \* the byte the host read last
          did      \* ghost: what the program did last

uartVars == <<tx, rx, TXE, TXEIE, RDR, sent, got, did>>

RingIndex == 0 .. FIFO_SIZE_INT - 1

Ring == [elems : [RingIndex -> Byte \cup {NoByte}],
         w_ptr : RingIndex, r_ptr : RingIndex]

UartTypeOK == /\ tx \in Ring /\ rx \in Ring
              /\ TXE \in BOOLEAN /\ TXEIE \in BOOLEAN
              /\ RDR \in Byte \cup {NoByte}
              /\ sent \in Byte \cup {NoByte}
              /\ got \in Byte \cup {NoByte}
              /\ did \in {"init", "put_char", "get_char", "clear", "read", "send"}

EmptyRing == [elems |-> [i \in RingIndex |-> NoByte], w_ptr |-> 0, r_ptr |-> 0]

\* After uart_init.
UartInit == /\ tx = EmptyRing /\ rx = EmptyRing
            /\ TXE = TRUE /\ TXEIE = FALSE
            /\ RDR = NoByte /\ sent = NoByte /\ got = NoByte
            /\ did = "init"

-----------------------------------------------------------------------------
(* The rings *)

After(i) == (i + 1) % FIFO_SIZE_INT

Pending(q) == q.w_ptr # q.r_ptr

\* A bug: the oldest byte is not dropped, the ring looks empty.
Stored_over(q, c) == [q EXCEPT !.elems[q.w_ptr] = c, !.w_ptr = After(@)]

\* "overwrite mode: drop oldest byte", then the byte is stored: injectc,
\* put_char and uart_rx_ring.
Stored(q, c) ==
    [q EXCEPT !.elems[q.w_ptr] = c, !.w_ptr = After(@),
              !.r_ptr = IF After(q.w_ptr) = @ THEN After(@) ELSE @]

Popped(q) == [q EXCEPT !.r_ptr = After(@)]

\* A bug: the interrupt is turned off when the last byte but one is sent.
SendsOn_early(q) == Pending(Popped(q))

SendsOn(q) == Pending(q)

\* uart_tx_ring, with the ring as it is by then.
uart_tx_ring(q) ==
    LET sends == Pending(q) /\ TXE
        left == IF sends THEN Popped(q) ELSE q
    IN  /\ tx' = left
        /\ sent' = IF sends THEN q.elems[q.r_ptr] ELSE sent
        /\ TXE' = (TXE /\ ~sends)
        /\ TXEIE' = IF Pending(q) THEN SendsOn(left) ELSE TXEIE

-----------------------------------------------------------------------------
(* The host's requests, a byte at a time *)

\* comms_endpoint2_write: put_char does not fail in a ring of two or more.
PutChar == \E c \in Byte : /\ uart_tx_ring(Stored(tx, c))
                           /\ did' = "put_char"
                           /\ UNCHANGED <<rx, RDR, got>>

\* 0xe0
GetChar == /\ Pending(rx)
           /\ got' = rx.elems[rx.r_ptr]
           /\ rx' = Popped(rx)
           /\ did' = "get_char"
           /\ UNCHANGED <<tx, TXE, TXEIE, RDR, sent>>

\* 0xf2
clear_uart_buff == /\ tx' = [tx EXCEPT !.w_ptr = 0, !.r_ptr = 0]
                   /\ rx' = [rx EXCEPT !.w_ptr = 0, !.r_ptr = 0]
                   /\ did' = "clear"
                   /\ UNCHANGED <<TXE, TXEIE, RDR, sent, got>>

-----------------------------------------------------------------------------
(* The UART and its interrupt *)

\* A byte that was not read in time stays, the new one is lost.
Received == \E c \in Byte : /\ RDR' = IF RDR = NoByte THEN c ELSE RDR
                            /\ UNCHANGED <<tx, rx, TXE, TXEIE, sent, got, did>>

ByteSent == /\ ~TXE
            /\ TXE' = TRUE
            /\ UNCHANGED <<tx, rx, TXEIE, RDR, sent, got, did>>

uart_interrupt_handler == /\ RDR # NoByte \/ (TXEIE /\ TXE)
                          /\ rx' = IF RDR # NoByte THEN Stored(rx, RDR) ELSE rx
                          /\ RDR' = NoByte
                          /\ did' = IF RDR # NoByte THEN "read" ELSE "send"
                          /\ uart_tx_ring(tx)
                          /\ UNCHANGED got

UartNext == \/ PutChar \/ GetChar \/ clear_uart_buff
            \/ Received \/ ByteSent \/ uart_interrupt_handler

UartSpec == UartInit /\ [][UartNext]_uartVars

-----------------------------------------------------------------------------
(* What must hold *)

Bytes(q) == (q.w_ptr - q.r_ptr) % FIFO_SIZE_INT

RingContents(q) == [i \in 1 .. Bytes(q) |-> q.elems[(q.r_ptr + i - 1) % FIFO_SIZE_INT]]

Tx == INSTANCE Recent WITH kept <- RingContents(tx), taken <- sent,
                           call <- did, PutBy <- "put_char",
                           Capacity <- FIFO_SIZE_INT - 1
Rx == INSTANCE Recent WITH kept <- RingContents(rx), taken <- got,
                           call <- did, PutBy <- "read",
                           Capacity <- FIFO_SIZE_INT - 1

\* Each ring keeps the latest FIFO_SIZE_INT - 1 bytes and hands them out in order,
\* full, wrapped, overwritten or cleared, with a byte sent in the same step as
\* another is put.
RingsAreRecent == Tx!Spec /\ Rx!Spec

\* Bytes are never left waiting with nothing to send them: while there are any
\* the interrupt is on ("Enable TXE interrupt if there is still data to be sent").
NothingWaits == Pending(tx) => TXEIE
=============================================================================
