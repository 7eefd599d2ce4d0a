------------------------------ MODULE LinkProofs ---------------------------
(***************************************************************************)
(* The ways between host and panda that lose or repeat things.             *)
(*                                                                         *)
(* USB: LossHasCause, for every size of the queue, of the FIFO and of the  *)
(* chunks.  What the endpoint may still take fits in the queue because it  *)
(* is armed when a whole chunk fits and nothing is on its way: the CAN     *)
(* packets in the FIFO and those of the chunk that are still to come are   *)
(* counted against the free elements, from the arming to the end of the    *)
(* transfer.                                                               *)
(*                                                                         *)
(* SPI: the refinement of RemoteCall and TwiceOnlyAfterFaults, for every   *)
(* size of headers, data and responses and any number of calls and faults. *)
(* The panda takes the next cells for a header or for data by its own      *)
(* state alone, so the invariant says what of the two it is that begins to *)
(* arrive: a header or data that is right so far is the one being sent.    *)
(* The rest is about answers: a response that the host may read is that of *)
(* its call, and while nothing goes wrong it is on its way or was read.    *)
(***************************************************************************)
EXTENDS UsbEndpoints, Spi, SumTheorems

-----------------------------------------------------------------------------
(* CAN packets in the FIFO, and in what is left of a chunk *)

Packets(e) == IF e = Done THEN 0 ELSE e
Counts(q) == [i \in DOMAIN q |-> Packets(q[i])]
Held(q) == SumFunction(Counts(q))
Coming(s) == SumFunction(s.rest)

LEMMA CountsAre ==
    ASSUME NEW q \in Seq(Nat \cup {Done})
    PROVE  Counts(q) \in Seq(Nat) /\ Len(Counts(q)) = Len(q)
<1>1. \A i \in 1 .. Len(q) : Packets(q[i]) \in Nat
  BY DEF Packets, Done
<1> HIDE DEF Packets
<1>2. Counts(q) = [i \in 1 .. Len(q) |-> Packets(q[i])] /\ Len(q) \in Nat
  BY DEF Counts
<1> QED BY <1>1, <1>2

LEMMA HeldIsNat ==
    ASSUME NEW q \in Seq(Nat \cup {Done}) PROVE Held(q) \in Nat
BY CountsAre, SumOfSequence, Zenon DEF Held

LEMMA HeldNone == Held(<<>>) = 0
<1>1. Counts(<<>>) = <<>>
  BY DEF Counts
<1> QED BY <1>1, SumOfNone, Zenon DEF Held

LEMMA HeldAppend ==
    ASSUME NEW q \in Seq(Nat \cup {Done}), NEW e \in Nat \cup {Done}
    PROVE  /\ Append(q, e) \in Seq(Nat \cup {Done})
           /\ Held(Append(q, e)) = Held(q) + Packets(e)
<1>1. Packets(e) \in Nat
  BY DEF Packets, Done
<1>2. Counts(q) \in Seq(Nat) /\ Len(Counts(q)) = Len(q)
  BY CountsAre
<1>3. Counts(Append(q, e)) = Append(Counts(q), Packets(e))
  <2>1. Append(q, e) \in Seq(Nat \cup {Done}) /\ Len(Append(q, e)) = Len(q) + 1
    OBVIOUS
  <2>2. Counts(Append(q, e)) \in Seq(Nat) /\ Len(Counts(Append(q, e))) = Len(q) + 1
    BY <2>1, CountsAre
  <2>3. /\ Append(Counts(q), Packets(e)) \in Seq(Nat)
        /\ Len(Append(Counts(q), Packets(e))) = Len(q) + 1
    BY <1>1, <1>2
  <2>4. ASSUME NEW i \in 1 .. Len(q) + 1
        PROVE  Counts(Append(q, e))[i] = Append(Counts(q), Packets(e))[i]
    <3>1. Counts(Append(q, e))[i] = Packets(Append(q, e)[i])
      BY <2>1 DEF Counts
    <3>2. CASE i = Len(q) + 1
      BY <1>1, <1>2, <3>1, <3>2
    <3>3. CASE i \in 1 .. Len(q)
      <4>1. Append(q, e)[i] = q[i] /\ Counts(q)[i] = Packets(q[i])
        BY <3>3 DEF Counts
      <4>2. Append(Counts(q), Packets(e))[i] = Counts(q)[i]
        BY <1>1, <1>2, <3>3
      <4> QED BY <3>1, <4>1, <4>2
    <3>4. i = Len(q) + 1 \/ i \in 1 .. Len(q)
      <4>1. Len(q) \in Nat
        OBVIOUS
      <4> QED BY <4>1
    <3> QED BY <3>2, <3>3, <3>4
  <2> QED BY <2>2, <2>3, <2>4, SeqEqual
<1>4. SumFunction(Append(Counts(q), Packets(e))) = SumFunction(Counts(q)) + Packets(e)
  BY <1>1, <1>2, SumOfAppend
<1> QED BY <1>3, <1>4 DEF Held

LEMMA HeldTail ==
    ASSUME NEW q \in Seq(Nat \cup {Done}), q # <<>>
    PROVE  /\ Tail(q) \in Seq(Nat \cup {Done}) /\ Head(q) \in Nat \cup {Done}
           /\ Packets(Head(q)) \in Nat
           /\ Held(q) = Packets(Head(q)) + Held(Tail(q))
<1>1. Tail(q) \in Seq(Nat \cup {Done}) /\ Head(q) \in Nat \cup {Done}
  OBVIOUS
<1>2. Packets(Head(q)) \in Nat
  BY <1>1 DEF Packets, Done
<1>3. Counts(q) \in Seq(Nat) /\ Len(Counts(q)) = Len(q) /\ Counts(q) # <<>>
  <2>1. Len(q) # 0
    OBVIOUS
  <2> QED BY <2>1, CountsAre, EmptySeq
<1>4. Head(Counts(q)) = Packets(Head(q))
  <2>1. 1 \in DOMAIN q /\ Head(q) = q[1]
    OBVIOUS
  <2>2. Counts(q)[1] = Packets(q[1])
    BY <2>1 DEF Counts
  <2> QED BY <1>3, <2>1, <2>2
<1>5. Tail(Counts(q)) = Counts(Tail(q))
  <2>1. /\ Tail(Counts(q)) \in Seq(Nat) /\ Len(Tail(Counts(q))) = Len(q) - 1
        /\ Len(Tail(q)) = Len(q) - 1
    BY <1>3
  <2>2. Counts(Tail(q)) \in Seq(Nat) /\ Len(Counts(Tail(q))) = Len(q) - 1
    BY <1>1, <2>1, CountsAre
  <2>3. ASSUME NEW i \in 1 .. Len(q) - 1
        PROVE  Tail(Counts(q))[i] = Counts(Tail(q))[i]
    <3>1. i + 1 \in DOMAIN q /\ i \in DOMAIN Tail(q) /\ Tail(q)[i] = q[i + 1]
      BY <1>1, <2>1
    <3>2. Counts(q)[i + 1] = Packets(q[i + 1])
      BY <3>1 DEF Counts
    <3>3. Counts(Tail(q))[i] = Packets(q[i + 1])
      BY <3>1 DEF Counts
    <3>4. Tail(Counts(q))[i] = Counts(q)[i + 1]
      BY <1>3
    <3> QED BY <3>2, <3>3, <3>4
  <2> QED BY <2>1, <2>2, <2>3, SeqEqual
<1>6. SumFunction(Counts(q)) = Head(Counts(q)) + SumFunction(Tail(Counts(q)))
  BY <1>3, SumOfTail
<1> QED BY <1>1, <1>2, <1>4, <1>5, <1>6 DEF Held

-----------------------------------------------------------------------------
(* USB: the invariant *)

\* What is left of a chunk fits whenever the endpoint may be armed.
SmallChunk == Coming(sending) <= MinFree

\* With nothing to blame, what is in the FIFO fits, also with what the host may
\* still send, and a host that has not begun will find room for a whole chunk.
Fits(q, room) == Held(q) <= room
Expected(q, room) == left > 0 => Held(q) + Coming(sending) <= room
Clear(q, room) == left > 0 /\ sending = Nothing => q = <<>> /\ room >= MinFree
Room == causes = {} => /\ Fits(fifo, free)
                       /\ Expected(fifo, free)
                       /\ Clear(fifo, free)

UsbInv == UsbTypeOK /\ SmallChunk /\ Room

LEMMA NothingComes == Nothing.rest = <<>> /\ Nothing.short = TRUE /\ Coming(Nothing) = 0
BY SumOfNone, Zenon DEF Nothing, Coming

LEMMA ChunksAreSmall ==
    ASSUME NEW s \in [rest : Seq(Nat), short : BOOLEAN],
           s.rest \in Chunk \/ s.rest = <<>>
    PROVE  Coming(s) \in Nat /\ Coming(s) <= MinFree
<1>1. Coming(s) \in Nat
  BY SumOfSequence, Zenon DEF Coming
<1>2. CASE s.rest \in Chunk
  BY <1>1, <1>2, UsbAssumption DEF Coming
<1>3. CASE s.rest = <<>>
  <2>1. Coming(s) = 0
    BY <1>3, SumOfNone DEF Coming
  <2> QED BY <1>1, <2>1, UsbAssumption
<1> QED BY <1>2, <1>3

LEMMA UsbStarts == UsbInit => UsbInv
<1> SUFFICES ASSUME UsbInit PROVE UsbInv
  OBVIOUS
<1>1. UsbTypeOK
  <2>1. <<>> \in Seq(Nat) /\ <<>> \in Seq(Nat \cup {Done})
    BY EmptySeq, Zenon
  <2>2. /\ 0 \in 0 .. Armed /\ Slots \in 0 .. Slots
        /\ 0 \in 0 .. MaxForwards /\ 0 \in 0 .. MaxConnects
    BY UsbAssumption
  <2>3. Nothing \in [rest : Seq(Nat), short : BOOLEAN]
    BY <2>1 DEF Nothing
  <2> QED BY <2>1, <2>2, <2>3 DEF UsbInit, UsbTypeOK
<1>2. SmallChunk
  BY NothingComes, UsbAssumption DEF UsbInit, SmallChunk
<1>3. Held(fifo) = 0 /\ left = 0 /\ free \in Nat
  BY HeldNone, UsbAssumption DEF UsbInit
<1>4. Room
  BY <1>3 DEF Room, Fits, Expected, Clear
<1> QED BY <1>1, <1>2, <1>4 DEF UsbInv

-----------------------------------------------------------------------------
(* USB: the host and the core *)

LEMMA BulkWriteKeeps == UsbInv /\ BulkWrite => UsbInv'
<1> SUFFICES ASSUME UsbInv, BulkWrite PROVE UsbInv'
  OBVIOUS
<1>1. PICK packets \in Chunk, short \in BOOLEAN :
          /\ sending' = [rest |-> packets, short |-> short]
          /\ causes' = IF sending.short THEN causes ELSE causes \cup {"joined"}
  BY DEF BulkWrite
<1>2. /\ sending.rest = <<>> /\ left' = left /\ fifo' = fifo /\ free' = free
      /\ xfrc' = xfrc /\ outep3_processing' = outep3_processing
      /\ forwards' = forwards /\ connects' = connects
  BY DEF BulkWrite
<1>3. sending' \in [rest : Seq(Nat), short : BOOLEAN]
  BY <1>1, UsbAssumption
<1>4. UsbTypeOK'
  BY <1>1, <1>2, <1>3 DEF UsbInv, UsbTypeOK
<1>5. Coming(sending') \in Nat /\ Coming(sending') <= MinFree
  BY <1>1, <1>3, ChunksAreSmall
<1>6. Room'
  <2> SUFFICES ASSUME causes' = {}
               PROVE  /\ Held(fifo) <= free
                      /\ left > 0 => Held(fifo) + Coming(sending') <= free
                      /\ ~ (sending' = Nothing)
    BY <1>2 DEF Room, Fits, Expected, Clear
  <2>1. sending.short /\ causes = {}
    BY <1>1
  <2>2. sending = Nothing
    BY <1>2, <2>1 DEF UsbInv, UsbTypeOK, Nothing
  <2>3. Held(fifo) <= free
    BY <2>1 DEF UsbInv, Room, Fits
  <2>4. left > 0 => fifo = <<>> /\ free >= MinFree
    BY <2>1, <2>2 DEF UsbInv, Room, Clear
  <2>5. left > 0 => Held(fifo) + Coming(sending') <= free
    <3> SUFFICES ASSUME left > 0 PROVE 0 + Coming(sending') <= free
      BY <2>4, HeldNone
    <3> QED BY <1>5, <2>4, UsbAssumption DEF UsbInv, UsbTypeOK
  <2>6. packets # <<>>
    BY UsbAssumption
  <2> QED BY <1>1, <2>3, <2>5, <2>6 DEF Nothing
<1> QED BY <1>4, <1>5, <1>6 DEF UsbInv, SmallChunk

LEMMA PacketArrivesKeeps == UsbInv /\ PacketArrives => UsbInv'
<1> SUFFICES ASSUME UsbInv, PacketArrives PROVE UsbInv'
  OBVIOUS
<1> DEFINE e == Head(sending.rest)
           more == Tail(sending.rest)
           last == sending.short /\ Len(sending.rest) = 1
<1>1. /\ sending \in [rest : Seq(Nat), short : BOOLEAN] /\ sending.rest # <<>>
      /\ left \in 0 .. Armed /\ left > 0 /\ Armed \in Nat
      /\ fifo \in Seq(Nat \cup {Done}) /\ free \in 0 .. Slots
  BY UsbAssumption DEF UsbInv, UsbTypeOK, PacketArrives
<1>2. /\ left' = (IF last THEN 0 ELSE left - 1)
      /\ fifo' = (IF left' = 0 THEN fifo \o <<e, Done>> ELSE Append(fifo, e))
      /\ sending' = [sending EXCEPT !.rest = more]
      /\ xfrc' = xfrc /\ outep3_processing' = outep3_processing /\ free' = free
      /\ forwards' = forwards /\ connects' = connects /\ causes' = causes
  BY DEF PacketArrives
<1>3. e \in Nat /\ more \in Seq(Nat) /\ Coming(sending) = e + SumFunction(more)
      /\ SumFunction(more) \in Nat
  <2> DEFINE q == sending.rest
  <2>1. q \in Seq(Nat) /\ q # <<>>
    BY <1>1
  <2> HIDE DEF q
  <2>2. Head(q) \in Nat /\ Tail(q) \in Seq(Nat)
    BY <2>1
  <2>3. SumFunction(q) = Head(q) + SumFunction(Tail(q))
    BY <2>1, SumOfTail, Zenon
  <2>4. SumFunction(Tail(q)) \in Nat
    BY <2>2, SumOfSequence, Zenon
  <2> QED BY <2>2, <2>3, <2>4 DEF q, Coming
<1>4. /\ sending' \in [rest : Seq(Nat), short : BOOLEAN]
      /\ sending'.rest = more /\ sending'.short = sending.short
  BY <1>1, <1>2, <1>3
<1>5. Coming(sending') = SumFunction(more)
  BY <1>4 DEF Coming
<1>6. /\ fifo' \in Seq(Nat \cup {Done}) /\ fifo' # <<>>
      /\ Held(fifo') = Held(fifo) + e /\ Held(fifo) \in Nat
  <2>1. Held(fifo) \in Nat
    BY <1>1, HeldIsNat
  <2>2. Packets(e) = e /\ Packets(Done) = 0
    BY <1>3 DEF Packets, Done
  <2>3. /\ Append(fifo, e) \in Seq(Nat \cup {Done})
        /\ Held(Append(fifo, e)) = Held(fifo) + e
    BY <1>1, <1>3, <2>2, HeldAppend
  <2>4. /\ Append(Append(fifo, e), Done) \in Seq(Nat \cup {Done})
        /\ Held(Append(Append(fifo, e), Done)) = (Held(fifo) + e) + 0
    BY <2>2, <2>3, HeldAppend
  <2>5. fifo \o <<e, Done>> = Append(Append(fifo, e), Done)
    BY <1>1, <1>3
  <2>6. Append(fifo, e) # <<>> /\ Append(Append(fifo, e), Done) # <<>>
    <3>1. \A q \in Seq(Nat \cup {Done}), d \in Nat \cup {Done} : Append(q, d) # <<>>
      BY AppendProperties
    <3> QED BY <1>1, <1>3, <2>3, <3>1
  <2>7. (Held(fifo) + e) + 0 = Held(fifo) + e
    BY <1>3, <2>1
  <2> QED BY <1>2, <2>1, <2>3, <2>4, <2>5, <2>6, <2>7
<1> HIDE DEF e, more, last
<1>7. left' \in 0 .. Armed
  BY <1>1, <1>2
<1>8. UsbTypeOK'
  BY <1>2, <1>4, <1>6, <1>7 DEF UsbInv, UsbTypeOK
<1>9. SmallChunk'
  BY <1>3, <1>5, UsbAssumption DEF UsbInv, SmallChunk
<1>10. Room'
  <2> SUFFICES ASSUME causes = {}
               PROVE  /\ Held(fifo') <= free
                      /\ left' > 0 => Held(fifo') + Coming(sending') <= free
                      /\ left' > 0 => ~ (sending' = Nothing)
    BY <1>2 DEF Room, Fits, Expected, Clear
  <2>1. Held(fifo) + Coming(sending) <= free
    BY <1>1 DEF UsbInv, Room, Expected
  <2>2. (Held(fifo) + e) + SumFunction(more) <= free
    BY <1>1, <1>3, <1>6, <2>1
  <2>3. Held(fifo) + e <= free
    BY <1>1, <1>3, <1>6, <2>2
  <2>4. ASSUME sending' = Nothing PROVE left' = 0
    <3>1. more = <<>> /\ sending.short
      BY <1>4, <2>4 DEF Nothing
    <3>2. Len(sending.rest) = 1
      <4>1. Len(more) = Len(sending.rest) - 1 /\ Len(sending.rest) \in Nat
        BY <1>1 DEF more
      <4>2. Len(more) = 0
        BY <3>1
      <4> QED BY <4>1, <4>2
    <3> QED BY <1>2, <3>1, <3>2 DEF last
  <2> QED BY <1>5, <1>6, <2>2, <2>3, <2>4
<1> QED BY <1>8, <1>9, <1>10 DEF UsbInv

LEMMA WriteTimeoutKeeps == UsbInv /\ WriteTimeout => UsbInv'
<1> SUFFICES ASSUME UsbInv, WriteTimeout PROVE UsbInv'
  OBVIOUS
<1>1. /\ sending' = [sending EXCEPT !.rest = <<>>]
      /\ causes' = causes \cup {"joined"}
      /\ left' = left /\ fifo' = fifo /\ free' = free
      /\ xfrc' = xfrc /\ outep3_processing' = outep3_processing
      /\ forwards' = forwards /\ connects' = connects
  BY DEF WriteTimeout
<1>2. /\ sending' \in [rest : Seq(Nat), short : BOOLEAN]
      /\ sending'.rest = <<>>
  BY <1>1, EmptySeq DEF UsbInv, UsbTypeOK
<1>3. UsbTypeOK'
  BY <1>1, <1>2 DEF UsbInv, UsbTypeOK
<1>4. SmallChunk'
  BY <1>2, ChunksAreSmall DEF SmallChunk
<1>5. Room'
  BY <1>1 DEF Room
<1> QED BY <1>3, <1>4, <1>5 DEF UsbInv

-----------------------------------------------------------------------------
(* USB: the panda *)

\* Arming the endpoint is what makes the queue have room for a chunk.
LEMMA ResumeKeeps ==
    ASSUME UsbTypeOK, SmallChunk, sending' = sending,
           NEW p \in BOOLEAN, NEW q \in Seq(Nat \cup {Done}), NEW room \in 0 .. Slots,
           causes = {} => Fits(q, room) /\ Expected(q, room) /\ Clear(q, room),
           fifo' = q, free' = room,
           Resume(room, p, q) \/ UNCHANGED <<left, causes>>
    PROVE  /\ left' \in 0 .. Armed
           /\ causes' \subseteq {"connected", "forwarded", "joined", "early"}
           /\ SmallChunk' /\ Room'
<1>1. SmallChunk'
  BY DEF SmallChunk
<1>2. CASE UNCHANGED <<left, causes>>
  <2>1. /\ left' \in 0 .. Armed
        /\ causes' \subseteq {"connected", "forwarded", "joined", "early"}
    BY <1>2 DEF UsbTypeOK
  <2>2. Room'
    BY <1>2 DEF Room, Fits, Expected, Clear
  <2> QED BY <1>1, <2>1, <2>2
<1>3. CASE room >= MinFree /\ left' = Armed /\ causes' = Causes(p, q) /\ p = FALSE
  <2>1. /\ left' \in 0 .. Armed
        /\ causes' \subseteq {"connected", "forwarded", "joined", "early"}
    BY <1>3, UsbAssumption DEF Causes
  <2>2. Room'
    <3> SUFFICES ASSUME causes' = {}
                 PROVE  /\ Held(q) <= room
                        /\ Held(q) + Coming(sending) <= room
                        /\ q = <<>> /\ room >= MinFree
      BY DEF Room, Fits, Expected, Clear
    <3>1. q = <<>>
      BY <1>3 DEF Causes
    <3>2. Held(q) = 0
      BY <3>1, HeldNone
    <3>3. Coming(sending) \in Nat /\ Coming(sending) <= MinFree
      BY SumOfSequence, Zenon DEF UsbTypeOK, Coming, SmallChunk
    <3> QED BY <1>3, <3>1, <3>2, <3>3, UsbAssumption
  <2> QED BY <1>1, <2>1, <2>2
<1> QED BY <1>2, <1>3 DEF Resume

LEMMA UsbHandlerKeeps == UsbInv /\ usb_irqhandler => UsbInv'
<1> SUFFICES ASSUME UsbInv, usb_irqhandler PROVE UsbInv'
  OBVIOUS
<1> DEFINE e == Head(fifo)
           xs == IF fifo = <<>> THEN fifo ELSE Tail(fifo)
           update == fifo # <<>> /\ e # Done
           raised == xfrc \/ (fifo # <<>> /\ e = Done)
           room == IF ~update THEN free ELSE IF e > free THEN 0 ELSE free - e
<1>1. PICK oepint \in {xfrc, TRUE} :
          /\ xfrc' = (raised /\ ~oepint)
          /\ outep3_processing' = /\ outep3_processing \/ update
                                  /\ ~(raised /\ oepint)
          /\ IF raised /\ oepint THEN TransferDone(room, FALSE, xs)
             ELSE IF update THEN Resume(room, TRUE, xs)
             ELSE UNCHANGED <<left, causes>>
  BY DEF usb_irqhandler
<1>2. /\ fifo' = xs /\ free' = room /\ sending' = sending
      /\ forwards' = forwards /\ connects' = connects
  BY DEF usb_irqhandler
<1>3. /\ sending \in [rest : Seq(Nat), short : BOOLEAN]
      /\ left \in 0 .. Armed /\ Armed \in Nat
      /\ fifo \in Seq(Nat \cup {Done}) /\ free \in 0 .. Slots /\ Slots \in Nat
      /\ xfrc \in BOOLEAN /\ outep3_processing \in BOOLEAN
  BY UsbAssumption DEF UsbInv, UsbTypeOK
<1>4. /\ xs \in Seq(Nat \cup {Done})
      /\ Held(fifo) \in Nat /\ Held(xs) \in Nat
      /\ ~update => Held(xs) = Held(fifo)
      /\ update => e \in Nat /\ Held(fifo) = e + Held(xs)
  <2>1. CASE fifo = <<>>
    BY <1>3, <2>1, HeldIsNat
  <2>2. CASE fifo # <<>>
    <3>1. xs = Tail(fifo) /\ Held(fifo) \in Nat
      BY <1>3, <2>2, HeldIsNat
    <3>2. /\ Tail(fifo) \in Seq(Nat \cup {Done}) /\ e \in Nat \cup {Done}
          /\ Packets(e) \in Nat /\ Held(fifo) = Packets(e) + Held(Tail(fifo))
      BY <1>3, <2>2, HeldTail
    <3>3. Held(Tail(fifo)) \in Nat
      BY <3>2, HeldIsNat
    <3>4. CASE e = Done
      <4>1. Packets(e) = 0 /\ ~update
        BY <3>4 DEF Packets
      <4> HIDE DEF e, xs, update
      <4> QED BY <3>1, <3>2, <3>3, <4>1
    <3>5. CASE e # Done
      <4>1. Packets(e) = e /\ update /\ e \in Nat
        BY <2>2, <3>2, <3>5 DEF Packets
      <4> HIDE DEF e, xs, update
      <4> QED BY <3>1, <3>2, <3>3, <4>1
    <3> QED BY <3>4, <3>5
  <2> QED BY <2>1, <2>2
<1>5. update \in BOOLEAN /\ raised \in BOOLEAN
  BY <1>3
<1>6. /\ fifo = <<>> => xs = <<>> /\ ~update
      /\ room = IF ~update THEN free ELSE IF e > free THEN 0 ELSE free - e
  OBVIOUS
<1> HIDE DEF e, xs, update, raised, room
<1>7. room \in 0 .. Slots
  BY <1>3, <1>4, <1>6
<1>8. causes = {} => Fits(xs, room) /\ Expected(xs, room) /\ Clear(xs, room)
  <2> SUFFICES ASSUME causes = {}
               PROVE  Fits(xs, room) /\ Expected(xs, room) /\ Clear(xs, room)
    OBVIOUS
  <2>1. Fits(fifo, free) /\ Expected(fifo, free) /\ Clear(fifo, free)
    BY DEF UsbInv, Room
  <2>2. CASE ~update
    <3>1. room = free /\ Held(xs) = Held(fifo)
      BY <1>4, <1>6, <2>2
    <3>2. Clear(xs, room)
      BY <1>6, <2>1, <3>1 DEF Clear
    <3> QED BY <2>1, <3>1, <3>2 DEF Fits, Expected
  <2>3. CASE update
    <3>1. e \in Nat /\ Held(fifo) = e + Held(xs) /\ fifo # <<>>
      BY <1>4, <1>6, <2>3
    <3>2. Held(fifo) <= free
      BY <2>1 DEF Fits
    <3>3. e <= free
      BY <1>3, <1>4, <3>1, <3>2
    <3>4. room = free - e
      BY <1>3, <1>6, <2>3, <3>1, <3>3
    <3>5. Fits(xs, room)
      BY <1>3, <1>4, <3>1, <3>2, <3>4 DEF Fits
    <3>6. Expected(xs, room)
      <4> SUFFICES ASSUME left > 0 PROVE Held(xs) + Coming(sending) <= room
        BY DEF Expected
      <4>1. Held(fifo) + Coming(sending) <= free
        BY <2>1 DEF Expected
      <4>2. Coming(sending) \in Nat
        BY <1>3, SumOfSequence, Zenon DEF Coming
      <4> QED BY <1>3, <1>4, <3>1, <3>4, <4>1, <4>2
    <3>7. Clear(xs, room)
      BY <2>1, <3>1 DEF Clear
    <3> QED BY <3>5, <3>6, <3>7
  <2> QED BY <2>2, <2>3
<1>9. \E p \in BOOLEAN : Resume(room, p, xs) \/ UNCHANGED <<left, causes>>
  BY <1>1 DEF TransferDone
<1>10. /\ left' \in 0 .. Armed
       /\ causes' \subseteq {"connected", "forwarded", "joined", "early"}
       /\ SmallChunk' /\ Room'
  BY <1>2, <1>4, <1>7, <1>8, <1>9, ResumeKeeps DEF UsbInv
<1>11. xfrc' \in BOOLEAN /\ outep3_processing' \in BOOLEAN
  BY <1>1, <1>3, <1>5
<1>12. UsbTypeOK'
  BY <1>2, <1>4, <1>7, <1>10, <1>11 DEF UsbInv, UsbTypeOK
<1> QED BY <1>10, <1>12 DEF UsbInv

\* More room does no harm.
LEMMA MoreRoom ==
    ASSUME UsbInv, NEW room \in 0 .. Slots, free <= room, causes = {}
    PROVE  Fits(fifo, room) /\ Expected(fifo, room) /\ Clear(fifo, room)
<1>1. Fits(fifo, free) /\ Expected(fifo, free) /\ Clear(fifo, free)
  BY DEF UsbInv, Room
<1>2. free \in Nat /\ room \in Nat /\ Held(fifo) \in Nat /\ Coming(sending) \in Nat
      /\ MinFree \in Nat
  <2>1. Held(fifo) \in Nat
    BY HeldIsNat DEF UsbInv, UsbTypeOK
  <2>2. Coming(sending) \in Nat
    BY SumOfSequence, Zenon DEF UsbInv, UsbTypeOK, Coming
  <2>3. free \in Nat /\ room \in Nat /\ MinFree \in Nat
    BY UsbAssumption DEF UsbInv, UsbTypeOK
  <2> QED BY <2>1, <2>2, <2>3
<1>3. Fits(fifo, room)
  BY <1>1, <1>2 DEF Fits
<1>4. Expected(fifo, room)
  BY <1>1, <1>2 DEF Expected
<1>5. Clear(fifo, room)
  BY <1>1, <1>2 DEF Clear
<1> QED BY <1>3, <1>4, <1>5

LEMMA CanPopKeeps == UsbInv /\ CanPop => UsbInv'
<1> SUFFICES ASSUME UsbInv, CanPop PROVE UsbInv'
  OBVIOUS
<1> DEFINE room == free + 1
<1>1. /\ free' = room /\ fifo' = fifo /\ sending' = sending
      /\ xfrc' = xfrc /\ outep3_processing' = outep3_processing
      /\ forwards' = forwards /\ connects' = connects
      /\ Resume(room, outep3_processing, fifo)
  BY DEF CanPop
<1>2. UsbTypeOK /\ outep3_processing \in BOOLEAN /\ fifo \in Seq(Nat \cup {Done})
  BY DEF UsbInv, UsbTypeOK
<1>3. room \in 0 .. Slots /\ free <= room
  BY UsbAssumption DEF UsbInv, UsbTypeOK, CanPop
<1> HIDE DEF room
<1>4. /\ left' \in 0 .. Armed
      /\ causes' \subseteq {"connected", "forwarded", "joined", "early"}
      /\ SmallChunk' /\ Room'
  BY <1>1, <1>2, <1>3, MoreRoom, ResumeKeeps DEF UsbInv
<1>5. UsbTypeOK'
  BY <1>1, <1>3, <1>4 DEF UsbInv, UsbTypeOK
<1> QED BY <1>4, <1>5 DEF UsbInv

LEMMA CanClearKeeps == UsbInv /\ CanClear => UsbInv'
<1> SUFFICES ASSUME UsbInv, CanClear PROVE UsbInv'
  OBVIOUS
<1>1. /\ free' = Slots /\ fifo' = fifo /\ sending' = sending
      /\ xfrc' = xfrc /\ outep3_processing' = outep3_processing
      /\ forwards' = forwards /\ connects' = connects
      /\ Resume(Slots, outep3_processing, fifo)
  BY DEF CanClear
<1>2. UsbTypeOK /\ outep3_processing \in BOOLEAN /\ fifo \in Seq(Nat \cup {Done})
  BY DEF UsbInv, UsbTypeOK
<1>3. Slots \in 0 .. Slots /\ free <= Slots
  BY UsbAssumption DEF UsbInv, UsbTypeOK
<1>4. /\ left' \in 0 .. Armed
      /\ causes' \subseteq {"connected", "forwarded", "joined", "early"}
      /\ SmallChunk' /\ Room'
  BY <1>1, <1>2, <1>3, MoreRoom, ResumeKeeps DEF UsbInv
<1>5. UsbTypeOK'
  BY <1>1, <1>3, <1>4 DEF UsbInv, UsbTypeOK
<1> QED BY <1>4, <1>5 DEF UsbInv

LEMMA ForwardKeeps == UsbInv /\ Forward => UsbInv'
<1> SUFFICES ASSUME UsbInv, Forward PROVE UsbInv'
  OBVIOUS
<1>1. /\ forwards + 1 \in 0 .. MaxForwards /\ free - 1 \in 0 .. Slots
      /\ forwards' = forwards + 1 /\ free' = free - 1
      /\ causes' = causes \cup {"forwarded"}
      /\ sending' = sending /\ left' = left /\ fifo' = fifo /\ xfrc' = xfrc
      /\ outep3_processing' = outep3_processing /\ connects' = connects
  BY UsbAssumption DEF UsbInv, UsbTypeOK, Forward
<1>2. UsbTypeOK'
  BY <1>1 DEF UsbInv, UsbTypeOK
<1>3. SmallChunk' /\ Room'
  BY <1>1 DEF UsbInv, SmallChunk, Room
<1> QED BY <1>2, <1>3 DEF UsbInv

LEMMA SetConfigurationKeeps == UsbInv /\ SetConfiguration => UsbInv'
<1> SUFFICES ASSUME UsbInv, SetConfiguration PROVE UsbInv'
  OBVIOUS
<1>1. /\ connects + 1 \in 0 .. MaxConnects /\ Armed \in 0 .. Armed
      /\ connects' = connects + 1 /\ left' = Armed /\ sending' = Nothing
      /\ fifo' = <<>> /\ xfrc' = FALSE /\ causes' = {"connected"}
      /\ outep3_processing' = outep3_processing /\ free' = free
      /\ forwards' = forwards
  BY UsbAssumption DEF UsbInv, UsbTypeOK, SetConfiguration
<1>2. Nothing \in [rest : Seq(Nat), short : BOOLEAN] /\ <<>> \in Seq(Nat \cup {Done})
  <2>1. <<>> \in Seq(Nat) /\ <<>> \in Seq(Nat \cup {Done})
    BY EmptySeq, Zenon
  <2> QED BY <2>1 DEF Nothing
<1>3. UsbTypeOK'
  BY <1>1, <1>2 DEF UsbInv, UsbTypeOK
<1>4. SmallChunk' /\ Room'
  BY <1>1, NothingComes, UsbAssumption DEF SmallChunk, Room
<1> QED BY <1>3, <1>4 DEF UsbInv

-----------------------------------------------------------------------------
(* USB: theorems *)

\* UsbInv holds always: whichever interrupt arms endpoint 3
\* (can_tx_comms_resume_usb), there is room for what may still come.
THEOREM UsbInvariance == UsbSpec => []UsbInv
<1>1. UsbInv /\ [UsbNext]_usbVars => UsbInv'
  <2> SUFFICES ASSUME UsbInv, [UsbNext]_usbVars PROVE UsbInv'
    OBVIOUS
  <2>1. CASE UNCHANGED usbVars
    BY <2>1 DEF usbVars, UsbInv, UsbTypeOK, SmallChunk, Room, Fits, Expected, Clear
  <2> QED BY <2>1, BulkWriteKeeps, PacketArrivesKeeps, WriteTimeoutKeeps,
             UsbHandlerKeeps, CanPopKeeps, CanClearKeeps, ForwardKeeps,
             SetConfigurationKeeps DEF UsbNext
<1> QED BY UsbStarts, <1>1, PTL DEF UsbSpec

\* The USB packets of any chunk, the FIFO and the queue stay what usb.h says.
THEOREM UsbTypes == UsbSpec => []UsbTypeOK
<1>1. UsbInv => UsbTypeOK
  BY DEF UsbInv
<1> QED BY <1>1, UsbInvariance, PTL

\* usb_irqhandler passes CAN packets to a full queue only for a cause it cannot
\* know of: for queues, FIFOs and chunks of any size.
THEOREM LossesHaveCauses == UsbSpec => []LossHasCause
<1>1. UsbInv => LossHasCause
  <2> SUFFICES ASSUME UsbInv, fifo # <<>>, causes = {} PROVE ~ (Head(fifo) > free)
    BY DEF LossHasCause
  <2>1. fifo \in Seq(Nat \cup {Done}) /\ free \in Nat /\ Held(fifo) <= free
    BY UsbAssumption DEF UsbInv, UsbTypeOK, Room, Fits
  <2>2. /\ Tail(fifo) \in Seq(Nat \cup {Done}) /\ Head(fifo) \in Nat \cup {Done}
        /\ Packets(Head(fifo)) \in Nat
        /\ Held(fifo) = Packets(Head(fifo)) + Held(Tail(fifo))
    BY <2>1, HeldTail
  <2>3. Held(Tail(fifo)) \in Nat
    BY <2>2, HeldIsNat
  <2>4. Packets(Head(fifo)) <= free
    BY <2>1, <2>2, <2>3
  <2> QED BY <2>1, <2>2, <2>4 DEF Packets, Done
<1> QED BY <1>1, UsbInvariance, PTL

-----------------------------------------------------------------------------
(* SPI: the invariant *)

\* Data of six bytes and its checksum are as long as a header (spi.h:119).
NoDataIsLikeAHeader == \A k \in Kind : DataSize[k] # HeaderSize

Parts == {"idle", "junk", "poll", "hack", "nack",
          "header", "data", "sum", "length", "response"}
Cells == [of : Parts, call : Nat, i : Nat]
Answers(cell) == cell.of \in {"response", "length"}
Ours == [call |-> call, kind |-> kind]

\* q is the beginning of a packet, or all of it.
Begins(q, packet) == /\ Len(q) > 0 /\ Len(q) <= Len(packet)
                     /\ \A i \in 1 .. Len(q) : q[i] = packet[i]

HostShape ==
    /\ phase \in {"idle", "header", "hack", "data", "dack", "rest"}
    /\ clocked \in Nat /\ got \in Seq(Cells) /\ expected \in Nat
    /\ polls \in 0 .. Patience
    /\ answer \in Nat /\ answer <= runs
PandaShape ==
    /\ call \in Nat /\ kind \in Kind
    /\ spi_state \in {"HEADER", "HEADER_ACK", "HEADER_NACK", "DATA_RX", "DATA_TX"}
    /\ header \in [call : Nat, kind : Kind] /\ header.call <= call
    /\ rx \in Seq(Cells) /\ rx_left \in Nat /\ tx \in Seq(Cells)
    /\ done \in {"none", "rx", "tx"}
    /\ late \in BOOLEAN /\ calm \in BOOLEAN
    /\ faults \in 0 .. MaxFaults /\ before \in Nat /\ before <= faults
    /\ runs \in Nat /\ ran \in Nat /\ ran <= call
Shape == HostShape /\ PandaShape

\* The DMA is armed to receive a header or data, or has received it; or it is
\* armed to send, or has sent what it had to.
Wanted == IF spi_state = "HEADER" THEN HeaderSize ELSE DataSize[header.kind]
Receiving == /\ spi_state \in {"HEADER", "DATA_RX"}
             /\ tx = <<>> /\ Len(rx) + rx_left = Wanted
             /\ done = IF rx_left > 0 THEN "none" ELSE "rx"
Sending == /\ spi_state \in {"HEADER_ACK", "HEADER_NACK", "DATA_TX"}
           /\ rx_left = 0
           /\ done = IF tx # <<>> THEN "none" ELSE "tx"
           /\ spi_state = "HEADER_ACK" => tx \in {<<>>, <<Lone("hack")>>}
           /\ spi_state = "HEADER_NACK" => tx \in {<<>>, <<Lone("nack")>>}
           /\ spi_state = "DATA_TX" =>
                 \A i \in 1 .. Len(tx) : /\ Answers(tx[i])
                                         /\ tx[i].call = runs /\ tx[i].i > 0
Dma == (Receiving \/ Sending) /\ (late => done # "none")

InTurn == /\ phase = "header" => clocked < HeaderSize
          /\ phase = "data" => clocked < DataSize[kind]
          /\ phase # "idle" => call > 0
          /\ Len(got) < expected
          /\ phase # "rest" => expected = PollSize

\* The host that waits for a HACK will read that of its own header.
AckIsOurs == spi_state = "HEADER_ACK" /\ tx # <<>> =>
                header = Ours \/ phase = "idle" \/ (phase = "header" /\ clocked = 0)

\* While the host sends data, the panda has its header and receives data, or is about to.
DataIsAwaited == phase = "data" =>
    /\ header = Ours
    /\ \/ spi_state = "HEADER_ACK" /\ done = "tx"
       \/ spi_state = "DATA_RX" /\ Len(rx) <= clocked

\* A header is received as it is sent, and the host waits for the answer.
HeaderIsSent == \A c \in Nat :
    spi_state = "HEADER" /\ Begins(rx, Packet("header", c, HeaderSize)) =>
        IF rx_left > 0 THEN phase = "header" /\ clocked = Len(rx)
                       ELSE phase = "hack"

Silent(q) == \A i \in 1 .. Len(q) : q[i].of \in {"idle", "junk"}

\* What looks like data is the data of the call under way; when it is whole the
\* host waits for the answer, and has not begun to unless a handler is late.
DataIsSent == \A c \in Nat :
    spi_state = "DATA_RX" /\ Begins(rx, Packet("data", c, DataSize[header.kind])) =>
        /\ c = call /\ header = Ours
        /\ IF rx_left > 0 THEN phase = "data" /\ clocked = Len(rx)
           ELSE /\ phase = "dack"
                /\ Silent(got)
                /\ faults = before =>
                      clocked = 0 /\ polls = 0 /\ got = <<>> /\ ~late

\* Only a response to the call under way is read when one is expected.
AnswersAreOurs == phase \in {"dack", "rest"} =>
    /\ spi_state = "DATA_TX" => ran = call
    /\ \A i \in 1 .. Len(got) : Answers(got[i]) =>
          ran = call /\ got[i].call = runs /\ got[i].i > 0

\* When nothing has gone wrong and the call is carried out, its response is on
\* its way, or in what was read.
OnItsWay(n) == /\ phase \in {"dack", "rest"} /\ polls = 0
               /\ spi_state = "DATA_TX" /\ tx # <<>>
               /\ got \o tx = Response(runs, n)
               /\ phase = "rest" => expected = n
WasRead(n) == /\ phase = "dack" /\ polls = 0
              /\ Begins(Response(runs, n), got)
              /\ \/ spi_state = "DATA_TX" /\ tx = <<>>
                 \/ spi_state \in {"HEADER", "HEADER_NACK"}
Smooth == phase # "idle" /\ ran = call /\ faults = before
IsAnswered == Smooth => \E k \in Kind : OnItsWay(ResponseSize[k]) \/ WasRead(ResponseSize[k])

SpiInv == /\ Shape /\ Dma /\ InTurn /\ AckIsOurs /\ DataIsAwaited /\ HeaderIsSent
          /\ DataIsSent /\ AnswersAreOurs /\ IsAnswered

-----------------------------------------------------------------------------
(* SPI: packets *)

LEMMA CellsAre ==
    ASSUME NEW of \in Parts, NEW c \in Nat, NEW j \in Nat
    PROVE  /\ Cell(of, c, j) \in Cells
           /\ Cell(of, c, j).of = of /\ Cell(of, c, j).call = c /\ Cell(of, c, j).i = j
BY DEF Cell, Cells

LEMMA LonesAre ==
    ASSUME NEW of \in Parts
    PROVE  /\ Lone(of) \in Cells /\ Lone(of).of = of
BY DEF Lone, Cell, Cells, NoCall

LEMMA PacketsAre ==
    ASSUME NEW of \in Parts, NEW c \in Nat, NEW n \in Nat
    PROVE  /\ Packet(of, c, n) \in Seq(Cells) /\ Len(Packet(of, c, n)) = n
           /\ \A j \in 1 .. n : /\ Packet(of, c, n)[j].of = IF j = n THEN "sum" ELSE of
                                /\ Packet(of, c, n)[j].call = c
                                /\ Packet(of, c, n)[j].i = j
<1>1. \A j \in 1 .. n : Cell(IF j = n THEN "sum" ELSE of, c, j) \in Cells
  <2> SUFFICES ASSUME NEW j \in 1 .. n
               PROVE  Cell(IF j = n THEN "sum" ELSE of, c, j) \in Cells
    OBVIOUS
  <2>1. j \in Nat /\ "sum" \in Parts
    BY DEF Parts
  <2> QED BY <2>1, CellsAre, Zenon
<1>2. Packet(of, c, n) \in Seq(Cells) /\ Len(Packet(of, c, n)) = n
  BY <1>1 DEF Packet
<1>3. \A j \in 1 .. n : Packet(of, c, n)[j] = Cell(IF j = n THEN "sum" ELSE of, c, j)
  BY DEF Packet
<1> QED BY <1>2, <1>3 DEF Cell

LEMMA HeadersAre ==
    ASSUME NEW c \in Nat
    PROVE  /\ Packet("header", c, HeaderSize) \in Seq(Cells)
           /\ Len(Packet("header", c, HeaderSize)) = HeaderSize
           /\ \A j \in 1 .. HeaderSize :
                 /\ Packet("header", c, HeaderSize)[j] \in Cells
                 /\ Packet("header", c, HeaderSize)[j].of =
                       IF j = HeaderSize THEN "sum" ELSE "header"
                 /\ Packet("header", c, HeaderSize)[j].call = c
                 /\ Packet("header", c, HeaderSize)[j].i = j
<1>1. HeaderSize \in Nat /\ "header" \in Parts
  BY SpiAssumption DEF Parts
<1>2. /\ Packet("header", c, HeaderSize) \in Seq(Cells)
      /\ Len(Packet("header", c, HeaderSize)) = HeaderSize
  BY <1>1, PacketsAre
<1>3. \A j \in 1 .. HeaderSize : Packet("header", c, HeaderSize)[j] \in Cells
  BY <1>1, <1>2
<1>4. \A j \in 1 .. HeaderSize :
         /\ Packet("header", c, HeaderSize)[j].of = IF j = HeaderSize THEN "sum" ELSE "header"
         /\ Packet("header", c, HeaderSize)[j].call = c
         /\ Packet("header", c, HeaderSize)[j].i = j
  BY <1>1, PacketsAre
<1> QED BY <1>2, <1>3, <1>4

LEMMA DataAre ==
    ASSUME NEW c \in Nat, NEW n \in Nat
    PROVE  /\ Packet("data", c, n) \in Seq(Cells)
           /\ Len(Packet("data", c, n)) = n
           /\ \A j \in 1 .. n :
                 /\ Packet("data", c, n)[j] \in Cells
                 /\ Packet("data", c, n)[j].of = IF j = n THEN "sum" ELSE "data"
                 /\ Packet("data", c, n)[j].call = c
                 /\ Packet("data", c, n)[j].i = j
<1>1. "data" \in Parts
  BY DEF Parts
<1>2. /\ Packet("data", c, n) \in Seq(Cells) /\ Len(Packet("data", c, n)) = n
  BY <1>1, PacketsAre
<1>3. \A j \in 1 .. n : Packet("data", c, n)[j] \in Cells
  BY <1>2
<1>4. \A j \in 1 .. n : /\ Packet("data", c, n)[j].of = IF j = n THEN "sum" ELSE "data"
                        /\ Packet("data", c, n)[j].call = c
                        /\ Packet("data", c, n)[j].i = j
  BY <1>1, PacketsAre
<1> QED BY <1>2, <1>3, <1>4

LEMMA ResponsesAre ==
    ASSUME NEW r \in Nat, NEW n \in Nat
    PROVE  /\ Response(r, n) \in Seq(Cells) /\ Len(Response(r, n)) = n
           /\ \A j \in 1 .. n : /\ Answers(Response(r, n)[j])
                                /\ Response(r, n)[j].call = r
                                /\ Response(r, n)[j].of = IF j = 2 THEN "length" ELSE "response"
                                /\ Response(r, n)[j].i = IF j = 2 THEN n ELSE j
                                /\ Response(r, n)[j].i > 0
<1> DEFINE c(j) == IF j = 2 THEN Cell("length", r, n) ELSE Cell("response", r, j)
<1>1. \A j \in 1 .. n : c(j) \in Cells
  <2> SUFFICES ASSUME NEW j \in 1 .. n PROVE c(j) \in Cells
    OBVIOUS
  <2>1. j \in Nat /\ "length" \in Parts /\ "response" \in Parts
    BY DEF Parts
  <2> QED BY <2>1, CellsAre, Zenon
<1>2. Response(r, n) \in Seq(Cells) /\ Len(Response(r, n)) = n
  BY <1>1 DEF Response
<1>3. \A j \in 1 .. n : Response(r, n)[j] = c(j)
  BY DEF Response
<1> QED BY <1>2, <1>3 DEF Cell, Answers

\* A packet begins with what came before its last cell.
LEMMA BeginsBefore ==
    ASSUME NEW q \in Seq(Cells), NEW x \in Cells, NEW packet \in Seq(Cells),
           Begins(Append(q, x), packet)
    PROVE  /\ Len(q) + 1 <= Len(packet) /\ packet[Len(q) + 1] = x
           /\ Len(q) > 0 => Begins(q, packet)
<1>1. /\ Len(Append(q, x)) = Len(q) + 1 /\ Append(q, x)[Len(q) + 1] = x
      /\ \A i \in 1 .. Len(q) : Append(q, x)[i] = q[i]
      /\ Len(q) \in Nat /\ Len(packet) \in Nat
  OBVIOUS
<1>2. /\ Len(q) + 1 <= Len(packet)
      /\ \A i \in 1 .. Len(q) + 1 : Append(q, x)[i] = packet[i]
  BY <1>1 DEF Begins
<1>3. packet[Len(q) + 1] = x
  BY <1>1, <1>2
<1>4. ASSUME Len(q) > 0 PROVE Begins(q, packet)
  BY <1>1, <1>2, <1>4 DEF Begins
<1> QED BY <1>2, <1>3, <1>4

\* What begins a packet and is as long is the packet.
LEMMA BeginsWhole ==
    ASSUME NEW q \in Seq(Cells), NEW packet \in Seq(Cells), Len(packet) > 0
    PROVE  q = packet <=> Begins(q, packet) /\ Len(q) = Len(packet)
BY SeqEqual DEF Begins

-----------------------------------------------------------------------------
(* SPI: the wire *)

\* What a clocked cell does to the panda's DMA.
CellSent == /\ tx # <<>> /\ rx_left = 0 /\ tx' = Tail(tx) /\ rx' = rx /\ rx_left' = rx_left
            /\ done' = IF Tail(tx) # <<>> THEN "none" ELSE "tx"
CellReceived(out) ==
    /\ tx = <<>> /\ rx_left > 0 /\ tx' = tx
    /\ \E x \in {out, Lone("junk")} : rx' = Append(rx, x)
    /\ rx_left' = rx_left - 1
    /\ done' = IF rx_left > 1 THEN "none" ELSE "rx"
CellLost == /\ tx = <<>> /\ rx_left = 0 /\ done # "none"
            /\ tx' = tx /\ rx' = rx /\ rx_left' = rx_left /\ done' = done

LEMMA InIs ==
    ASSUME NEW wire \in Wire, tx \in Seq(Cells)
    PROVE  /\ In(wire) \in Cells
           /\ tx = <<>> => In(wire) \in {Lone("idle"), Lone("junk")}
           /\ tx # <<>> => In(wire) \in {Head(tx), Lone("junk")}
           /\ wire = "good" /\ tx # <<>> => In(wire) = Head(tx)
<1>1. Lone("idle") \in Cells /\ Lone("junk") \in Cells
  BY LonesAre DEF Parts
<1>2. tx # <<>> => Head(tx) \in Cells
  OBVIOUS
<1>3. In(wire) = IF wire = "miso" THEN Lone("junk")
                 ELSE IF tx # <<>> THEN Head(tx) ELSE Lone("idle")
  BY DEF In
<1> QED BY <1>1, <1>2, <1>3

LEMMA ShiftIs ==
    ASSUME Shape, Dma, NEW out \in Cells, Shift(out)
    PROVE  CellSent \/ CellReceived(out) \/ CellLost
<1>1. CASE tx # <<>>
  <2>1. rx_left = 0 /\ done = "none"
    BY <1>1 DEF Dma, Receiving, Sending
  <2>2. Len(tx) = 1 <=> Tail(tx) = <<>>
    <3> DEFINE t == Tail(tx)
    <3>1. t \in Seq(Cells) /\ Len(t) = Len(tx) - 1 /\ Len(tx) \in Nat
      BY <1>1 DEF Shape, HostShape, PandaShape
    <3> HIDE DEF t
    <3>2. t = <<>> <=> Len(t) = 0
      BY <3>1, EmptySeq
    <3> QED BY <3>1, <3>2 DEF t
  <2> QED BY <1>1, <2>1, <2>2 DEF Shift, CellSent
<1>2. CASE tx = <<>> /\ rx_left > 0
  <2>1. done = "none"
    BY <1>2 DEF Dma, Receiving, Sending, Shape, HostShape, PandaShape
  <2>2. rx_left = 1 <=> ~ (rx_left > 1)
    BY <1>2 DEF Shape, HostShape, PandaShape
  <2> QED BY <1>2, <2>1, <2>2 DEF Shift, CellReceived
<1>3. CASE tx = <<>> /\ ~ (rx_left > 0)
  <2>1. rx_left = 0
    BY <1>3 DEF Shape, HostShape, PandaShape
  <2>2. done # "none"
    BY <1>3, <2>1 DEF Dma, Receiving, Sending
  <2> QED BY <1>3, <2>1, <2>2 DEF Shift, CellLost
<1> QED BY <1>1, <1>2, <1>3

LEMMA ClockIs ==
    ASSUME Shape, Dma, NEW wire \in Wire, NEW out \in Cells, Clock(out, wire)
    PROVE  /\ CellSent \/ CellReceived(out) \/ CellLost
           /\ call' = call /\ kind' = kind /\ spi_state' = spi_state
           /\ header' = header /\ calm' = calm
           /\ runs' = runs /\ ran' = ran /\ before' = before
           /\ faults' \in 0 .. MaxFaults /\ before <= faults'
           /\ faults' = before => /\ faults = before /\ wire = "good"
                                  /\ clocked = 0 /\ done # "none" => late
           /\ late' \in BOOLEAN /\ (late' => late \/ done # "none")
<1> DEFINE lag == clocked = 0 /\ done # "none" /\ ~late
           wrong == (IF lag THEN 1 ELSE 0) + (IF wire # "good" THEN 1 ELSE 0)
<1>1. /\ wrong > 0 => faults + wrong <= MaxFaults
      /\ faults' = faults + wrong /\ late' = (late \/ lag)
      /\ Shift(IF wire = "mosi" THEN Lone("junk") ELSE out)
      /\ call' = call /\ kind' = kind /\ spi_state' = spi_state
      /\ header' = header /\ calm' = calm
      /\ runs' = runs /\ ran' = ran /\ before' = before
  BY Zenon DEF Clock
<1>2. lag \in BOOLEAN /\ late \in BOOLEAN
  BY DEF Shape, HostShape, PandaShape
<1>3. wrong \in Nat /\ (wrong = 0 => ~lag /\ wire = "good")
  OBVIOUS
<1>4. late' \in BOOLEAN /\ (late' => late \/ done # "none")
  BY <1>1, <1>2
<1> HIDE DEF wrong
<1>5. /\ faults' \in 0 .. MaxFaults /\ before <= faults'
      /\ faults' = before => faults = before /\ wrong = 0
  <2>1. faults \in 0 .. MaxFaults /\ before \in Nat /\ before <= faults
        /\ MaxFaults \in Nat
    BY SpiAssumption DEF Shape, HostShape, PandaShape
  <2> QED BY <1>1, <1>3, <2>1
<1>6. CellSent \/ CellReceived(out) \/ CellLost
  <2>1. CASE wire = "mosi"
    <3>1. Lone("junk") \in Cells
      BY LonesAre DEF Parts
    <3>2. CellSent \/ CellReceived(Lone("junk")) \/ CellLost
      BY <1>1, <2>1, <3>1, ShiftIs
    <3> QED BY <3>2 DEF CellReceived
  <2>2. CASE wire # "mosi"
    BY <1>1, <2>2, ShiftIs
  <2> QED BY <2>1, <2>2
<1>7. faults' = before => (clocked = 0 /\ done # "none" => late)
  BY <1>3, <1>5
<1> QED BY <1>1, <1>3, <1>4, <1>5, <1>6, <1>7

LEMMA WireShape ==
    ASSUME Shape, Dma, NEW wire \in Wire, NEW out \in Cells, Clock(out, wire)
    PROVE  PandaShape' /\ Dma'
<1>1. /\ CellSent \/ CellReceived(out) \/ CellLost
      /\ call' = call /\ kind' = kind /\ spi_state' = spi_state
      /\ header' = header /\ calm' = calm
      /\ runs' = runs /\ ran' = ran /\ before' = before
      /\ faults' \in 0 .. MaxFaults /\ before <= faults'
      /\ late' \in BOOLEAN /\ (late' => late \/ done # "none")
  BY ClockIs
<1>2. Lone("junk") \in Cells
  BY LonesAre DEF Parts
<1>3. CASE CellSent
  <2>1. /\ tx # <<>> /\ rx_left = 0 /\ tx' = Tail(tx) /\ rx' = rx /\ rx_left' = rx_left
        /\ done' = IF Tail(tx) # <<>> THEN "none" ELSE "tx"
        /\ done = "none" /\ ~late
    BY <1>3 DEF CellSent, Dma, Receiving, Sending
  <2>2. Sending
    BY <2>1 DEF Dma, Receiving
  <2>3. tx' \in Seq(Cells) /\ rx' \in Seq(Cells)
    BY <2>1 DEF Shape, PandaShape
  <2>4. /\ spi_state = "HEADER_ACK" => tx' = <<>>
        /\ spi_state = "HEADER_NACK" => tx' = <<>>
    BY <2>1, <2>2 DEF Sending
  <2>5. ASSUME spi_state = "DATA_TX", NEW j \in 1 .. Len(tx')
        PROVE  Answers(tx'[j]) /\ tx'[j].call = runs /\ tx'[j].i > 0
    <3>1. tx'[j] = tx[j + 1] /\ j + 1 \in 1 .. Len(tx)
      BY <2>1, <2>5 DEF Shape, PandaShape
    <3> QED BY <2>2, <2>5, <3>1 DEF Sending
  <2>6. Sending'
    BY <1>1, <2>1, <2>2, <2>4, <2>5 DEF Sending, Answers
  <2>7. PandaShape'
    BY <1>1, <2>1, <2>3 DEF Shape, PandaShape
  <2>8. ~late'
    BY <1>1, <2>1
  <2> QED BY <2>6, <2>7, <2>8 DEF Dma
<1>4. CASE CellReceived(out)
  <2>1. PICK x \in {out, Lone("junk")} : rx' = Append(rx, x)
    BY <1>4 DEF CellReceived
  <2>2. /\ tx = <<>> /\ rx_left > 0 /\ tx' = tx /\ rx_left' = rx_left - 1
        /\ done' = IF rx_left > 1 THEN "none" ELSE "rx"
        /\ rx \in Seq(Cells) /\ rx_left \in Nat
    BY <1>4 DEF CellReceived, Shape, PandaShape
  <2>3. Receiving /\ done = "none" /\ ~late
    BY <2>2 DEF Dma, Receiving, Sending
  <2>4. rx' \in Seq(Cells) /\ Len(rx') = Len(rx) + 1
    BY <1>2, <2>1, <2>2
  <2>5. PICK n \in Nat : n = rx_left - 1
    BY <2>2
  <2>6. Len(rx') + n = Wanted /\ Wanted' = Wanted
    BY <1>1, <2>2, <2>3, <2>4, <2>5 DEF Receiving, Wanted
  <2>7. rx_left' = n /\ done' = IF n > 0 THEN "none" ELSE "rx"
    BY <2>2, <2>5
  <2>8. Receiving'
    BY <1>1, <2>2, <2>3, <2>6, <2>7 DEF Receiving
  <2>9. PandaShape'
    BY <1>1, <2>2, <2>4, <2>7 DEF Shape, PandaShape
  <2>10. ~late'
    BY <1>1, <2>3
  <2> QED BY <2>8, <2>9, <2>10 DEF Dma
<1>5. CASE CellLost
  <2>1. /\ tx' = tx /\ rx' = rx /\ rx_left' = rx_left /\ done' = done /\ done # "none"
    BY <1>5 DEF CellLost
  <2>2. PandaShape'
    BY <1>1, <2>1 DEF Shape, PandaShape
  <2>3. Receiving => Receiving'
    BY <1>1, <2>1 DEF Receiving, Wanted
  <2>4. Sending => Sending'
    BY <1>1, <2>1 DEF Sending, Answers
  <2> QED BY <2>1, <2>2, <2>3, <2>4 DEF Dma
<1> QED BY <1>1, <1>3, <1>4, <1>5

\* Whatever is clocked takes the HACK with it.
LEMMA AckIsTaken ==
    ASSUME Shape, Dma, NEW wire \in Wire, NEW out \in Cells, Clock(out, wire)
    PROVE  AckIsOurs'
<1> SUFFICES ASSUME spi_state' = "HEADER_ACK" PROVE tx' = <<>>
  BY DEF AckIsOurs
<1>1. (CellSent \/ CellReceived(out) \/ CellLost) /\ spi_state = "HEADER_ACK"
  BY ClockIs
<1>2. tx \in {<<>>, <<Lone("hack")>>}
  BY <1>1 DEF Dma, Receiving, Sending
<1>3. Tail(<<Lone("hack")>>) = <<>>
  OBVIOUS
<1> QED BY <1>1, <1>2, <1>3 DEF CellSent, CellReceived, CellLost

\* A header that is received whole is one that was sent while the DMA was armed for it.
LEMMA HeaderGrows ==
    ASSUME SpiInv, NEW wire \in Wire, NEW out \in Cells, Clock(out, wire),
           phase = "header" =>
               /\ out = Packet("header", call, HeaderSize)[clocked + 1]
               /\ IF clocked + 1 < HeaderSize
                  THEN phase' = "header" /\ clocked' = clocked + 1
                  ELSE phase' = "hack",
           phase \notin {"header", "data"} => out = Lone("poll"),
           phase = "hack" /\ tx = <<>> => phase' = "hack"
    PROVE  HeaderIsSent'
<1> SUFFICES ASSUME NEW c \in Nat, spi_state' = "HEADER",
                    Begins(rx', Packet("header", c, HeaderSize))
             PROVE  IF rx_left' > 0 THEN phase' = "header" /\ clocked' = Len(rx')
                                    ELSE phase' = "hack"
  BY DEF HeaderIsSent
<1> DEFINE packet == Packet("header", c, HeaderSize)
<1>1. (CellSent \/ CellReceived(out) \/ CellLost) /\ spi_state = "HEADER"
  BY ClockIs DEF SpiInv
<1>2. /\ HeaderSize \in Nat \ {0} /\ call \in Nat /\ clocked \in Nat
      /\ rx \in Seq(Cells) /\ rx_left \in Nat /\ Len(rx) \in Nat
      /\ tx = <<>> /\ Len(rx) + rx_left = HeaderSize
      /\ phase = "header" => clocked < HeaderSize
  BY <1>1, SpiAssumption DEF SpiInv, Shape, HostShape, PandaShape, Dma, Receiving,
                             Sending, Wanted, InTurn
<1>3. /\ packet \in Seq(Cells) /\ Len(packet) = HeaderSize
      /\ \A j \in 1 .. HeaderSize : /\ packet[j].of \in {"sum", "header"}
                                    /\ packet[j].i = j
  <2>1. /\ Packet("header", c, HeaderSize) \in Seq(Cells)
        /\ Len(Packet("header", c, HeaderSize)) = HeaderSize
        /\ \A j \in 1 .. HeaderSize :
              /\ Packet("header", c, HeaderSize)[j].of =
                    IF j = HeaderSize THEN "sum" ELSE "header"
              /\ Packet("header", c, HeaderSize)[j].i = j
    BY HeadersAre
  <2> QED BY <2>1
<1>4. CASE CellReceived(out)
  <2>1. PICK x \in {out, Lone("junk")} : rx' = Append(rx, x)
    BY <1>4 DEF CellReceived
  <2>2. rx_left > 0 /\ rx_left' = rx_left - 1
    BY <1>4 DEF CellReceived
  <2>3. /\ Lone("junk") \in Cells /\ Lone("junk").of = "junk" /\ Lone("poll").of = "poll"
    BY LonesAre DEF Parts
  <2> HIDE DEF packet
  <2>4. packet[Len(rx) + 1] = x /\ (Len(rx) > 0 => Begins(rx, packet))
    <3>1. x \in Cells
      BY <2>3
    <3>2. Begins(Append(rx, x), packet)
      BY <2>1 DEF packet
    <3> QED BY <1>2, <1>3, <3>1, <3>2, BeginsBefore
  <2>5. x.of \in {"sum", "header"} /\ x.i = Len(rx) + 1
    BY <1>2, <1>3, <2>2, <2>4
  <2>6. x = out
    BY <2>3, <2>5
  <2>7. phase # "data"
    BY <1>1 DEF SpiInv, DataIsAwaited
  <2>8. phase = "header"
    BY <2>3, <2>5, <2>6, <2>7
  <2>9. clocked = Len(rx)
    <3>1. clocked + 1 \in 1 .. HeaderSize /\ "header" \in Parts
      BY <1>2, <2>8 DEF Parts
    <3>2. \A j \in 1 .. HeaderSize : Packet("header", call, HeaderSize)[j].i = j
      BY <1>2, HeadersAre
    <3>3. out.i = clocked + 1
      BY <2>8, <3>1, <3>2
    <3> QED BY <1>2, <2>5, <2>6, <3>3
  <2>10. Len(rx') = Len(rx) + 1
    BY <1>2, <2>1, <2>3
  <2>11. CASE clocked + 1 < HeaderSize
    <3>1. phase' = "header" /\ clocked' = Len(rx')
      BY <2>8, <2>9, <2>10, <2>11
    <3>2. rx_left - 1 > 0
      BY <1>2, <2>9, <2>11
    <3> QED BY <2>2, <3>1, <3>2
  <2>12. CASE ~ (clocked + 1 < HeaderSize)
    <3>1. phase' = "hack"
      BY <2>8, <2>12
    <3>2. ~ (rx_left - 1 > 0)
      BY <1>2, <2>9, <2>12
    <3> QED BY <2>2, <3>1, <3>2
  <2> QED BY <2>11, <2>12
<1>5. CASE CellLost
  <2>1. rx' = rx /\ rx_left' = rx_left /\ rx_left = 0
    BY <1>5 DEF CellLost
  <2>2. phase = "hack"
    BY <1>1, <2>1 DEF SpiInv, HeaderIsSent
  <2> QED BY <1>2, <2>1, <2>2
<1>6. ~CellSent
  BY <1>2 DEF CellSent
<1> QED BY <1>1, <1>4, <1>5, <1>6

\* Data that is received whole is the data that was sent, and the header's.
LEMMA DataGrows ==
    ASSUME SpiInv, NoDataIsLikeAHeader,
           NEW wire \in Wire, NEW out \in Cells, Clock(out, wire),
           phase = "header" => out = Packet("header", call, HeaderSize)[clocked + 1],
           phase = "data" =>
               /\ out = Packet("data", call, DataSize[kind])[clocked + 1]
               /\ IF clocked + 1 < DataSize[kind]
                  THEN phase' = "data" /\ clocked' = clocked + 1
                  ELSE phase' = "dack" /\ clocked' = 0 /\ polls' = 0 /\ got' = <<>>,
           phase \notin {"header", "data"} => out = Lone("poll"),
           phase = "dack" /\ tx = <<>> /\ Silent(got) => phase' = "dack" /\ Silent(got')
    PROVE  DataIsSent'
<1> SUFFICES ASSUME NEW c \in Nat, spi_state' = "DATA_RX",
                    Begins(rx', Packet("data", c, DataSize[header'.kind]))
             PROVE  /\ c = call' /\ header' = Ours'
                    /\ IF rx_left' > 0 THEN phase' = "data" /\ clocked' = Len(rx')
                       ELSE /\ phase' = "dack"
                            /\ Silent(got')
                            /\ faults' = before' =>
                                  clocked' = 0 /\ polls' = 0 /\ got' = <<>> /\ ~late'
  BY DEF DataIsSent
<1> DEFINE n == DataSize[header.kind]
           packet == Packet("data", c, n)
<1>1. /\ (CellSent \/ CellReceived(out) \/ CellLost) /\ spi_state = "DATA_RX"
      /\ call' = call /\ kind' = kind /\ header' = header /\ before' = before
      /\ faults' = before => /\ faults = before /\ wire = "good"
                             /\ clocked = 0 /\ done # "none" => late
      /\ late' => late \/ done # "none"
  BY ClockIs DEF SpiInv
<1>2. /\ HeaderSize \in Nat /\ n \in Nat \ {0} /\ n # HeaderSize
      /\ call \in Nat /\ kind \in Kind /\ clocked \in Nat
      /\ rx \in Seq(Cells) /\ rx_left \in Nat /\ Len(rx) \in Nat
      /\ tx = <<>> /\ Len(rx) + rx_left = n
      /\ done = IF rx_left > 0 THEN "none" ELSE "rx"
      /\ late => done # "none"
      /\ phase = "header" => clocked < HeaderSize
      /\ phase = "data" => clocked < DataSize[kind]
  BY <1>1, SpiAssumption DEF SpiInv, Shape, HostShape, PandaShape, Dma, Receiving,
                             Sending, Wanted, InTurn, NoDataIsLikeAHeader
<1>3. /\ packet \in Seq(Cells) /\ Len(packet) = n
      /\ \A j \in 1 .. n : /\ packet[j].of = IF j = n THEN "sum" ELSE "data"
                           /\ packet[j].call = c /\ packet[j].i = j
  <2>1. n \in Nat
    BY <1>2 DEF Parts
  <2> HIDE DEF n
  <2>2. /\ Packet("data", c, n) \in Seq(Cells) /\ Len(Packet("data", c, n)) = n
        /\ \A j \in 1 .. n :
              /\ Packet("data", c, n)[j].of = IF j = n THEN "sum" ELSE "data"
              /\ Packet("data", c, n)[j].call = c /\ Packet("data", c, n)[j].i = j
    BY <2>1, DataAre
  <2> QED BY <2>2
<1>4. header' = header /\ Ours' = Ours
  BY <1>1 DEF Ours
<1>5. Begins(rx', packet)
  BY <1>1
<1> HIDE DEF n, packet
<1>6. CASE CellReceived(out)
  <2>1. PICK x \in {out, Lone("junk")} : rx' = Append(rx, x)
    BY <1>6 DEF CellReceived
  <2>2. rx_left > 0 /\ rx_left' = rx_left - 1
    BY <1>6 DEF CellReceived
  <2>3. /\ Lone("junk") \in Cells /\ Lone("junk").of = "junk" /\ Lone("poll").of = "poll"
    BY LonesAre DEF Parts
  <2>4. packet[Len(rx) + 1] = x /\ (Len(rx) > 0 => Begins(rx, packet))
    <3>1. x \in Cells
      BY <2>3
    <3>2. Begins(Append(rx, x), packet)
      BY <1>5, <2>1
    <3> QED BY <1>2, <1>3, <3>1, <3>2, BeginsBefore
  <2>5. /\ x.of = (IF Len(rx) + 1 = n THEN "sum" ELSE "data")
        /\ x.i = Len(rx) + 1 /\ x.call = c
    BY <1>2, <1>3, <2>2, <2>4
  <2>6. x = out
    BY <2>3, <2>5
  <2>7. phase = "data"
    <3>1. CASE Len(rx) > 0
      BY <1>1, <2>2, <2>4, <3>1 DEF SpiInv, DataIsSent, packet, n
    <3>2. CASE Len(rx) = 0
      <4>1. phase # "header"
        <5> SUFFICES ASSUME phase = "header" PROVE FALSE
          OBVIOUS
        <5>1. clocked + 1 \in 1 .. HeaderSize /\ "header" \in Parts
          BY <1>2 DEF Parts
        <5>2. \A j \in 1 .. HeaderSize :
                 /\ Packet("header", call, HeaderSize)[j].of =
                      IF j = HeaderSize THEN "sum" ELSE "header"
                 /\ Packet("header", call, HeaderSize)[j].i = j
          BY <1>2, HeadersAre
        <5>3. out.of = "sum" /\ clocked + 1 = HeaderSize /\ out.i = HeaderSize
          BY <2>5, <2>6, <5>1, <5>2
        <5>4. n = 1
          BY <1>2, <2>5, <2>6, <3>2, <5>3
        <5>5. HeaderSize = 1
          BY <2>5, <2>6, <3>2, <5>3
        <5> QED BY <1>2, <5>4, <5>5
      <4>2. phase \in {"header", "data"}
        BY <2>3, <2>5, <2>6
      <4> QED BY <4>1, <4>2
    <3> QED BY <1>2, <3>1, <3>2
  <2>8. header = Ours /\ n = DataSize[kind]
    BY <2>7 DEF SpiInv, DataIsAwaited, Ours, n
  <2>9. out.i = clocked + 1 /\ out.call = call
    <3>1. clocked + 1 \in 1 .. n /\ "data" \in Parts
      BY <1>2, <2>7, <2>8 DEF Parts
    <3>2. \A j \in 1 .. n : /\ Packet("data", call, n)[j].i = j
                            /\ Packet("data", call, n)[j].call = call
      <4>1. n \in Nat /\ call \in Nat
        BY <1>2
      <4> QED BY <4>1, DataAre
    <3> QED BY <2>7, <2>8, <3>1, <3>2
  <2>10. c = call /\ clocked = Len(rx)
    BY <1>2, <2>5, <2>6, <2>9
  <2>11. Len(rx') = Len(rx) + 1
    BY <1>2, <2>1, <2>3
  <2>12. ~late'
    BY <1>1, <1>2, <2>2
  <2>13. CASE clocked + 1 < n
    <3>1. phase' = "data" /\ clocked' = Len(rx')
      BY <2>7, <2>8, <2>10, <2>11, <2>13
    <3>2. rx_left - 1 > 0
      BY <1>2, <2>10, <2>13
    <3> QED BY <1>1, <1>4, <2>2, <2>8, <2>10, <3>1, <3>2
  <2>14. CASE ~ (clocked + 1 < n)
    <3>1. phase' = "dack" /\ clocked' = 0 /\ polls' = 0 /\ got' = <<>>
      BY <2>7, <2>8, <2>14
    <3>2. ~ (rx_left - 1 > 0)
      BY <1>2, <2>10, <2>14
    <3>3. Silent(got')
      BY <3>1 DEF Silent
    <3> QED BY <1>1, <1>4, <2>2, <2>8, <2>10, <2>12, <3>1, <3>2, <3>3
  <2> QED BY <2>13, <2>14
<1>7. CASE CellLost
  <2>1. rx' = rx /\ rx_left' = rx_left /\ rx_left = 0 /\ done # "none"
    BY <1>7 DEF CellLost
  <2>2. Begins(rx, Packet("data", c, DataSize[header.kind]))
    BY <1>5, <2>1 DEF packet, n
  <2>3. /\ c = call /\ header = Ours /\ phase = "dack"
        /\ Silent(got)
        /\ faults = before => clocked = 0 /\ ~late
    BY <1>1, <2>1, <2>2 DEF SpiInv, DataIsSent
  <2>4. faults' # before
    BY <1>1, <2>1, <2>3
  <2>5. phase' = "dack" /\ Silent(got')
    BY <1>2, <2>3
  <2> QED BY <1>1, <1>4, <2>1, <2>3, <2>4, <2>5
<1>8. ~CellSent
  BY <1>2 DEF CellSent
<1> QED BY <1>1, <1>6, <1>7, <1>8

-----------------------------------------------------------------------------
(* SPI: the host *)

\* A call that was carried out is not sent again while nothing goes wrong.
LEMMA NotSmooth ==
    ASSUME SpiInv, phase \in {"header", "hack", "data"},
           NEW wire \in Wire, NEW out \in Cells, Clock(out, wire)
    PROVE  IsAnswered'
<1>1. ~Smooth
  BY DEF SpiInv, IsAnswered, OnItsWay, WasRead
<1>2. call' = call /\ ran' = ran /\ before' = before /\ (faults' = before => faults = before)
  BY ClockIs DEF SpiInv
<1>3. ~Smooth'
  BY <1>1, <1>2 DEF Smooth
<1> QED BY <1>3 DEF IsAnswered

LEMMA GoIs ==
    ASSUME NEW next, Go(next)
    PROVE  /\ phase' = next /\ clocked' = 0 /\ polls' = 0 /\ got' = <<>>
           /\ expected' = PollSize
           /\ polls' \in 0 .. Patience /\ got' \in Seq(Cells) /\ expected' \in Nat
           /\ Len(got') < expected'
<1>1. /\ phase' = next /\ clocked' = 0 /\ polls' = 0 /\ got' = <<>>
      /\ expected' = PollSize
  BY DEF Go
<1>2. 0 \in 0 .. Patience /\ PollSize \in Nat /\ 0 < PollSize
  BY SpiAssumption
<1>3. <<>> \in Seq(Cells) /\ Len(<<>>) = 0
  BY EmptySeq
<1> QED BY <1>1, <1>2, <1>3

LEMMA SendHeaderKeeps == NoDataIsLikeAHeader /\ SpiInv /\ SendHeader => SpiInv'
<1> SUFFICES ASSUME NoDataIsLikeAHeader, SpiInv, SendHeader PROVE SpiInv'
  OBVIOUS
<1> DEFINE packet == Packet("header", call, HeaderSize)
           out == packet[clocked + 1]
<1>1. /\ HeaderSize \in Nat \ {0} /\ call \in Nat /\ clocked \in Nat /\ phase = "header"
      /\ clocked < HeaderSize /\ call > 0 /\ Shape /\ Dma
  BY SpiAssumption DEF SpiInv, Shape, PandaShape, HostShape, InTurn, SendHeader
<1>2. Len(packet) = HeaderSize /\ out \in Cells
  <2>1. clocked + 1 \in 1 .. HeaderSize
    BY <1>1
  <2> QED BY <1>1, <2>1, HeadersAre
<1>3. PICK wire \in Wire : Clock(out, wire)
  BY DEF SendHeader, SendPacket
<1>4. /\ IF clocked + 1 = HeaderSize
         THEN Go("hack")
         ELSE /\ clocked' = clocked + 1
              /\ phase' = phase /\ polls' = polls /\ got' = got /\ expected' = expected
      /\ answer' = answer
  BY <1>2 DEF SendHeader, SendPacket
<1>5. /\ PandaShape' /\ Dma' /\ AckIsOurs' /\ IsAnswered'
      /\ call' = call /\ runs' = runs
  BY <1>1, <1>2, <1>3, WireShape, AckIsTaken, NotSmooth, ClockIs
<1> HIDE DEF packet, out
<1>6. CASE clocked + 1 = HeaderSize
  <2>1. Go("hack")
    BY <1>4, <1>6
  <2>2. /\ phase' = "hack" /\ clocked' = 0 /\ polls' \in 0 .. Patience
        /\ got' \in Seq(Cells) /\ expected' \in Nat
        /\ expected' = PollSize /\ Len(got') < expected'
    BY <2>1, GoIs
  <2>3. HostShape' /\ InTurn'
    BY <1>1, <1>4, <1>5, <2>2 DEF Shape, HostShape, InTurn
  <2>4. HeaderIsSent' /\ DataIsSent'
    BY <1>1, <1>2, <1>3, <1>6, <2>2, HeaderGrows, DataGrows DEF out, packet
  <2>5. DataIsAwaited' /\ AnswersAreOurs'
    BY <2>2 DEF DataIsAwaited, AnswersAreOurs
  <2> QED BY <1>5, <2>3, <2>4, <2>5 DEF SpiInv, Shape
<1>7. CASE clocked + 1 # HeaderSize
  <2>1. /\ clocked' = clocked + 1 /\ clocked + 1 < HeaderSize /\ phase' = "header"
        /\ polls' = polls /\ got' = got /\ expected' = expected /\ answer' = answer
    BY <1>1, <1>4, <1>7
  <2>2. HostShape' /\ InTurn'
    BY <1>1, <1>5, <2>1 DEF SpiInv, Shape, HostShape, InTurn
  <2>3. HeaderIsSent' /\ DataIsSent'
    BY <1>1, <1>2, <1>3, <2>1, HeaderGrows, DataGrows DEF out, packet
  <2>4. DataIsAwaited' /\ AnswersAreOurs'
    BY <2>1 DEF DataIsAwaited, AnswersAreOurs
  <2> QED BY <1>5, <2>2, <2>3, <2>4 DEF SpiInv, Shape
<1> QED BY <1>6, <1>7

LEMMA SendDataKeeps == NoDataIsLikeAHeader /\ SpiInv /\ SendData => SpiInv'
<1> SUFFICES ASSUME NoDataIsLikeAHeader, SpiInv, SendData PROVE SpiInv'
  OBVIOUS
<1> DEFINE n == DataSize[kind]
           packet == Packet("data", call, n)
           out == packet[clocked + 1]
<1>1. /\ n \in Nat \ {0} /\ n \in Nat /\ call \in Nat /\ clocked \in Nat /\ phase = "data"
      /\ clocked < n /\ call > 0 /\ Shape /\ Dma
  BY SpiAssumption DEF SpiInv, Shape, PandaShape, HostShape, InTurn, SendData
<1>2. Len(packet) = n /\ out \in Cells
  <2>1. clocked + 1 \in 1 .. n
    BY <1>1
  <2>2. n \in Nat /\ call \in Nat
    BY <1>1
  <2> HIDE DEF n
  <2>3. /\ Len(Packet("data", call, n)) = n
        /\ \A j \in 1 .. n : Packet("data", call, n)[j] \in Cells
    BY <2>2, DataAre
  <2> QED BY <2>1, <2>3
<1>3. PICK wire \in Wire : Clock(out, wire)
  BY DEF SendData, SendPacket
<1>4. /\ IF clocked + 1 = n
         THEN Go("dack")
         ELSE /\ clocked' = clocked + 1
              /\ phase' = phase /\ polls' = polls /\ got' = got /\ expected' = expected
      /\ answer' = answer
  BY <1>2 DEF SendData, SendPacket
<1>5. /\ PandaShape' /\ Dma' /\ AckIsOurs' /\ IsAnswered'
      /\ call' = call /\ kind' = kind /\ runs' = runs /\ spi_state' = spi_state
      /\ header' = header
      /\ CellSent \/ CellReceived(out) \/ CellLost
  BY <1>1, <1>2, <1>3, WireShape, AckIsTaken, NotSmooth, ClockIs
<1>6. /\ header = Ours
      /\ \/ spi_state = "HEADER_ACK" /\ done = "tx"
         \/ spi_state = "DATA_RX" /\ Len(rx) <= clocked
  BY <1>1 DEF SpiInv, DataIsAwaited
<1>7. n' = n /\ Ours' = Ours
  BY <1>5 DEF Ours
<1>8. HeaderIsSent'
  BY <1>1, <1>2, <1>3, HeaderGrows
<1> HIDE DEF packet, out, n
<1>9. CASE clocked + 1 = n
  <2>1. Go("dack")
    BY <1>4, <1>9
  <2>2. /\ phase' = "dack" /\ clocked' = 0 /\ polls' \in 0 .. Patience
        /\ polls' = 0 /\ got' = <<>>
        /\ got' \in Seq(Cells) /\ expected' \in Nat
        /\ expected' = PollSize /\ Len(got') < expected'
    BY <2>1, GoIs
  <2>3. HostShape' /\ InTurn'
    BY <1>1, <1>4, <1>5, <2>2 DEF Shape, HostShape, InTurn
  <2>4. DataIsSent'
    BY <1>1, <1>2, <1>3, <1>9, <2>2, DataGrows DEF out, packet, n
  <2>5. DataIsAwaited'
    BY <2>2 DEF DataIsAwaited
  <2>6. AnswersAreOurs'
    BY <1>5, <1>6, <2>2 DEF AnswersAreOurs
  <2> QED BY <1>5, <1>8, <2>3, <2>4, <2>5, <2>6 DEF SpiInv, Shape
<1>10. CASE clocked + 1 # n
  <2>1. /\ clocked' = clocked + 1 /\ clocked + 1 < n /\ phase' = "data"
        /\ polls' = polls /\ got' = got /\ expected' = expected /\ answer' = answer
    BY <1>1, <1>4, <1>10
  <2>2. HostShape' /\ InTurn'
    BY <1>1, <1>5, <1>7, <2>1 DEF SpiInv, Shape, HostShape, InTurn, n
  <2>3. DataIsSent'
    BY <1>1, <1>2, <1>3, <2>1, DataGrows DEF out, packet, n
  <2>4. AnswersAreOurs'
    BY <2>1 DEF AnswersAreOurs
  <2>5. DataIsAwaited'
    <3>1. CASE spi_state = "HEADER_ACK" /\ done = "tx"
      <4>1. done' = "tx"
        <5>1. tx = <<>> /\ rx_left = 0
          BY <1>1, <3>1 DEF Dma, Receiving, Sending
        <5> QED BY <1>5, <3>1, <5>1 DEF CellSent, CellReceived, CellLost
      <4> QED BY <1>5, <1>6, <1>7, <3>1, <4>1 DEF DataIsAwaited
    <3>2. CASE spi_state = "DATA_RX" /\ Len(rx) <= clocked
      <4>1. /\ tx = <<>> /\ Len(rx) + rx_left = n /\ rx_left \in Nat /\ Len(rx) \in Nat
            /\ rx \in Seq(Cells)
        BY <1>1, <1>6, <3>2 DEF Shape, PandaShape, Dma, Receiving, Sending, Wanted, Ours, n
      <4>2. rx_left > 0
        BY <1>1, <3>2, <4>1
      <4>3. CellReceived(out)
        BY <1>5, <4>1, <4>2 DEF CellSent, CellLost
      <4>4. PICK x \in {out, Lone("junk")} : rx' = Append(rx, x)
        BY <4>3 DEF CellReceived
      <4>5. Len(rx') = Len(rx) + 1
        BY <4>1, <4>4
      <4>6. Len(rx) + 1 <= clocked + 1
        BY <1>1, <3>2, <4>1
      <4> QED BY <1>5, <1>6, <1>7, <2>1, <3>2, <4>5, <4>6 DEF DataIsAwaited
    <3> QED BY <1>6, <3>1, <3>2
  <2> QED BY <1>5, <1>8, <2>2, <2>3, <2>4, <2>5 DEF SpiInv, Shape
<1> QED BY <1>9, <1>10

LEMMA PollHackKeeps == NoDataIsLikeAHeader /\ SpiInv /\ PollHack => SpiInv'
<1> SUFFICES ASSUME NoDataIsLikeAHeader, SpiInv, PollHack PROVE SpiInv'
  OBVIOUS
<1> DEFINE out == Lone("poll")
<1>1. PICK wire \in Wire :
          /\ Clock(out, wire)
          /\ CASE In(wire) = Lone("nack") -> Go("header")
               [] In(wire) = Lone("hack") -> Go("data")
               [] OTHER -> /\ Unanswered
                           /\ UNCHANGED <<phase, clocked, got, expected>>
  BY DEF PollHack
<1>2. phase = "hack" /\ answer' = answer /\ call > 0 /\ Shape /\ Dma
  BY DEF PollHack, SpiInv, InTurn
<1>3. Lone("hack").of = "hack" /\ Lone("nack").of = "nack" /\ Lone("junk").of = "junk"
      /\ Lone("idle").of = "idle"
  BY LonesAre DEF Parts
<1>4. out \in Cells
  BY LonesAre DEF Parts
<1>5. /\ PandaShape' /\ Dma' /\ AckIsOurs' /\ IsAnswered'
      /\ call' = call /\ kind' = kind /\ runs' = runs /\ spi_state' = spi_state
      /\ header' = header
      /\ CellSent \/ CellReceived(out) \/ CellLost
  BY <1>1, <1>2, <1>4, WireShape, AckIsTaken, NotSmooth, ClockIs
<1>6. HeaderSize \in Nat /\ 0 < HeaderSize /\ kind \in Kind
      /\ DataSize[kind] \in Nat /\ 0 < DataSize[kind]
  BY <1>2, SpiAssumption DEF Shape, PandaShape
<1>7. /\ In(wire) = Lone("nack") => Go("header")
      /\ In(wire) = Lone("hack") => Go("data")
      /\ In(wire) \notin {Lone("nack"), Lone("hack")} =>
            Unanswered /\ UNCHANGED <<phase, clocked, got, expected>>
  BY <1>1, <1>3
<1>8. /\ tx = <<>> => In(wire) \in {Lone("idle"), Lone("junk")}
      /\ tx # <<>> => In(wire) \in {Head(tx), Lone("junk")}
  BY <1>2, InIs DEF Shape, PandaShape
<1>9. phase' \in {"header", "data", "hack"} /\ (tx = <<>> => phase' = "hack")
  BY <1>2, <1>3, <1>7, <1>8 DEF Go
<1>10. HeaderIsSent' /\ DataIsSent'
  BY <1>1, <1>2, <1>4, <1>9, HeaderGrows, DataGrows
<1>11. AnswersAreOurs'
  BY <1>9 DEF AnswersAreOurs
<1>12. HostShape' /\ InTurn' /\ DataIsAwaited'
  <2>1. CASE In(wire) = Lone("nack")
    <3>1. /\ phase' = "header" /\ clocked' = 0 /\ polls' \in 0 .. Patience
          /\ got' \in Seq(Cells) /\ expected' \in Nat
          /\ expected' = PollSize /\ Len(got') < expected'
      BY <1>7, <2>1, GoIs
    <3> QED BY <1>2, <1>5, <1>6, <3>1 DEF Shape, HostShape, InTurn, DataIsAwaited
  <2>2. CASE In(wire) = Lone("hack")
    <3>1. /\ phase' = "data" /\ clocked' = 0 /\ polls' \in 0 .. Patience
          /\ got' \in Seq(Cells) /\ expected' \in Nat
          /\ expected' = PollSize /\ Len(got') < expected'
      BY <1>7, <2>2, GoIs
    <3>2. HostShape' /\ InTurn'
      BY <1>2, <1>5, <1>6, <3>1 DEF Shape, HostShape, InTurn
    <3>3. tx # <<>> /\ Head(tx) = Lone("hack")
      BY <1>3, <1>8, <2>2
    <3>4. spi_state = "HEADER_ACK"
      <4>1. Sending
        BY <1>2, <3>3 DEF Dma, Receiving
      <4>2. spi_state # "HEADER_NACK"
        <5> SUFFICES ASSUME spi_state = "HEADER_NACK" PROVE FALSE
          OBVIOUS
        <5>1. tx = <<Lone("nack")>>
          BY <3>3, <4>1 DEF Sending
        <5>2. Head(<<Lone("nack")>>) = Lone("nack")
          OBVIOUS
        <5> QED BY <1>3, <3>3, <5>1, <5>2
      <4>3. spi_state # "DATA_TX"
        <5> SUFFICES ASSUME spi_state = "DATA_TX" PROVE FALSE
          OBVIOUS
        <5>1. 1 \in 1 .. Len(tx) /\ Head(tx) = tx[1]
          BY <1>2, <3>3 DEF Shape, PandaShape
        <5> QED BY <1>3, <3>3, <4>1, <5>1 DEF Sending, Answers
      <4> QED BY <4>1, <4>2, <4>3 DEF Sending
    <3>5. header = Ours
      BY <1>2, <3>3, <3>4 DEF SpiInv, AckIsOurs
    <3>6. tx = <<Lone("hack")>> /\ Tail(tx) = <<>>
      <4>1. tx = <<Lone("hack")>>
        BY <1>2, <3>3, <3>4 DEF Dma, Receiving, Sending
      <4>2. Tail(<<Lone("hack")>>) = <<>>
        OBVIOUS
      <4> QED BY <4>1, <4>2
    <3>7. done' = "tx"
      BY <1>5, <3>3, <3>6 DEF CellSent, CellReceived, CellLost
    <3> QED BY <1>5, <3>2, <3>4, <3>5, <3>7 DEF DataIsAwaited, Ours
  <2>3. CASE In(wire) \notin {Lone("nack"), Lone("hack")}
    <3>1. phase' = "hack" /\ clocked' = clocked /\ got' = got /\ expected' = expected
          /\ polls' = IF polls < Patience THEN polls + 1 ELSE polls
      BY <1>2, <1>7, <2>3 DEF Unanswered
    <3>2. polls' \in 0 .. Patience
      BY <1>2, <3>1, SpiAssumption DEF Shape, HostShape
    <3> QED BY <1>2, <1>5, <3>1, <3>2 DEF SpiInv, Shape, HostShape, InTurn, DataIsAwaited
  <2> QED BY <2>1, <2>2, <2>3
<1> QED BY <1>5, <1>10, <1>11, <1>12 DEF SpiInv, Shape

-----------------------------------------------------------------------------
(* SPI: reading the response *)

Read(wire) == Append(got, In(wire))

LEMMA ReadsAreOurs ==
    ASSUME SpiInv, phase \in {"dack", "rest"}, NEW wire \in Wire
    PROVE  /\ Read(wire) \in Seq(Cells) /\ Len(Read(wire)) = Len(got) + 1
           /\ Read(wire)[Len(got) + 1] = In(wire)
           /\ \A j \in 1 .. Len(got) : Read(wire)[j] = got[j]
           /\ \A j \in 1 .. Len(got) + 1 : Answers(Read(wire)[j]) =>
                 ran = call /\ Read(wire)[j].call = runs /\ Read(wire)[j].i > 0
<1>1. got \in Seq(Cells) /\ tx \in Seq(Cells) /\ Len(got) \in Nat
  BY DEF SpiInv, Shape, HostShape, PandaShape
<1>2. /\ In(wire) \in Cells
      /\ tx = <<>> => In(wire) \in {Lone("idle"), Lone("junk")}
      /\ tx # <<>> => In(wire) \in {Head(tx), Lone("junk")}
  BY <1>1, InIs
<1>3. /\ Read(wire) \in Seq(Cells) /\ Len(Read(wire)) = Len(got) + 1
      /\ Read(wire)[Len(got) + 1] = In(wire)
      /\ \A j \in 1 .. Len(got) : Read(wire)[j] = got[j]
  BY <1>1, <1>2 DEF Read
<1>4. ASSUME Answers(In(wire)) PROVE ran = call /\ In(wire).call = runs /\ In(wire).i > 0
  <2>1. Lone("idle").of = "idle" /\ Lone("junk").of = "junk" /\ Lone("hack").of = "hack"
        /\ Lone("nack").of = "nack"
    BY LonesAre DEF Parts
  <2>2. tx # <<>> /\ In(wire) = Head(tx)
    BY <1>2, <1>4, <2>1 DEF Answers
  <2>3. Sending /\ Head(tx) = tx[1] /\ 1 \in 1 .. Len(tx)
    BY <1>1, <2>2 DEF SpiInv, Dma, Receiving
  <2>4. spi_state = "DATA_TX"
    <3>1. Head(<<Lone("hack")>>) = Lone("hack") /\ Head(<<Lone("nack")>>) = Lone("nack")
      OBVIOUS
    <3>2. spi_state # "HEADER_ACK"
      BY <1>4, <2>1, <2>2, <2>3, <3>1 DEF Sending, Answers
    <3>3. spi_state # "HEADER_NACK"
      BY <1>4, <2>1, <2>2, <2>3, <3>1 DEF Sending, Answers
    <3> QED BY <2>3, <3>2, <3>3 DEF Sending
  <2>5. ran = call
    BY <2>4 DEF SpiInv, AnswersAreOurs
  <2> QED BY <2>2, <2>3, <2>4, <2>5 DEF Sending
<1>5. \A j \in 1 .. Len(got) : Answers(got[j]) =>
         ran = call /\ got[j].call = runs /\ got[j].i > 0
  BY DEF SpiInv, AnswersAreOurs
<1>6. \A j \in 1 .. Len(got) + 1 : j = Len(got) + 1 \/ j \in 1 .. Len(got)
  BY <1>1
<1> QED BY <1>3, <1>4, <1>5, <1>6

\* A response with the right checksum is that of the last run, of this call.
LEMMA ResponseIsOurs ==
    ASSUME SpiInv, phase \in {"dack", "rest"}, NEW wire \in Wire,
           NEW cells \in Seq(Cells), Len(cells) > 0, cells[1] = Read(wire)[1],
           IsResponse(cells)
    PROVE  ran = call /\ cells[1].call = runs
<1>1. cells[1] \in Cells /\ 1 \in 1 .. Len(cells) /\ Len(cells) \in Nat
  OBVIOUS
<1>2. cells[1].call \in Nat
  BY <1>1 DEF Cells
<1>3. Answers(Response(cells[1].call, Len(cells))[1])
  BY <1>1, <1>2, ResponsesAre
<1>4. Answers(cells[1])
  BY <1>3 DEF IsResponse
<1>5. 1 \in 1 .. Len(got) + 1
  BY DEF SpiInv, Shape, HostShape
<1> QED BY <1>4, <1>5, ReadsAreOurs

LEMMA Joins ==
    ASSUME NEW p \in Seq(Cells), NEW q \in Seq(Cells), q # <<>>
    PROVE  /\ Append(p, Head(q)) \o Tail(q) = p \o q
           /\ IF Tail(q) = <<>> THEN Len(p \o q) = Len(p) + 1
                                ELSE Len(p \o q) > Len(p) + 1
           /\ Len(p \o q) > Len(p)
           /\ \A i \in 1 .. Len(p) + 1 : (p \o q)[i] = Append(p, Head(q))[i]
<1>1. /\ Head(q) \in Cells /\ Tail(q) \in Seq(Cells) /\ Len(Tail(q)) = Len(q) - 1
      /\ Len(q) > 0 /\ Len(q) \in Nat /\ Len(p) \in Nat
  OBVIOUS
<1>2. Append(p, Head(q)) \in Seq(Cells) /\ Len(Append(p, Head(q))) = Len(p) + 1
  BY <1>1
<1>3. Len(p \o q) = Len(p) + 1 + Len(Tail(q)) /\ p \o q \in Seq(Cells)
  BY <1>1
<1>4. \A i \in 1 .. Len(p) + 1 : (p \o q)[i] = Append(p, Head(q))[i]
  BY <1>1
<1>5. \A i \in 1 .. Len(Tail(q)) : (p \o q)[Len(p) + 1 + i] = Tail(q)[i]
  BY <1>1
<1>6. Append(p, Head(q)) \o Tail(q) = p \o q
  <2> DEFINE a == Append(p, Head(q))
             t == Tail(q)
             l == a \o t
             r == p \o q
  <2>1. a \in Seq(Cells) /\ t \in Seq(Cells) /\ r \in Seq(Cells)
        /\ Len(a) = Len(p) + 1 /\ Len(r) = Len(p) + 1 + Len(t)
        /\ (\A i \in 1 .. Len(p) + 1 : r[i] = a[i])
        /\ \A i \in 1 .. Len(t) : r[Len(p) + 1 + i] = t[i]
    BY <1>1, <1>2, <1>3, <1>4, <1>5
  <2> HIDE DEF a, t, r
  <2>2. l \in Seq(Cells) /\ Len(l) = Len(p) + 1 + Len(t)
    BY <2>1
  <2>3. \A i \in 1 .. Len(p) + 1 : l[i] = r[i]
    BY <1>1, <2>1
  <2>4. \A i \in 1 .. Len(t) : l[Len(p) + 1 + i] = r[Len(p) + 1 + i]
    BY <1>1, <2>1
  <2>5. \A i \in 1 .. Len(l) : l[i] = r[i]
    <3> SUFFICES ASSUME NEW i \in 1 .. Len(l), i > Len(p) + 1 PROVE l[i] = r[i]
      BY <1>1, <2>2, <2>3
    <3>1. i - (Len(p) + 1) \in 1 .. Len(t) /\ i = Len(p) + 1 + (i - (Len(p) + 1))
      BY <1>1, <2>1, <2>2
    <3> QED BY <2>4, <3>1
  <2>6. l = r
    BY <2>1, <2>2, <2>5, SeqEqual
  <2> QED BY <2>6 DEF a, t, r
<1>7. /\ IF Tail(q) = <<>> THEN Len(p \o q) = Len(p) + 1
                           ELSE Len(p \o q) > Len(p) + 1
      /\ Len(p \o q) > Len(p)
  <2> DEFINE t == Tail(q)
  <2>1. t \in Seq(Cells) /\ Len(p \o q) = Len(p) + 1 + Len(t)
    BY <1>1, <1>3
  <2> HIDE DEF t
  <2>2. Len(t) \in Nat /\ (t = <<>> <=> Len(t) = 0)
    BY <2>1, EmptySeq
  <2>3. /\ IF t = <<>> THEN Len(p \o q) = Len(p) + 1 ELSE Len(p \o q) > Len(p) + 1
        /\ Len(p \o q) > Len(p)
    BY <1>1, <2>1, <2>2
  <2> QED BY <2>3 DEF t
<1> QED BY <1>4, <1>6, <1>7

\* While nothing goes wrong, what is read is the response, from its beginning on.
LEMMA SmoothRead ==
    ASSUME SpiInv, phase \in {"dack", "rest"}, NEW n \in Nat, n > 0,
           OnItsWay(n) \/ WasRead(n)
    PROVE  /\ \A i \in 1 .. n : i <= Len(got) + 1 =>
                 Read("good")[i] = Response(runs, n)[i]
           /\ OnItsWay(n) => /\ Read("good") \o Tail(tx) = Response(runs, n)
                             /\ IF Tail(tx) = <<>> THEN n = Len(got) + 1
                                                   ELSE n > Len(got) + 1
           /\ WasRead(n) => n <= Len(got) /\ Begins(Response(runs, n), Read("good"))
<1>1. "good" \in Wire
  BY DEF Wire
<1>2. /\ got \in Seq(Cells) /\ tx \in Seq(Cells) /\ Len(got) \in Nat /\ runs \in Nat
      /\ tx # <<>> => In("good") = Head(tx)
  BY <1>1, InIs DEF SpiInv, Shape, HostShape, PandaShape
<1>3. /\ Read("good") \in Seq(Cells) /\ Len(Read("good")) = Len(got) + 1
      /\ \A j \in 1 .. Len(got) : Read("good")[j] = got[j]
  BY <1>1, ReadsAreOurs
<1>4. Response(runs, n) \in Seq(Cells) /\ Len(Response(runs, n)) = n
  BY <1>2, ResponsesAre
<1>5. CASE OnItsWay(n)
  <2>1. tx # <<>> /\ got \o tx = Response(runs, n)
    BY <1>5 DEF OnItsWay
  <2>2. Read("good") = Append(got, Head(tx))
    BY <1>2, <2>1 DEF Read
  <2>3. /\ Append(got, Head(tx)) \o Tail(tx) = got \o tx
        /\ IF Tail(tx) = <<>> THEN Len(got \o tx) = Len(got) + 1
                              ELSE Len(got \o tx) > Len(got) + 1
        /\ Len(got \o tx) > Len(got)
        /\ \A i \in 1 .. Len(got) + 1 : (got \o tx)[i] = Append(got, Head(tx))[i]
    BY <1>2, <2>1, Joins
  <2>4. Read("good") \o Tail(tx) = Response(runs, n)
    BY <2>1, <2>2, <2>3
  <2>5. n = Len(got \o tx)
    BY <1>4, <2>1
  <2>6. /\ IF Tail(tx) = <<>> THEN n = Len(got) + 1 ELSE n > Len(got) + 1
        /\ n > Len(got)
    BY <2>3, <2>5
  <2>7. \A i \in 1 .. n : i <= Len(got) + 1 => Read("good")[i] = Response(runs, n)[i]
    <3> SUFFICES ASSUME NEW i \in 1 .. n, i <= Len(got) + 1
                 PROVE  Read("good")[i] = Response(runs, n)[i]
      OBVIOUS
    <3>1. i \in 1 .. Len(got) + 1
      BY <1>2
    <3>2. (got \o tx)[i] = Append(got, Head(tx))[i]
      BY <2>3, <3>1
    <3> QED BY <2>1, <2>2, <3>2
  <2>8. ~WasRead(n)
    <3>1. ~ (n <= Len(got))
      BY <1>2, <2>6
    <3> QED BY <1>4, <3>1 DEF WasRead, Begins
  <2> QED BY <2>4, <2>6, <2>7, <2>8
<1>6. CASE WasRead(n) /\ ~OnItsWay(n)
  <2>1. n <= Len(got) /\ \A i \in 1 .. n : Response(runs, n)[i] = got[i]
    BY <1>4, <1>6 DEF WasRead, Begins
  <2>2. \A i \in 1 .. n : Read("good")[i] = Response(runs, n)[i]
    BY <1>2, <1>3, <2>1
  <2>3. Begins(Response(runs, n), Read("good"))
    BY <1>2, <1>3, <1>4, <2>1, <2>2 DEF Begins
  <2> QED BY <1>6, <2>1, <2>2, <2>3
<1> QED BY <1>5, <1>6

\* How a transfer ends.
Returns == IF phase' = "idle" THEN ran = call /\ answer' = runs ELSE answer' = answer

LEMMA FinishIs ==
    ASSUME SpiInv, phase \in {"dack", "rest"}, NEW wire \in Wire,
           NEW cells \in Seq(Cells), Len(cells) > 0, cells[1] = Read(wire)[1],
           Finish(cells)
    PROVE  /\ phase' = IF IsResponse(cells) THEN "idle" ELSE "header"
           /\ Returns
           /\ clocked' = 0 /\ polls' = 0 /\ got' = <<>> /\ expected' = PollSize
           /\ clocked' \in Nat /\ polls' \in 0 .. Patience
           /\ got' \in Seq(Cells) /\ expected' \in Nat /\ Len(got') < expected'
           /\ answer' \in Nat /\ answer' <= runs
<1>1. answer \in Nat /\ answer <= runs /\ runs \in Nat
  BY DEF SpiInv, Shape, HostShape, PandaShape
<1>2. 0 \in Nat /\ 0 \in 0 .. Patience /\ PollSize \in Nat /\ 0 < PollSize
  BY SpiAssumption
<1>3. <<>> \in Seq(Cells) /\ Len(<<>>) = 0
  BY EmptySeq
<1>4. CASE IsResponse(cells)
  <2>1. /\ phase' = "idle" /\ answer' = cells[1].call
        /\ clocked' = 0 /\ polls' = 0 /\ got' = <<>> /\ expected' = PollSize
    BY <1>4 DEF Finish
  <2>2. ran = call /\ cells[1].call = runs
    BY <1>4, ResponseIsOurs
  <2> QED BY <1>1, <1>2, <1>3, <1>4, <2>1, <2>2 DEF Returns
<1>5. CASE ~IsResponse(cells)
  <2>1. /\ phase' = "header" /\ answer' = answer
        /\ clocked' = 0 /\ polls' = 0 /\ got' = <<>> /\ expected' = PollSize
    BY <1>5 DEF Finish, Go
  <2> QED BY <1>1, <1>2, <1>3, <1>5, <2>1 DEF Returns
<1> QED BY <1>4, <1>5

\* A read of PollSize cells is not over, is refused, is the response or a part of
\* it, or nothing the host waits for.
DackRead(wire) ==
    \/ /\ Len(got) + 1 < PollSize
       /\ got' = Read(wire) /\ clocked' = clocked + 1 /\ phase' = phase
       /\ expected' = expected /\ polls' = polls /\ answer' = answer
    \/ /\ Len(got) + 1 = PollSize /\ Read(wire)[1] = Lone("nack")
       /\ Go("header") /\ answer' = answer
    \/ /\ Len(got) + 1 = PollSize /\ Read(wire)[1].of = "response"
       /\ \E size \in Nat :
             /\ size > 0
             /\ Read(wire)[2].of = "length" => size = Read(wire)[2].i
             /\ IF size <= PollSize
                THEN Finish(SubSeq(Read(wire), 1, size))
                ELSE /\ phase' = "rest" /\ got' = Read(wire) /\ expected' = size
                     /\ clocked' = 0 /\ polls' = polls /\ answer' = answer
    \/ /\ Len(got) + 1 = PollSize
       /\ ~ (Read(wire)[1].of = "response" /\ Read(wire)[1].i = 1)
       /\ Unanswered /\ got' = <<>> /\ clocked' = 0
       /\ phase' = phase /\ expected' = expected /\ answer' = answer

LEMMA PollDackIs ==
    ASSUME SpiInv, PollDack
    PROVE  \E wire \in Wire : Clock(Lone("poll"), wire) /\ DackRead(wire)
<1>1. PICK wire \in Wire :
          /\ Clock(Lone("poll"), wire)
          /\ IF Len(Read(wire)) < PollSize
             THEN /\ got' = Read(wire)
                  /\ clocked' = clocked + 1
                  /\ UNCHANGED <<phase, expected, polls, answer>>
             ELSE CASE Read(wire)[1] = Lone("nack") -> Go("header") /\ UNCHANGED answer
                    [] Read(wire)[1].of = "response" /\ Read(wire)[1].i = 1 ->
                         Acknowledged(Read(wire))
                    [] OTHER -> /\ Unanswered
                                /\ got' = <<>>
                                /\ clocked' = 0
                                /\ UNCHANGED <<phase, expected, answer>>
  BY DEF PollDack, Read
<1>2. /\ phase = "dack" /\ Len(got) \in Nat /\ Len(got) < PollSize
      /\ PollSize \in Nat \ {0, 1} /\ PollSize \in Nat
  BY SpiAssumption DEF SpiInv, Shape, HostShape, InTurn, PollDack
<1>3. /\ Read(wire) \in Seq(Cells) /\ Len(Read(wire)) = Len(got) + 1
      /\ \A j \in 1 .. Len(got) + 1 : Answers(Read(wire)[j]) => Read(wire)[j].i > 0
  BY <1>2, ReadsAreOurs
<1>4. CASE Len(Read(wire)) < PollSize
  BY <1>1, <1>3, <1>4 DEF DackRead
<1>5. CASE ~ (Len(Read(wire)) < PollSize)
  <2>1. Len(got) + 1 = PollSize
    BY <1>2, <1>3, <1>5
  <2>2. CASE Read(wire)[1] = Lone("nack")
    <3>1. Lone("nack").of = "nack"
      BY LonesAre DEF Parts
    <3>2. Go("header") /\ UNCHANGED answer
      BY <1>1, <1>5, <2>2, <3>1
    <3> QED BY <1>1, <2>1, <2>2, <3>2 DEF DackRead
  <2>3. CASE /\ Read(wire)[1].of = "response" /\ Read(wire)[1].i = 1
             /\ Read(wire)[1] # Lone("nack")
    <3>1. Acknowledged(Read(wire))
      BY <1>1, <1>5, <2>3
    <3>2. PICK size \in IF Read(wire)[2].of = "length" THEN {Read(wire)[2].i}
                        ELSE {ResponseSize[k] : k \in Kind} :
              IF size <= PollSize
              THEN Finish(SubSeq(Read(wire), 1, size))
              ELSE /\ phase' = "rest" /\ got' = Read(wire) /\ expected' = size
                   /\ clocked' = 0 /\ polls' = polls /\ answer' = answer
      BY <3>1 DEF Acknowledged
    <3>3. 2 \in 1 .. Len(got) + 1
      BY <1>2, <2>1
    <3>4. size \in Nat /\ size > 0
      <4>1. CASE Read(wire)[2].of = "length"
        <5>1. Answers(Read(wire)[2]) /\ Read(wire)[2] \in Cells
          BY <1>3, <3>3, <4>1 DEF Answers
        <5>2. Read(wire)[2].i \in Nat /\ Read(wire)[2].i > 0
          BY <1>3, <3>3, <5>1 DEF Cells
        <5> QED BY <3>2, <4>1, <5>2
      <4>2. CASE Read(wire)[2].of # "length"
        <5>1. PICK k \in Kind : size = ResponseSize[k]
          BY <3>2, <4>2
        <5>2. ResponseSize[k] \in Nat /\ ResponseSize[k] # 0
          BY SpiAssumption
        <5> QED BY <5>1, <5>2
      <4> QED BY <4>1, <4>2
    <3>5. Read(wire)[2].of = "length" => size = Read(wire)[2].i
      BY <3>2
    <3> QED BY <1>1, <2>1, <2>3, <3>2, <3>4, <3>5 DEF DackRead
  <2>4. CASE ~ (Read(wire)[1].of = "response" /\ Read(wire)[1].i = 1)
             /\ Read(wire)[1] # Lone("nack")
    BY <1>1, <1>5, <2>1, <2>4 DEF DackRead
  <2> QED BY <2>2, <2>3, <2>4
<1> QED BY <1>4, <1>5

LEMMA FirstCells ==
    ASSUME NEW cells \in Seq(Cells), NEW size \in 1 .. Len(cells)
    PROVE  /\ SubSeq(cells, 1, size) \in Seq(Cells) /\ Len(SubSeq(cells, 1, size)) = size
           /\ \A i \in 1 .. size : SubSeq(cells, 1, size)[i] = cells[i]
OBVIOUS

\* The response is one.
LEMMA ResponseIs ==
    ASSUME NEW cells \in Seq(Cells), NEW r \in Nat, NEW n \in Nat, n > 0, Len(cells) = n,
           \A i \in 1 .. n : cells[i] = Response(r, n)[i]
    PROVE  IsResponse(cells)
<1>1. /\ Response(r, n) \in Seq(Cells) /\ Len(Response(r, n)) = n
      /\ Response(r, n)[1].call = r
  <2>1. 1 \in 1 .. n
    OBVIOUS
  <2> QED BY <2>1, ResponsesAre
<1>2. cells = Response(r, n)
  BY <1>1, SeqEqual
<1>3. cells[1].call = r
  BY <1>1
<1> QED BY <1>2, <1>3 DEF IsResponse

LEMMA ResponseStarts ==
    ASSUME NEW r \in Nat, NEW k \in Kind
    PROVE  /\ ResponseSize[k] \in Nat /\ ResponseSize[k] > 0 /\ ResponseSize[k] >= 2
           /\ Response(r, ResponseSize[k])[1].of = "response"
           /\ Response(r, ResponseSize[k])[1].i = 1
           /\ Response(r, ResponseSize[k])[2].of = "length"
           /\ Response(r, ResponseSize[k])[2].i = ResponseSize[k]
<1> DEFINE n == ResponseSize[k]
<1>1. n \in Nat /\ n > 0 /\ n >= 2
  BY SpiAssumption
<1> HIDE DEF n
<1>2. 1 \in 1 .. n /\ 2 \in 1 .. n
  BY <1>1
<1>3. \A j \in 1 .. n :
         /\ Response(r, n)[j].of = IF j = 2 THEN "length" ELSE "response"
         /\ Response(r, n)[j].i = IF j = 2 THEN n ELSE j
  <2>1. n \in Nat
    BY <1>1
  <2> QED BY <2>1, ResponsesAre
<1> QED BY <1>1, <1>2, <1>3 DEF n

LEMMA DackStaysSmooth ==
    ASSUME SpiInv, phase = "dack", NEW wire \in Wire,
           Clock(Lone("poll"), wire), DackRead(wire)
    PROVE  IsAnswered'
<1> SUFFICES ASSUME Smooth'
             PROVE  \E k \in Kind : OnItsWay(ResponseSize[k])' \/ WasRead(ResponseSize[k])'
  BY DEF IsAnswered
<1>1. Lone("poll") \in Cells
  BY LonesAre DEF Parts
<1>2. /\ CellSent \/ CellReceived(Lone("poll")) \/ CellLost
      /\ spi_state' = spi_state /\ runs' = runs
      /\ call' = call /\ ran' = ran /\ before' = before
      /\ faults' = before => faults = before /\ wire = "good"
  BY <1>1, ClockIs DEF SpiInv
<1>3. Smooth /\ wire = "good" /\ phase' # "idle"
  BY <1>2 DEF Smooth
<1>4. PICK k \in Kind : OnItsWay(ResponseSize[k]) \/ WasRead(ResponseSize[k])
  BY <1>3 DEF SpiInv, IsAnswered
<1> DEFINE n == ResponseSize[k]
           cells == Read(wire)
<1>5. /\ got \in Seq(Cells) /\ Len(got) \in Nat /\ Len(got) < PollSize
      /\ PollSize \in Nat /\ PollSize >= 2 /\ runs \in Nat
  BY SpiAssumption DEF SpiInv, Shape, HostShape, PandaShape, InTurn
<1>6. /\ n \in Nat /\ n > 0 /\ n >= 2
      /\ Response(runs, n)[1].of = "response" /\ Response(runs, n)[1].i = 1
      /\ Response(runs, n)[2].of = "length" /\ Response(runs, n)[2].i = n
  BY <1>5, ResponseStarts
<1> HIDE DEF n
<1>7. /\ \A i \in 1 .. n : i <= Len(got) + 1 => cells[i] = Response(runs, n)[i]
      /\ OnItsWay(n) => /\ cells \o Tail(tx) = Response(runs, n)
                        /\ IF Tail(tx) = <<>> THEN n = Len(got) + 1
                                              ELSE n > Len(got) + 1
      /\ WasRead(n) => n <= Len(got) /\ Begins(Response(runs, n), cells)
  BY <1>3, <1>4, <1>6, SmoothRead DEF n
<1>8. cells \in Seq(Cells) /\ Len(cells) = Len(got) + 1
  BY ReadsAreOurs
<1>9. OnItsWay(n) \/ WasRead(n)
  BY <1>4 DEF n
<1> HIDE DEF cells
<1>10. Response(runs, n) \in Seq(Cells) /\ Len(Response(runs, n)) = n
  <2>1. n \in Nat /\ runs \in Nat
    BY <1>5, <1>6
  <2> QED BY <2>1, ResponsesAre
<1>11. OnItsWay(n) => tx' = Tail(tx)
  BY <1>2 DEF OnItsWay, CellSent, CellReceived, CellLost
<1>12. CASE /\ Len(got) + 1 < PollSize
            /\ got' = cells /\ phase' = phase /\ polls' = polls
  <2>1. phase' = "dack" /\ polls' = 0
    BY <1>9, <1>12 DEF OnItsWay, WasRead
  <2>2. CASE OnItsWay(n) /\ Tail(tx) # <<>>
    <3>1. got' \o tx' = Response(runs', n)
      BY <1>2, <1>7, <1>11, <1>12, <2>2
    <3>2. OnItsWay(n)'
      BY <1>2, <1>11, <2>1, <2>2, <3>1 DEF OnItsWay
    <3> QED BY <3>2 DEF n
  <2>3. CASE OnItsWay(n) /\ Tail(tx) = <<>>
    <3>1. n = Len(got) + 1
      BY <1>7, <2>3
    <3>2. Begins(Response(runs, n), cells)
      BY <1>5, <1>6, <1>7, <1>8, <1>10, <3>1 DEF Begins
    <3>3. Begins(Response(runs', n), got')
      BY <1>2, <1>12, <3>2
    <3>4. spi_state' = "DATA_TX" /\ tx' = <<>>
      BY <1>2, <1>11, <2>3 DEF OnItsWay
    <3>5. WasRead(n)'
      BY <2>1, <3>3, <3>4 DEF WasRead
    <3> QED BY <3>5 DEF n
  <2>4. CASE WasRead(n)
    <3>1. Begins(Response(runs', n), got')
      BY <1>2, <1>7, <1>12, <2>4
    <3>2. tx = <<>> => tx' = <<>>
      BY <1>2 DEF CellSent, CellReceived, CellLost
    <3>3. WasRead(n)'
      BY <1>2, <2>1, <2>4, <3>1, <3>2 DEF WasRead
    <3> QED BY <3>3 DEF n
  <2> QED BY <1>9, <2>2, <2>3, <2>4
<1>13. ASSUME Len(got) + 1 = PollSize
       PROVE  /\ cells[1].of = "response" /\ cells[1].i = 1 /\ cells[1] # Lone("nack")
              /\ cells[2].of = "length" /\ cells[2].i = n
  <2>1. 1 \in 1 .. n /\ 2 \in 1 .. n /\ 1 <= Len(got) + 1 /\ 2 <= Len(got) + 1
    BY <1>5, <1>6, <1>13
  <2>2. cells[1] = Response(runs, n)[1] /\ cells[2] = Response(runs, n)[2]
    BY <1>7, <2>1
  <2>3. Lone("nack").of = "nack"
    BY LonesAre DEF Parts
  <2> QED BY <1>6, <2>2, <2>3
<1>14. CASE /\ Len(got) + 1 = PollSize
            /\ IF n <= PollSize
               THEN Finish(SubSeq(cells, 1, n))
               ELSE /\ phase' = "rest" /\ got' = cells /\ expected' = n
                    /\ polls' = polls
  <2>1. CASE n <= PollSize
    <3>1. n \in 1 .. Len(cells) /\ 1 \in 1 .. n
      BY <1>5, <1>6, <1>8, <1>14, <2>1
    <3>2. /\ SubSeq(cells, 1, n) \in Seq(Cells) /\ Len(SubSeq(cells, 1, n)) = n
          /\ \A i \in 1 .. n : SubSeq(cells, 1, n)[i] = cells[i]
      BY <1>8, <3>1, FirstCells
    <3>3. \A i \in 1 .. n : i <= Len(got) + 1
      BY <1>5, <1>6, <1>8, <3>1
    <3>4. \A i \in 1 .. n : SubSeq(cells, 1, n)[i] = Response(runs, n)[i]
      BY <1>7, <3>2, <3>3
    <3>5. IsResponse(SubSeq(cells, 1, n))
      BY <1>5, <1>6, <3>2, <3>4, ResponseIs
    <3>6. phase' = "idle"
      BY <1>14, <2>1, <3>5 DEF Finish
    <3> QED BY <1>3, <3>6
  <2>2. CASE n > PollSize
    <3>1. OnItsWay(n)
      BY <1>5, <1>6, <1>7, <1>9, <1>14, <2>2
    <3>2. Tail(tx) # <<>>
      BY <1>5, <1>6, <1>7, <1>14, <2>2, <3>1
    <3>3. phase' = "rest" /\ got' = cells /\ expected' = n /\ polls' = 0
      BY <1>5, <1>6, <1>14, <2>2, <3>1 DEF OnItsWay
    <3>4. got' \o tx' = Response(runs', n)
      BY <1>2, <1>7, <1>11, <3>1, <3>3
    <3>5. OnItsWay(n)'
      BY <1>2, <1>11, <3>1, <3>2, <3>3, <3>4 DEF OnItsWay
    <3> QED BY <3>5 DEF n
  <2> QED BY <1>5, <1>6, <2>1, <2>2
<1> QED BY <1>12, <1>13, <1>14 DEF DackRead, cells

\* While nothing is sent the host reads nothing it would take for an answer.
LEMMA DackStaysSilent ==
    ASSUME SpiInv, phase = "dack", tx = <<>>, Silent(got), NEW wire \in Wire, DackRead(wire)
    PROVE  phase' = "dack" /\ Silent(got')
<1>1. Silent(Read(wire))
  <2>1. In(wire) \in {Lone("idle"), Lone("junk")}
    BY InIs DEF SpiInv, Shape, PandaShape
  <2>2. Lone("idle").of = "idle" /\ Lone("junk").of = "junk"
    BY LonesAre DEF Parts
  <2>3. /\ Len(Read(wire)) = Len(got) + 1 /\ Read(wire)[Len(got) + 1] = In(wire)
        /\ \A j \in 1 .. Len(got) : Read(wire)[j] = got[j]
    BY ReadsAreOurs
  <2>4. \A j \in 1 .. Len(got) + 1 : j = Len(got) + 1 \/ j \in 1 .. Len(got)
    BY DEF SpiInv, Shape, HostShape
  <2> QED BY <2>1, <2>2, <2>3, <2>4 DEF Silent
<1>2. Read(wire)[1].of \in {"idle", "junk"}
  <2>1. 1 \in 1 .. Len(Read(wire))
    BY ReadsAreOurs DEF SpiInv, Shape, HostShape
  <2> QED BY <1>1, <2>1 DEF Silent
<1>3. Lone("nack").of = "nack"
  BY LonesAre DEF Parts
<1>4. Silent(<<>>)
  BY DEF Silent
<1> QED BY <1>1, <1>2, <1>3, <1>4 DEF DackRead

LEMMA PollDackKeeps == NoDataIsLikeAHeader /\ SpiInv /\ PollDack => SpiInv' /\ Returns
<1> SUFFICES ASSUME NoDataIsLikeAHeader, SpiInv, PollDack PROVE SpiInv' /\ Returns
  OBVIOUS
<1>1. PICK wire \in Wire : Clock(Lone("poll"), wire) /\ DackRead(wire)
  BY PollDackIs
<1>2. phase = "dack" /\ Lone("poll") \in Cells /\ Shape /\ Dma
  BY LonesAre DEF PollDack, Parts, SpiInv
<1>3. /\ PandaShape' /\ Dma' /\ AckIsOurs' /\ IsAnswered'
      /\ call' = call /\ kind' = kind /\ runs' = runs /\ ran' = ran
      /\ spi_state' = spi_state
  BY <1>1, <1>2, WireShape, AckIsTaken, DackStaysSmooth, ClockIs
<1>4. HeaderIsSent' /\ DataIsSent'
  BY <1>1, <1>2, HeaderGrows, DataGrows, DackStaysSilent
<1>5. /\ Read(wire) \in Seq(Cells) /\ Len(Read(wire)) = Len(got) + 1
      /\ \A j \in 1 .. Len(got) + 1 : Answers(Read(wire)[j]) =>
            ran = call /\ Read(wire)[j].call = runs /\ Read(wire)[j].i > 0
  BY <1>1, <1>2, ReadsAreOurs
<1>6. /\ Len(got) \in Nat /\ clocked \in Nat /\ PollSize \in Nat /\ 0 < PollSize
      /\ HeaderSize \in Nat /\ 0 < HeaderSize /\ call > 0 /\ expected = PollSize
      /\ polls \in 0 .. Patience /\ Patience \in Nat /\ expected \in Nat
      /\ answer \in Nat /\ answer <= runs
  BY <1>2, SpiAssumption DEF SpiInv, Shape, HostShape, InTurn
<1>7. spi_state = "DATA_TX" => ran = call
  BY <1>2 DEF SpiInv, AnswersAreOurs
<1>8. ASSUME phase' \in {"dack", "rest"}, got' \in {Read(wire), <<>>}
      PROVE  AnswersAreOurs'
  <2>1. \A i \in 1 .. Len(got') : Answers(got'[i]) =>
           ran = call /\ got'[i].call = runs /\ got'[i].i > 0
    BY <1>5, <1>8
  <2> QED BY <1>3, <1>7, <2>1 DEF AnswersAreOurs, Answers
<1>9. ASSUME phase' \in {"idle", "header"}, Returns,
             clocked' = 0, polls' \in 0 .. Patience, got' \in Seq(Cells),
             expected' = PollSize, Len(got') < expected', answer' \in Nat, answer' <= runs
      PROVE  SpiInv' /\ Returns
  <2>1. HostShape' /\ InTurn'
    BY <1>3, <1>6, <1>9 DEF HostShape, InTurn
  <2>2. DataIsAwaited' /\ AnswersAreOurs'
    BY <1>9 DEF DataIsAwaited, AnswersAreOurs
  <2> QED BY <1>3, <1>4, <1>9, <2>1, <2>2 DEF SpiInv, Shape
<1>10. ASSUME phase' \in {"dack", "rest"}, got' \in {Read(wire), <<>>},
              clocked' \in Nat, polls' \in 0 .. Patience, expected' \in Nat,
              Len(got') < expected', phase' # "rest" => expected' = PollSize,
              answer' = answer
       PROVE  SpiInv' /\ Returns
  <2>1. got' \in Seq(Cells)
    BY <1>5, <1>10, EmptySeq
  <2>2. HostShape' /\ InTurn'
    BY <1>3, <1>6, <1>10, <2>1 DEF HostShape, InTurn
  <2>3. DataIsAwaited' /\ Returns
    BY <1>10 DEF DataIsAwaited, Returns
  <2> QED BY <1>3, <1>4, <1>8, <1>10, <2>2, <2>3 DEF SpiInv, Shape
<1>11. CASE /\ Len(got) + 1 < PollSize
            /\ got' = Read(wire) /\ clocked' = clocked + 1 /\ phase' = phase
            /\ expected' = expected /\ polls' = polls /\ answer' = answer
  <2>1. Len(got') < expected' /\ clocked' \in Nat
    BY <1>5, <1>6, <1>11
  <2> QED BY <1>2, <1>6, <1>10, <1>11, <2>1
<1>12. CASE Go("header") /\ answer' = answer
  BY <1>6, <1>9, <1>12, GoIs DEF Returns
<1>13. CASE /\ Len(got) + 1 = PollSize
            /\ \E size \in Nat :
                  /\ size > 0
                  /\ IF size <= PollSize
                     THEN Finish(SubSeq(Read(wire), 1, size))
                     ELSE /\ phase' = "rest" /\ got' = Read(wire) /\ expected' = size
                          /\ clocked' = 0 /\ polls' = polls /\ answer' = answer
  <2>1. PICK size \in Nat :
            /\ size > 0
            /\ IF size <= PollSize
               THEN Finish(SubSeq(Read(wire), 1, size))
               ELSE /\ phase' = "rest" /\ got' = Read(wire) /\ expected' = size
                    /\ clocked' = 0 /\ polls' = polls /\ answer' = answer
    BY <1>13
  <2>2. CASE size <= PollSize
    <3> DEFINE cells == SubSeq(Read(wire), 1, size)
    <3>1. size \in 1 .. Len(Read(wire)) /\ 1 \in 1 .. size
      BY <1>5, <1>6, <1>13, <2>1, <2>2
    <3>2. cells \in Seq(Cells) /\ Len(cells) > 0 /\ cells[1] = Read(wire)[1]
      BY <1>5, <2>1, <3>1, FirstCells
    <3>3. Finish(cells)
      BY <2>1, <2>2
    <3> HIDE DEF cells
    <3> QED BY <1>2, <1>9, <3>2, <3>3, FinishIs
  <2>3. CASE ~ (size <= PollSize)
    <3>1. Len(got') < expected'
      BY <1>5, <1>6, <1>13, <2>1, <2>3
    <3> QED BY <1>6, <1>10, <2>1, <2>3, <3>1
  <2> QED BY <2>2, <2>3
<1>14. CASE /\ Unanswered /\ got' = <<>> /\ clocked' = 0
            /\ phase' = phase /\ expected' = expected /\ answer' = answer
  <2>1. polls' \in 0 .. Patience
    BY <1>6, <1>14 DEF Unanswered
  <2>2. Len(got') < expected'
    BY <1>6, <1>14, EmptySeq
  <2> QED BY <1>2, <1>6, <1>10, <1>14, <2>1, <2>2
<1> QED BY <1>1, <1>11, <1>12, <1>13, <1>14 DEF DackRead

LEMMA ReadRestKeeps == NoDataIsLikeAHeader /\ SpiInv /\ ReadRest => SpiInv' /\ Returns
<1> SUFFICES ASSUME NoDataIsLikeAHeader, SpiInv, ReadRest PROVE SpiInv' /\ Returns
  OBVIOUS
<1>1. PICK wire \in Wire :
          /\ Clock(Lone("poll"), wire)
          /\ IF Len(Read(wire)) < expected
             THEN /\ got' = Read(wire) /\ clocked' = clocked + 1
                  /\ UNCHANGED <<phase, expected, polls, answer>>
             ELSE Finish(Read(wire))
  BY DEF ReadRest, Read
<1>2. phase = "rest" /\ Lone("poll") \in Cells /\ Shape /\ Dma
  BY LonesAre DEF ReadRest, Parts, SpiInv
<1>3. /\ PandaShape' /\ Dma' /\ AckIsOurs'
      /\ call' = call /\ kind' = kind /\ runs' = runs /\ ran' = ran
      /\ spi_state' = spi_state /\ before' = before
      /\ faults' = before => faults = before /\ wire = "good"
      /\ CellSent \/ CellReceived(Lone("poll")) \/ CellLost
  BY <1>1, <1>2, WireShape, AckIsTaken, ClockIs
<1>4. HeaderIsSent' /\ DataIsSent'
  BY <1>1, <1>2, HeaderGrows, DataGrows
<1>5. /\ Read(wire) \in Seq(Cells) /\ Len(Read(wire)) = Len(got) + 1
      /\ \A j \in 1 .. Len(got) + 1 : Answers(Read(wire)[j]) =>
            ran = call /\ Read(wire)[j].call = runs /\ Read(wire)[j].i > 0
  BY <1>1, <1>2, ReadsAreOurs
<1>6. /\ Len(got) \in Nat /\ clocked \in Nat /\ PollSize \in Nat /\ 0 < PollSize
      /\ HeaderSize \in Nat /\ 0 < HeaderSize /\ call > 0 /\ Len(got) < expected
      /\ polls \in 0 .. Patience /\ Patience \in Nat /\ expected \in Nat
      /\ answer \in Nat /\ answer <= runs
  BY <1>2, SpiAssumption DEF SpiInv, Shape, HostShape, InTurn
<1>7. spi_state = "DATA_TX" => ran = call
  BY <1>2 DEF SpiInv, AnswersAreOurs
\* While nothing goes wrong, the rest is that of the response.
<1>8. Smooth' => \E k \in Kind :
         /\ OnItsWay(ResponseSize[k]) /\ expected = ResponseSize[k]
         /\ wire = "good" /\ tx' = Tail(tx)
  <2> SUFFICES ASSUME Smooth'
               PROVE  \E k \in Kind :
                          /\ OnItsWay(ResponseSize[k]) /\ expected = ResponseSize[k]
                          /\ wire = "good" /\ tx' = Tail(tx)
    OBVIOUS
  <2>1. Smooth /\ wire = "good"
    BY <1>2, <1>3 DEF Smooth
  <2>2. PICK k \in Kind : OnItsWay(ResponseSize[k])
    BY <1>2, <2>1 DEF SpiInv, IsAnswered, WasRead
  <2> QED BY <1>2, <1>3, <2>1, <2>2 DEF OnItsWay, CellSent, CellReceived, CellLost
<1>9. CASE /\ Len(got) + 1 < expected
           /\ got' = Read(wire) /\ clocked' = clocked + 1
           /\ UNCHANGED <<phase, expected, polls, answer>>
  <2>1. HostShape' /\ InTurn' /\ DataIsAwaited' /\ Returns
    BY <1>2, <1>3, <1>5, <1>6, <1>9 DEF HostShape, InTurn, DataIsAwaited, Returns
  <2>2. AnswersAreOurs'
    <3>1. \A i \in 1 .. Len(got') : Answers(got'[i]) =>
             ran = call /\ got'[i].call = runs /\ got'[i].i > 0
      BY <1>5, <1>9
    <3> QED BY <1>3, <1>7, <3>1 DEF AnswersAreOurs, Answers
  <2>3. IsAnswered'
    <3> SUFFICES ASSUME Smooth'
                 PROVE  \E k \in Kind : OnItsWay(ResponseSize[k])'
      BY DEF IsAnswered
    <3>1. PICK k \in Kind : /\ OnItsWay(ResponseSize[k]) /\ expected = ResponseSize[k]
                            /\ wire = "good" /\ tx' = Tail(tx)
      BY <1>8
    <3>2. ResponseSize[k] \in Nat /\ ResponseSize[k] > 0
      BY SpiAssumption
    <3>3. /\ Read("good") \o Tail(tx) = Response(runs, ResponseSize[k])
          /\ Tail(tx) = <<>> => ResponseSize[k] = Len(got) + 1
      BY <1>2, <3>1, <3>2, SmoothRead
    <3>4. Tail(tx) # <<>>
      BY <1>6, <1>9, <3>1, <3>3
    <3>5. got' \o tx' = Response(runs', ResponseSize[k])
      BY <1>3, <1>9, <3>1, <3>3
    <3> QED BY <1>2, <1>3, <1>9, <3>1, <3>4, <3>5 DEF OnItsWay
  <2> QED BY <1>3, <1>4, <2>1, <2>2, <2>3 DEF SpiInv, Shape
<1>10. CASE Len(got) + 1 = expected /\ Finish(Read(wire))
  <2>1. Len(Read(wire)) > 0
    BY <1>5, <1>6
  <2>2. /\ phase' = IF IsResponse(Read(wire)) THEN "idle" ELSE "header"
        /\ Returns /\ clocked' = 0 /\ polls' \in 0 .. Patience
        /\ got' \in Seq(Cells) /\ expected' = PollSize /\ Len(got') < expected'
        /\ answer' \in Nat /\ answer' <= runs
    BY <1>2, <1>5, <1>10, <2>1, FinishIs
  <2>3. HostShape' /\ InTurn' /\ DataIsAwaited' /\ AnswersAreOurs'
    BY <1>3, <1>6, <2>2 DEF HostShape, InTurn, DataIsAwaited, AnswersAreOurs
  <2>4. IsAnswered'
    <3> SUFFICES ASSUME Smooth' PROVE FALSE
      BY DEF IsAnswered
    <3>1. PICK k \in Kind : /\ OnItsWay(ResponseSize[k]) /\ expected = ResponseSize[k]
                            /\ wire = "good"
      BY <1>8
    <3>2. ResponseSize[k] \in Nat /\ ResponseSize[k] > 0 /\ runs \in Nat
      BY <1>2, SpiAssumption DEF Shape, PandaShape
    <3>3. \A i \in 1 .. ResponseSize[k] : i <= Len(got) + 1 =>
             Read("good")[i] = Response(runs, ResponseSize[k])[i]
      BY <1>2, <3>1, <3>2, SmoothRead
    <3>4. \A i \in 1 .. ResponseSize[k] : i <= Len(got) + 1
      BY <1>6, <1>10, <3>1
    <3>5. IsResponse(Read(wire))
      BY <1>5, <1>10, <3>1, <3>2, <3>3, <3>4, ResponseIs
    <3> QED BY <2>2, <3>5 DEF Smooth
  <2> QED BY <1>3, <1>4, <2>2, <2>3, <2>4 DEF SpiInv, Shape
<1>11. Len(got) + 1 < expected \/ Len(got) + 1 = expected
  BY <1>6
<1> QED BY <1>1, <1>5, <1>6, <1>9, <1>10, <1>11

-----------------------------------------------------------------------------
(* SPI: the host between its reads *)

LEMMA SpiStarts == SpiInit => SpiInv
<1> SUFFICES ASSUME SpiInit PROVE SpiInv
  OBVIOUS
<1>1. /\ PollSize \in Nat /\ 0 < PollSize /\ HeaderSize \in Nat /\ 0 < HeaderSize
      /\ 0 \in 0 .. Patience /\ 0 \in 0 .. MaxFaults /\ 0 \in Nat
  BY SpiAssumption
<1>2. <<>> \in Seq(Cells) /\ Len(<<>>) = 0
  BY EmptySeq
<1>3. HostShape
  BY <1>1, <1>2 DEF SpiInit, HostShape
<1>4. PandaShape
  <2>1. header \in [call : Nat, kind : Kind] /\ header.call = 0
    BY <1>1 DEF SpiInit, NoCall
  <2>2. /\ call = 0 /\ kind \in Kind /\ spi_state = "HEADER" /\ rx = <<>>
        /\ rx_left = HeaderSize /\ tx = <<>> /\ done = "none" /\ late = FALSE
        /\ calm = FALSE /\ faults = 0 /\ before = 0 /\ runs = 0 /\ ran = 0
    BY DEF SpiInit, NoCall
  <2>3. 0 <= 0
    OBVIOUS
  <2> QED BY <1>1, <1>2, <2>1, <2>2, <2>3 DEF PandaShape
<1>5. Dma
  BY <1>1, <1>2 DEF SpiInit, Dma, Receiving, Wanted
<1>6. InTurn
  BY <1>1, <1>2 DEF SpiInit, InTurn
<1>7. AckIsOurs /\ DataIsAwaited /\ AnswersAreOurs /\ IsAnswered
  BY DEF SpiInit, AckIsOurs, DataIsAwaited, AnswersAreOurs, IsAnswered, Smooth
<1>8. HeaderIsSent /\ DataIsSent
  BY <1>2 DEF SpiInit, HeaderIsSent, DataIsSent, Begins
<1> QED BY <1>3, <1>4, <1>5, <1>6, <1>7, <1>8 DEF SpiInv, Shape

LEMMA BeginKeeps == SpiInv /\ Begin => SpiInv'
<1> SUFFICES ASSUME SpiInv, Begin PROVE SpiInv'
  OBVIOUS
<1>1. /\ phase = "idle" /\ call' = call + 1 /\ kind' \in Kind
      /\ Go("header") /\ answer' = 0 /\ before' = faults
      /\ spi_state' = spi_state /\ header' = header /\ rx' = rx /\ rx_left' = rx_left
      /\ tx' = tx /\ done' = done /\ late' = late /\ faults' = faults
      /\ calm' = calm /\ runs' = runs /\ ran' = ran
  BY DEF Begin, panda
<1>2. /\ phase' = "header" /\ clocked' = 0 /\ polls' \in 0 .. Patience
      /\ got' \in Seq(Cells) /\ expected' \in Nat
      /\ expected' = PollSize /\ Len(got') < expected'
  BY <1>1, GoIs
<1>3. /\ HeaderSize \in Nat /\ 0 < HeaderSize /\ call \in Nat /\ runs \in Nat
      /\ ran \in Nat /\ ran <= call /\ header.call \in Nat /\ header.call <= call
      /\ faults \in 0 .. MaxFaults /\ MaxFaults \in Nat
  BY SpiAssumption DEF SpiInv, Shape, PandaShape
<1>4. HostShape'
  BY <1>1, <1>2, <1>3 DEF HostShape
<1>5. PandaShape'
  <2>1. call + 1 \in Nat /\ ran <= call + 1 /\ header.call <= call + 1
        /\ faults \in Nat /\ faults <= faults
    BY <1>3
  <2> QED BY <1>1, <2>1 DEF SpiInv, Shape, PandaShape
<1>6. Dma'
  BY <1>1 DEF SpiInv, Dma, Receiving, Sending, Wanted, Answers
<1>7. InTurn'
  <2>1. call + 1 > 0
    BY <1>3
  <2> QED BY <1>1, <1>2, <1>3, <2>1 DEF InTurn
<1>8. AckIsOurs' /\ DataIsAwaited' /\ AnswersAreOurs'
  BY <1>2 DEF AckIsOurs, DataIsAwaited, AnswersAreOurs
<1>9. HeaderIsSent'
  BY <1>1 DEF SpiInv, HeaderIsSent
<1>10. DataIsSent'
  BY <1>1 DEF SpiInv, DataIsSent
<1>11. IsAnswered'
  <2>1. ran # call + 1
    BY <1>3
  <2> QED BY <1>1, <2>1 DEF IsAnswered, Smooth
<1> QED BY <1>4, <1>5, <1>6, <1>7, <1>8, <1>9, <1>10, <1>11 DEF SpiInv, Shape

\* What began to be received is still being sent, or is whole and waited for.
LEMMA HeaderIsAwaited ==
    ASSUME SpiInv, NEW c \in Nat, spi_state = "HEADER",
           Begins(rx, Packet("header", c, HeaderSize))
    PROVE  IF done = "none" THEN phase = "header" /\ clocked > 0 ELSE phase = "hack"
<1>1. Receiving /\ Len(rx) > 0
  BY DEF SpiInv, Dma, Sending, Begins
<1>2. done = IF rx_left > 0 THEN "none" ELSE "rx"
  BY <1>1 DEF Receiving
<1>3. IF rx_left > 0 THEN phase = "header" /\ clocked = Len(rx) ELSE phase = "hack"
  BY DEF SpiInv, HeaderIsSent
<1> QED BY <1>1, <1>2, <1>3

LEMMA WholeDataIsAwaited ==
    ASSUME SpiInv, NEW c \in Nat, spi_state = "DATA_RX",
           Begins(rx, Packet("data", c, DataSize[header.kind]))
    PROVE  IF done = "none" THEN phase = "data" /\ clocked > 0 ELSE phase = "dack"
<1>1. Receiving /\ Len(rx) > 0
  BY DEF SpiInv, Dma, Sending, Begins
<1>2. done = IF rx_left > 0 THEN "none" ELSE "rx"
  BY <1>1 DEF Receiving
<1>3. IF rx_left > 0 THEN phase = "data" /\ clocked = Len(rx) ELSE phase = "dack"
  BY DEF SpiInv, DataIsSent
<1> QED BY <1>1, <1>2, <1>3

\* A step of the host alone, when no cell of what it sends has arrived.
LEMMA HostAlone ==
    ASSUME SpiInv, UNCHANGED <<call, kind, panda, late, faults, calm, ghosts>>,
           HostShape', InTurn', phase' \in {"idle", "header"}, clocked' = 0,
           phase # "idle", done = "none", clocked = 0, phase # "header" \/ phase' = "idle",
           ~Smooth \/ phase' = "idle"
    PROVE  SpiInv'
<1>1. /\ call' = call /\ kind' = kind
      /\ spi_state' = spi_state /\ header' = header /\ rx' = rx /\ rx_left' = rx_left
      /\ tx' = tx /\ done' = done /\ late' = late /\ faults' = faults
      /\ calm' = calm /\ runs' = runs /\ ran' = ran /\ before' = before
  BY DEF panda, ghosts
<1>2. PandaShape' /\ Dma'
  BY <1>1 DEF SpiInv, Shape, PandaShape, Dma, Receiving, Sending, Wanted, Answers
<1>3. AckIsOurs' /\ DataIsAwaited' /\ AnswersAreOurs'
  BY DEF AckIsOurs, DataIsAwaited, AnswersAreOurs
<1>4. HeaderIsSent'
  <2> SUFFICES ASSUME NEW c \in Nat, spi_state = "HEADER",
                      Begins(rx, Packet("header", c, HeaderSize))
               PROVE  FALSE
    BY <1>1 DEF HeaderIsSent
  <2>1. phase = "header" /\ clocked > 0
    BY HeaderIsAwaited
  <2> QED BY <2>1
<1>5. DataIsSent'
  <2> SUFFICES ASSUME NEW c \in Nat, spi_state = "DATA_RX",
                      Begins(rx, Packet("data", c, DataSize[header.kind]))
               PROVE  FALSE
    BY <1>1 DEF DataIsSent
  <2>1. phase = "data" /\ clocked > 0
    BY WholeDataIsAwaited
  <2> QED BY <2>1
<1>6. IsAnswered'
  <2>1. ASSUME Smooth' PROVE FALSE
    <3>1. phase' = "header" /\ ~Smooth /\ ran = call /\ faults = before
      BY <1>1, <2>1 DEF Smooth
    <3> QED BY <3>1 DEF Smooth
  <2> QED BY <2>1 DEF IsAnswered
<1> QED BY <1>2, <1>3, <1>4, <1>5, <1>6 DEF SpiInv, Shape

LEMMA TimeoutKeeps == SpiInv /\ Timeout => SpiInv'
<1> SUFFICES ASSUME SpiInv, Timeout PROVE SpiInv'
  OBVIOUS
<1>1. /\ phase \in {"hack", "dack"} /\ ~Waiting /\ Go("header")
      /\ UNCHANGED <<call, kind, panda, late, faults, calm, ghosts>>
      /\ call' = call /\ runs' = runs /\ answer' = answer
  BY DEF Timeout, ghosts
<1>2. /\ phase' = "header" /\ clocked' = 0 /\ polls' \in 0 .. Patience
      /\ got' \in Seq(Cells) /\ expected' \in Nat
      /\ expected' = PollSize /\ Len(got') < expected'
  BY <1>1, GoIs
<1>3. /\ HeaderSize \in Nat /\ 0 < HeaderSize /\ Patience \in Nat /\ 0 < Patience
      /\ clocked \in Nat /\ polls \in 0 .. Patience
      /\ answer \in Nat /\ answer <= runs /\ call > 0
  BY <1>1, SpiAssumption DEF SpiInv, Shape, HostShape, InTurn
<1>4. HostShape' /\ InTurn'
  BY <1>1, <1>2, <1>3 DEF HostShape, InTurn
<1>5. polls > 0 /\ done = "none" /\ clocked = 0
  BY <1>1, <1>3 DEF Waiting
<1>6. ~Smooth
  BY <1>5 DEF SpiInv, IsAnswered, OnItsWay, WasRead
<1> QED BY <1>1, <1>2, <1>4, <1>5, <1>6, HostAlone

LEMMA GiveUpKeeps == SpiInv /\ GiveUp => SpiInv'
<1> SUFFICES ASSUME SpiInv, GiveUp PROVE SpiInv'
  OBVIOUS
<1>1. /\ phase # "idle" /\ clocked = 0 /\ done = "none"
      /\ phase' = "idle" /\ got' = <<>> /\ expected' = PollSize /\ polls' = 0
      /\ clocked' = clocked
      /\ UNCHANGED <<call, kind, panda, late, faults, calm, ghosts>>
      /\ runs' = runs /\ answer' = answer
  BY DEF GiveUp, ghosts
<1>2. /\ PollSize \in Nat /\ 0 < PollSize /\ 0 \in 0 .. Patience
      /\ answer \in Nat /\ answer <= runs
  BY SpiAssumption DEF SpiInv, Shape, HostShape
<1>3. <<>> \in Seq(Cells) /\ Len(<<>>) = 0
  BY EmptySeq
<1>4. HostShape' /\ InTurn'
  BY <1>1, <1>2, <1>3 DEF HostShape, InTurn
<1> QED BY <1>1, <1>4, HostAlone

LEMMA CalmKeeps == SpiInv /\ (Calm \/ UNCHANGED spiVars) => SpiInv'
<1> SUFFICES ASSUME SpiInv, Calm \/ UNCHANGED spiVars PROVE SpiInv'
  OBVIOUS
<1>1. /\ call' = call /\ kind' = kind /\ phase' = phase /\ clocked' = clocked
      /\ got' = got /\ expected' = expected /\ polls' = polls
      /\ spi_state' = spi_state /\ header' = header /\ rx' = rx /\ rx_left' = rx_left
      /\ tx' = tx /\ done' = done /\ late' = late /\ faults' = faults
      /\ runs' = runs /\ ran' = ran /\ before' = before /\ answer' = answer
      /\ (calm' = calm \/ calm' = TRUE)
  BY DEF Calm, spiVars, host, panda, ghosts
<1>2. HostShape' /\ PandaShape'
  BY <1>1 DEF SpiInv, Shape, HostShape, PandaShape
<1>3. Dma'
  BY <1>1 DEF SpiInv, Dma, Receiving, Sending, Wanted, Answers
<1>4. InTurn' /\ AckIsOurs' /\ DataIsAwaited'
  BY <1>1 DEF SpiInv, InTurn, AckIsOurs, DataIsAwaited, Ours
<1>5. HeaderIsSent' /\ DataIsSent'
  BY <1>1 DEF SpiInv, HeaderIsSent, DataIsSent, Ours, Silent
<1>6. AnswersAreOurs'
  BY <1>1 DEF SpiInv, AnswersAreOurs, Answers
<1>7. IsAnswered'
  BY <1>1 DEF SpiInv, IsAnswered, Smooth, OnItsWay, WasRead
<1> QED BY <1>2, <1>3, <1>4, <1>5, <1>6, <1>7 DEF SpiInv, Shape

-----------------------------------------------------------------------------
(* SPI: the panda *)

\* A handler does not touch the host, and arms the DMA anew.
LEMMA HandlerKeeps ==
    ASSUME SpiInv, Handled, PandaShape', Dma', rx' = <<>>,
           answer <= runs', AckIsOurs', DataIsAwaited', AnswersAreOurs', IsAnswered'
    PROVE  SpiInv'
<1>1. /\ call' = call /\ kind' = kind /\ phase' = phase /\ clocked' = clocked
      /\ got' = got /\ expected' = expected /\ polls' = polls /\ answer' = answer
  BY DEF Handled, host
<1>2. HostShape' /\ InTurn'
  BY <1>1 DEF SpiInv, Shape, HostShape, InTurn
<1>3. Len(rx') = 0
  BY EmptySeq
<1>4. HeaderIsSent' /\ DataIsSent'
  BY <1>3 DEF HeaderIsSent, DataIsSent, Begins
<1> QED BY <1>2, <1>4 DEF SpiInv, Shape

\* A NACK is sent whatever came before, unless the call was carried out.
LEMMA NackKeeps ==
    ASSUME SpiInv, Handled, done = "rx", Send("HEADER_NACK", <<Lone("nack")>>),
           header' = header, runs' = runs, ran' = ran, phase # "data"
    PROVE  SpiInv'
<1>1. /\ call' = call /\ kind' = kind /\ phase' = phase /\ clocked' = clocked
      /\ got' = got /\ expected' = expected /\ polls' = polls /\ answer' = answer
      /\ done' = "none" /\ late' = FALSE /\ faults' = faults /\ calm' = calm
      /\ before' = before
      /\ spi_state' = "HEADER_NACK" /\ tx' = <<Lone("nack")>> /\ rx' = <<>>
      /\ rx_left' = rx_left
  BY DEF Handled, host, Send
<1>2. Receiving /\ rx_left = 0
  <2>1. Receiving
    BY DEF SpiInv, Dma, Sending
  <2> QED BY <2>1 DEF Receiving, SpiInv, Shape, PandaShape
<1>3. Lone("nack") \in Cells /\ <<>> \in Seq(Cells)
  BY LonesAre DEF Parts
<1>4. <<Lone("nack")>> \in Seq(Cells) /\ <<Lone("nack")>> # <<>>
  BY <1>3
<1>5. PandaShape'
  BY <1>1, <1>3, <1>4 DEF SpiInv, Shape, PandaShape
<1>6. Dma'
  BY <1>1, <1>2, <1>4 DEF Dma, Sending
<1>7. AckIsOurs' /\ DataIsAwaited'
  BY <1>1 DEF AckIsOurs, DataIsAwaited
<1>8. AnswersAreOurs'
  BY <1>1 DEF SpiInv, AnswersAreOurs, Answers
<1>9. IsAnswered'
  <2> SUFFICES ASSUME Smooth' PROVE \E k \in Kind : WasRead(ResponseSize[k])'
    BY DEF IsAnswered
  <2>1. Smooth
    BY <1>1 DEF Smooth
  <2>2. PICK k \in Kind : OnItsWay(ResponseSize[k]) \/ WasRead(ResponseSize[k])
    BY <2>1 DEF SpiInv, IsAnswered
  <2>3. ~OnItsWay(ResponseSize[k])
    BY <1>2 DEF OnItsWay, Receiving
  <2>4. WasRead(ResponseSize[k])'
    BY <1>1, <2>2, <2>3 DEF WasRead
  <2> QED BY <2>4
<1>10. answer <= runs'
  BY DEF SpiInv, Shape, HostShape
<1> QED BY <1>1, <1>5, <1>6, <1>7, <1>8, <1>9, <1>10, HandlerKeeps

LEMMA RxHeaderKeeps == SpiInv /\ RxHeader => SpiInv'
<1> SUFFICES ASSUME SpiInv, RxHeader PROVE SpiInv'
  OBVIOUS
<1>1. /\ done = "rx" /\ spi_state = "HEADER" /\ Handled /\ runs' = runs /\ ran' = ran
      /\ IF rx = Packet("header", call, HeaderSize)
         THEN header' = Ours /\ Send("HEADER_ACK", <<Lone("hack")>>)
         ELSE Send("HEADER_NACK", <<Lone("nack")>>) /\ header' = header
  BY DEF RxHeader, Ours
<1>2. phase # "data"
  BY <1>1 DEF SpiInv, DataIsAwaited
<1>3. CASE rx # Packet("header", call, HeaderSize)
  BY <1>1, <1>2, <1>3, NackKeeps
<1>4. CASE rx = Packet("header", call, HeaderSize)
  <2>1. /\ call' = call /\ kind' = kind /\ phase' = phase /\ clocked' = clocked
        /\ got' = got /\ expected' = expected /\ polls' = polls /\ answer' = answer
        /\ done' = "none" /\ late' = FALSE /\ faults' = faults /\ calm' = calm
        /\ before' = before
        /\ spi_state' = "HEADER_ACK" /\ tx' = <<Lone("hack")>> /\ rx' = <<>>
        /\ rx_left' = rx_left /\ header' = Ours
    BY <1>1, <1>4 DEF Handled, host, Send
  <2>2. call \in Nat /\ kind \in Kind /\ HeaderSize \in Nat /\ HeaderSize > 0
    BY SpiAssumption DEF SpiInv, Shape, PandaShape
  <2>3. phase = "hack"
    <3>1. /\ Len(Packet("header", call, HeaderSize)) = HeaderSize
          /\ Packet("header", call, HeaderSize) \in Seq(Cells)
      BY <2>2, HeadersAre
    <3>2. Begins(rx, Packet("header", call, HeaderSize))
      BY <1>4, <2>2, <3>1 DEF Begins
    <3> QED BY <1>1, <2>2, <3>2, HeaderIsAwaited
  <2>4. Receiving /\ rx_left = 0
    <3>1. Receiving
      BY <1>1 DEF SpiInv, Dma, Sending
    <3> QED BY <1>1, <3>1 DEF Receiving, SpiInv, Shape, PandaShape
  <2>5. Lone("hack") \in Cells /\ <<>> \in Seq(Cells)
    BY LonesAre DEF Parts
  <2>6. <<Lone("hack")>> \in Seq(Cells) /\ <<Lone("hack")>> # <<>>
    BY <2>5
  <2>7. Ours \in [call : Nat, kind : Kind] /\ Ours.call <= call
    BY <2>2 DEF Ours
  <2>8. PandaShape'
    BY <1>1, <2>1, <2>5, <2>6, <2>7 DEF SpiInv, Shape, PandaShape
  <2>9. Dma'
    BY <2>1, <2>4, <2>6 DEF Dma, Sending
  <2>10. AckIsOurs' /\ DataIsAwaited' /\ AnswersAreOurs'
    BY <2>1, <2>3 DEF AckIsOurs, DataIsAwaited, AnswersAreOurs, Ours
  <2>11. IsAnswered'
    <3>1. ~Smooth
      BY <2>3 DEF SpiInv, IsAnswered, OnItsWay, WasRead
    <3>2. ~Smooth'
      BY <1>1, <2>1, <3>1 DEF Smooth
    <3> QED BY <3>2 DEF IsAnswered
  <2>12. answer <= runs'
    BY <1>1 DEF SpiInv, Shape, HostShape
  <2> QED BY <1>1, <2>1, <2>8, <2>9, <2>10, <2>11, <2>12, HandlerKeeps
<1> QED BY <1>3, <1>4

\* What is carried out is the call under way, with its own data.
LEMMA IntactIsOurs ==
    ASSUME NoDataIsLikeAHeader, SpiInv, done = "rx", spi_state = "DATA_RX",
           NEW c \in 1 .. call, Intact(c)
    PROVE  /\ header = Ours /\ phase = "dack" /\ Silent(got)
           /\ faults = before => polls = 0 /\ got = <<>>
           /\ rx = Packet("data", header.call, DataSize[header.kind])
<1> DEFINE n == DataSize[header.kind]
<1>1. /\ n \in Nat /\ n > 0 /\ n # HeaderSize /\ HeaderSize \in Nat /\ c \in Nat
      /\ call \in Nat /\ rx \in Seq(Cells) /\ rx_left \in Nat /\ Len(rx) \in Nat
  BY SpiAssumption DEF SpiInv, Shape, PandaShape, NoDataIsLikeAHeader
<1>2. rx_left = 0 /\ Len(rx) = n
  <2>1. Receiving
    BY DEF SpiInv, Dma, Sending
  <2>2. /\ done = (IF rx_left > 0 THEN "none" ELSE "rx")
        /\ Len(rx) + rx_left = n
    BY <2>1 DEF Receiving, Wanted
  <2>3. rx_left = 0
    BY <1>1, <2>2
  <2> HIDE DEF n
  <2> QED BY <1>1, <2>2, <2>3
<1>3. Len(Packet("header", c, HeaderSize)) = HeaderSize
  BY <1>1, HeadersAre
<1> HIDE DEF n
<1>4. Packet("data", c, n) \in Seq(Cells) /\ Len(Packet("data", c, n)) = n
  <2>1. n \in Nat /\ c \in Nat
    BY <1>1
  <2> QED BY <2>1, DataAre
<1>5. rx = Packet("data", c, n)
  BY <1>1, <1>2, <1>3 DEF Intact
<1>6. Begins(rx, Packet("data", c, DataSize[header.kind]))
  BY <1>1, <1>4, <1>5 DEF Begins, n
<1>7. /\ c = call /\ header = Ours /\ phase = "dack" /\ Silent(got)
      /\ faults = before => polls = 0 /\ got = <<>>
  BY <1>1, <1>2, <1>6 DEF SpiInv, DataIsSent
<1> QED BY <1>5, <1>7 DEF Ours, n

\* The handler of the endpoint ran for the call under way.
Carries == /\ runs' = runs + 1 /\ ran' = call
           /\ phase = "dack" /\ UNCHANGED <<call, phase, answer>>

LEMMA RxDataIs ==
    ASSUME NoDataIsLikeAHeader, SpiInv, RxData
    PROVE  /\ done = "rx" /\ spi_state = "DATA_RX" /\ Handled /\ header' = header
           /\ \/ Refuse
              \/ /\ Carries
                 /\ Send("DATA_TX", Response(runs', ResponseSize[header.kind]))
                 /\ header = Ours /\ Silent(got)
                 /\ faults = before => polls = 0 /\ got = <<>>
<1>1. done = "rx" /\ spi_state = "DATA_RX" /\ Handled /\ header' = header
  BY DEF RxData
<1>2. CASE Refuse
  BY <1>1, <1>2
<1>3. CASE ~Refuse
  <2>1. PICK c \in 1 .. call : Intact(c)
    BY <1>3 DEF RxData
  <2>2. /\ runs' = runs + 1
        /\ ran' = IF rx = Packet("data", header.call, DataSize[header.kind])
                  THEN header.call ELSE NoCall
        /\ Send("DATA_TX", Response(runs', ResponseSize[header.kind]))
    BY <1>3 DEF RxData, Respond
  <2>3. /\ header = Ours /\ phase = "dack" /\ Silent(got)
        /\ faults = before => polls = 0 /\ got = <<>>
        /\ rx = Packet("data", header.call, DataSize[header.kind])
    BY <1>1, <2>1, IntactIsOurs
  <2>4. ran' = call
    BY <2>2, <2>3 DEF Ours
  <2>5. call' = call /\ phase' = phase /\ answer' = answer
    BY <1>1 DEF Handled, host
  <2> QED BY <1>1, <2>2, <2>3, <2>4, <2>5 DEF Carries
<1> QED BY <1>2, <1>3

LEMMA RxDataKeeps == NoDataIsLikeAHeader /\ SpiInv /\ RxData => SpiInv'
<1> SUFFICES ASSUME NoDataIsLikeAHeader, SpiInv, RxData PROVE SpiInv'
  OBVIOUS
<1>1. /\ done = "rx" /\ spi_state = "DATA_RX" /\ Handled /\ header' = header
      /\ \/ Refuse
         \/ /\ Carries
            /\ Send("DATA_TX", Response(runs', ResponseSize[header.kind]))
            /\ header = Ours /\ Silent(got)
            /\ faults = before => polls = 0 /\ got = <<>>
  BY RxDataIs
<1>2. Receiving /\ rx_left = 0
  <2>1. Receiving
    BY <1>1 DEF SpiInv, Dma, Sending
  <2> QED BY <1>1, <2>1 DEF Receiving, SpiInv, Shape, PandaShape
<1>3. CASE Refuse
  <2>1. phase # "data"
    <3> SUFFICES ASSUME phase = "data" PROVE FALSE
      OBVIOUS
    <3>1. header = Ours /\ Len(rx) <= clocked /\ clocked < DataSize[kind]
      BY <1>1 DEF SpiInv, DataIsAwaited, InTurn
    <3>2. Len(rx) + rx_left = DataSize[kind]
      BY <1>1, <1>2, <3>1 DEF Receiving, Wanted, Ours
    <3>3. Len(rx) \in Nat /\ clocked \in Nat /\ DataSize[kind] \in Nat
      BY SpiAssumption DEF SpiInv, Shape, HostShape, PandaShape
    <3> QED BY <1>2, <3>1, <3>2, <3>3
  <2> QED BY <1>1, <1>3, <2>1, NackKeeps DEF Refuse
<1>4. CASE ~Refuse
  <2> DEFINE n == ResponseSize[header.kind]
             response == Response(runs', n)
  <2>1. /\ call' = call /\ kind' = kind /\ phase' = phase /\ clocked' = clocked
        /\ got' = got /\ expected' = expected /\ polls' = polls /\ answer' = answer
        /\ done' = "none" /\ late' = FALSE /\ faults' = faults /\ calm' = calm
        /\ before' = before
        /\ spi_state' = "DATA_TX" /\ tx' = response /\ rx' = <<>>
        /\ rx_left' = rx_left
    BY <1>1, <1>4 DEF Handled, host, Send
  <2>2. /\ runs' = runs + 1 /\ ran' = call /\ phase = "dack"
        /\ header = Ours /\ Silent(got)
        /\ faults = before => polls = 0 /\ got = <<>>
    BY <1>1, <1>4 DEF Carries
  <2>3. /\ n \in Nat /\ n > 0 /\ runs \in Nat /\ runs' \in Nat /\ call \in Nat
        /\ header.kind \in Kind
    BY <2>2, SpiAssumption DEF SpiInv, Shape, PandaShape
  <2> HIDE DEF n
  <2>4. /\ response \in Seq(Cells) /\ Len(response) = n
        /\ \A j \in 1 .. n : /\ Answers(response[j]) /\ response[j].call = runs'
                             /\ response[j].i > 0
    <3>1. n \in Nat /\ runs' \in Nat
      BY <2>3
    <3> QED BY <3>1, ResponsesAre
  <2> HIDE DEF response
  <2>5. response # <<>>
    BY <2>3, <2>4, EmptySeq
  <2>6. <<>> \in Seq(Cells)
    BY EmptySeq
  <2>7. PandaShape'
    <3>1. PandaShape
      BY DEF SpiInv, Shape
    <3>2. tx' \in Seq(Cells) /\ rx' \in Seq(Cells)
      BY <2>1, <2>4, <2>6
    <3>3. ran' \in Nat /\ ran' <= call'
      BY <2>1, <2>2, <2>3
    <3> QED BY <1>1, <2>1, <2>3, <3>1, <3>2, <3>3 DEF PandaShape
  <2>8. Sending'
    <3>1. \A i \in 1 .. Len(tx') : /\ Answers(tx'[i])
                                   /\ tx'[i].call = runs' /\ tx'[i].i > 0
      BY <2>1, <2>4
    <3> QED BY <1>2, <2>1, <2>5, <3>1 DEF Sending, Answers
  <2>9. Dma'
    BY <2>1, <2>8 DEF Dma
  <2>10. AckIsOurs' /\ DataIsAwaited'
    BY <2>1, <2>2 DEF AckIsOurs, DataIsAwaited
  <2>11. AnswersAreOurs'
    <3>1. \A i \in 1 .. Len(got) : ~Answers(got[i])
      BY <2>2 DEF Silent, Answers
    <3> QED BY <2>1, <2>2, <3>1 DEF AnswersAreOurs, Answers
  <2>12. IsAnswered'
    <3> SUFFICES ASSUME Smooth' PROVE OnItsWay(n)'
      BY <1>1, <2>2, <2>3 DEF IsAnswered, n
    <3>1. polls = 0 /\ got = <<>>
      BY <2>1, <2>2 DEF Smooth
    <3>2. got' \o tx' = response
      BY <2>1, <2>4, <3>1
    <3>3. n' = n
      BY <1>1 DEF n
    <3> QED BY <2>1, <2>2, <2>5, <3>1, <3>2, <3>3 DEF OnItsWay, response
  <2>13. answer <= runs'
    BY <2>2 DEF SpiInv, Shape, HostShape, PandaShape
  <2> QED BY <1>1, <2>1, <2>7, <2>9, <2>10, <2>11, <2>12, <2>13, HandlerKeeps
<1> QED BY <1>3, <1>4

LEMMA TxDoneKeeps == SpiInv /\ TxDone => SpiInv'
<1> SUFFICES ASSUME SpiInv, TxDone PROVE SpiInv'
  OBVIOUS
<1>1. /\ done = "tx" /\ Handled /\ header' = header /\ runs' = runs /\ ran' = ran
      /\ IF spi_state = "HEADER_ACK" THEN Arm("DATA_RX", DataSize[header.kind])
                                     ELSE Arm("HEADER", HeaderSize)
  BY DEF TxDone
<1>2. Sending /\ tx = <<>>
  BY <1>1 DEF SpiInv, Dma, Receiving, Sending
<1>3. /\ call' = call /\ kind' = kind /\ phase' = phase /\ clocked' = clocked
      /\ got' = got /\ expected' = expected /\ polls' = polls /\ answer' = answer
      /\ done' = "none" /\ late' = FALSE /\ faults' = faults /\ calm' = calm
      /\ before' = before /\ rx' = <<>> /\ tx' = <<>>
      /\ IF spi_state = "HEADER_ACK"
         THEN spi_state' = "DATA_RX" /\ rx_left' = DataSize[header.kind]
         ELSE spi_state' = "HEADER" /\ rx_left' = HeaderSize
  BY <1>1, <1>2 DEF Handled, host, Arm
<1>4. /\ HeaderSize \in Nat /\ HeaderSize > 0 /\ clocked \in Nat
      /\ DataSize[header.kind] \in Nat /\ DataSize[header.kind] > 0
  BY SpiAssumption DEF SpiInv, Shape, HostShape, PandaShape
<1>5. <<>> \in Seq(Cells) /\ Len(<<>>) = 0
  BY EmptySeq
<1>6. PandaShape'
  BY <1>1, <1>3, <1>4, <1>5 DEF SpiInv, Shape, PandaShape
<1>7. Dma'
  <2>1. Wanted' = rx_left' /\ rx_left' \in Nat /\ rx_left' > 0
    BY <1>1, <1>3, <1>4 DEF Wanted
  <2>2. PICK n \in Nat : n = rx_left'
    BY <2>1
  <2>3. Len(<<>>) + n = n
    BY <1>5
  <2>4. Len(rx') + rx_left' = Wanted'
    BY <1>3, <2>1, <2>2, <2>3, Zenon
  <2> QED BY <1>3, <2>1, <2>4 DEF Dma, Receiving
<1>8. AckIsOurs'
  BY <1>3 DEF AckIsOurs
<1>9. DataIsAwaited'
  <2> SUFFICES ASSUME phase = "data" PROVE header = Ours /\ spi_state = "HEADER_ACK"
    BY <1>1, <1>3, <1>4, <1>5 DEF DataIsAwaited, Ours
  <2> QED BY <1>2 DEF SpiInv, DataIsAwaited, Sending
<1>10. AnswersAreOurs'
  BY <1>1, <1>3 DEF SpiInv, AnswersAreOurs, Answers
<1>11. IsAnswered'
  <2> SUFFICES ASSUME Smooth' PROVE \E k \in Kind : WasRead(ResponseSize[k])'
    BY DEF IsAnswered
  <2>1. Smooth
    BY <1>1, <1>3 DEF Smooth
  <2>2. PICK k \in Kind : WasRead(ResponseSize[k])
    BY <1>2, <2>1 DEF SpiInv, IsAnswered, OnItsWay
  <2>3. spi_state # "HEADER_ACK"
    BY <2>2 DEF WasRead
  <2>4. WasRead(ResponseSize[k])'
    BY <1>1, <1>3, <2>2, <2>3 DEF WasRead
  <2> QED BY <2>4
<1>12. answer <= runs'
  BY <1>1 DEF SpiInv, Shape, HostShape
<1> QED BY <1>1, <1>3, <1>6, <1>7, <1>8, <1>9, <1>10, <1>11, <1>12, HandlerKeeps

-----------------------------------------------------------------------------
(* SPI: what follows *)

LEMMA SpiKeeps == NoDataIsLikeAHeader /\ SpiInv /\ [SpiNext]_spiVars => SpiInv'
<1> SUFFICES ASSUME NoDataIsLikeAHeader, SpiInv, [SpiNext]_spiVars PROVE SpiInv'
  OBVIOUS
<1>1. CASE Begin
  BY <1>1, BeginKeeps
<1>2. CASE Transfer
  BY <1>2, SendHeaderKeeps, PollHackKeeps, SendDataKeeps, PollDackKeeps, ReadRestKeeps,
     TimeoutKeeps DEF Transfer
<1>3. CASE GiveUp
  BY <1>3, GiveUpKeeps
<1>4. CASE Panda
  BY <1>4, RxHeaderKeeps, RxDataKeeps, TxDoneKeeps DEF Panda
<1>5. CASE Calm \/ UNCHANGED spiVars
  BY <1>5, CalmKeeps
<1> QED BY <1>1, <1>2, <1>3, <1>4, <1>5 DEF SpiNext

\* The invariant of the two state machines and of what is on the wire between
\* them, whatever it loses and corrupts, and however late a handler runs
\* (spi_rx_done, spi_tx_done; _transfer_spidev).
THEOREM SpiInvariance == NoDataIsLikeAHeader => (SpiSpec => []SpiInv)
<1> SUFFICES ASSUME NoDataIsLikeAHeader PROVE SpiSpec => []SpiInv
  OBVIOUS
<1>1. SpiInit => SpiInv
  BY SpiStarts
<1>2. SpiInv /\ [SpiNext]_spiVars => SpiInv'
  BY SpiKeeps
<1> QED BY <1>1, <1>2, PTL DEF SpiSpec

\* The step of a remote call that a step of the protocol is.
LEMMA ClockedSteps ==
    ASSUME SpiInv, SendHeader \/ SendData \/ PollHack
    PROVE  UNCHANGED Remote!vars
<1>1. Shape /\ Dma /\ phase \in {"header", "hack", "data"} /\ answer' = answer
  BY DEF SpiInv, SendHeader, SendData, PollHack, SendPacket
<1>2. call' = call /\ runs' = runs /\ ran' = ran
  BY DEF SendHeader, SendData, PollHack, SendPacket, Clock
<1>3. phase' # "idle"
  BY <1>1 DEF SendHeader, SendData, PollHack, SendPacket, Go
<1> QED BY <1>1, <1>2, <1>3 DEF Remote!vars

LEMMA ReturningSteps ==
    ASSUME NoDataIsLikeAHeader, SpiInv, PollDack \/ ReadRest
    PROVE  Remote!Return \/ UNCHANGED Remote!vars
<1>1. phase # "idle" /\ call' = call /\ runs' = runs /\ ran' = ran
  BY DEF PollDack, ReadRest, Clock
<1>2. Returns
  BY PollDackKeeps, ReadRestKeeps
<1> QED BY <1>1, <1>2 DEF Returns, Remote!Return, Remote!vars

LEMMA CarryingSteps ==
    ASSUME NoDataIsLikeAHeader, SpiInv, Panda
    PROVE  Remote!CarryOut \/ UNCHANGED Remote!vars
<1>1. call' = call /\ phase' = phase /\ answer' = answer
  BY DEF Panda, RxHeader, RxData, TxDone, Handled, host
<1>2. CASE RxHeader \/ TxDone
  <2>1. runs' = runs /\ ran' = ran
    BY <1>2 DEF RxHeader, TxDone
  <2> QED BY <1>1, <2>1 DEF Remote!vars
<1>3. CASE RxData
  <2>1. Refuse \/ Carries
    BY <1>3, RxDataIs
  <2>2. Refuse => UNCHANGED Remote!vars
    BY <1>1 DEF Refuse, Remote!vars
  <2>3. Carries => Remote!CarryOut
    BY DEF Carries, Remote!CarryOut
  <2> QED BY <2>1, <2>2, <2>3
<1> QED BY <1>2, <1>3 DEF Panda

LEMMA StepsAreRemote ==
    ASSUME NoDataIsLikeAHeader, SpiInv, [SpiNext]_spiVars
    PROVE  [Remote!Next]_Remote!vars
<1>1. CASE Begin
  <2>1. Remote!Call
    BY <1>1 DEF Begin, Go, Remote!Call
  <2> QED BY <2>1 DEF Remote!Next
<1>2. CASE Transfer /\ ~Timeout
  <2>1. UNCHANGED Remote!vars \/ Remote!Return
    BY <1>2, ClockedSteps, ReturningSteps DEF Transfer
  <2> QED BY <2>1 DEF Remote!Next
<1>3. CASE Timeout
  <2>1. UNCHANGED Remote!vars
    BY <1>3 DEF Timeout, Go, ghosts, Remote!vars
  <2> QED BY <2>1
<1>4. CASE GiveUp
  <2>1. Remote!Fail
    BY <1>4 DEF GiveUp, ghosts, Remote!Fail
  <2> QED BY <2>1 DEF Remote!Next
<1>5. CASE Panda
  <2>1. Remote!CarryOut \/ UNCHANGED Remote!vars
    BY <1>5, CarryingSteps
  <2> QED BY <2>1 DEF Remote!Next
<1>6. CASE Calm \/ UNCHANGED spiVars
  <2>1. UNCHANGED Remote!vars
    BY <1>6 DEF Calm, spiVars, host, ghosts, Remote!vars
  <2> QED BY <2>1
<1> QED BY <1>1, <1>2, <1>3, <1>4, <1>5, <1>6 DEF SpiNext

\* The protocol implements the remote call: what returns was carried out with
\* its own data and returns the answer of the last run, and nothing else is
\* ever carried out (spi_rx_done, _transfer), as long as no data is as long as
\* a header.
THEOREM RemoteCalls == NoDataIsLikeAHeader => (SpiSpec => CallsAreRemote)
<1> SUFFICES ASSUME NoDataIsLikeAHeader PROVE SpiSpec => CallsAreRemote
  OBVIOUS
<1>1. SpiInit => Remote!Init
  BY DEF SpiInit, Remote!Init, NoCall
<1>2. SpiInv /\ [SpiNext]_spiVars => [Remote!Next]_Remote!vars
  BY StepsAreRemote
<1>3. SpiSpec => []SpiInv
  BY SpiInvariance
<1> QED BY <1>1, <1>2, <1>3, PTL DEF SpiSpec, CallsAreRemote, Remote!Spec

\* The panda carries a request out a second time only if something went wrong
\* since its transfer began: retries that nothing provoked do not do that.
THEOREM NoSecondRun == NoDataIsLikeAHeader => (SpiSpec => TwiceOnlyAfterFaults)
<1> SUFFICES ASSUME NoDataIsLikeAHeader PROVE SpiSpec => TwiceOnlyAfterFaults
  OBVIOUS
<1>1. SpiInv /\ [SpiNext]_spiVars => (runs' # runs /\ ran = call => faults > before)
  <2> SUFFICES ASSUME SpiInv, [SpiNext]_spiVars, runs' # runs, ran = call
               PROVE  faults > before
    OBVIOUS
  <2>1. CASE RxData
    <3>1. Refuse \/ Carries
      BY <2>1, RxDataIs
    <3>2. phase = "dack" /\ spi_state = "DATA_RX"
      BY <2>1, <3>1 DEF RxData, Refuse, Carries
    <3>3. ~Smooth
      BY <3>2 DEF SpiInv, IsAnswered, OnItsWay, WasRead
    <3>4. faults # before
      BY <3>2, <3>3 DEF Smooth
    <3> QED BY <3>4 DEF SpiInv, Shape, PandaShape
  <2>2. CASE ~RxData
    <3>1. runs' = runs
      BY <2>2 DEF SpiNext, Begin, Transfer, SendHeader, SendData, SendPacket, PollHack,
                  PollDack, ReadRest, Timeout, GiveUp, Panda, RxHeader, TxDone, Calm,
                  Clock, spiVars, ghosts
    <3> QED BY <3>1
  <2> QED BY <2>1, <2>2
<1>2. SpiSpec => []SpiInv
  BY SpiInvariance
<1> QED BY <1>1, <1>2, PTL DEF SpiSpec, TwiceOnlyAfterFaults

\* The types of the two state machines' states, and how they go together.
THEOREM SpiTypes == NoDataIsLikeAHeader => (SpiSpec => []SpiTypeOK)
<1> SUFFICES ASSUME NoDataIsLikeAHeader PROVE SpiSpec => []SpiTypeOK
  OBVIOUS
<1> DEFINE Few == call <= MaxCalls
<1>1. SpiInit => Few
  BY SpiAssumption DEF SpiInit, NoCall
<1>2. SpiInv /\ Few /\ [SpiNext]_spiVars => Few'
  <2> SUFFICES ASSUME SpiInv, Few, [SpiNext]_spiVars PROVE Few'
    OBVIOUS
  <2>1. CASE Begin
    <3>1. call' = call + 1 /\ call < MaxCalls /\ call \in Nat /\ MaxCalls \in Nat
      BY <2>1, SpiAssumption DEF Begin, SpiInv, Shape, PandaShape
    <3> QED BY <3>1
  <2>2. CASE ~Begin
    <3>1. call' = call
      BY <2>2 DEF SpiNext, Transfer, SendHeader, SendData, SendPacket, PollHack,
                  PollDack, ReadRest, Timeout, GiveUp, Panda, RxHeader, RxData, TxDone,
                  Handled, Calm, Clock, spiVars, host
    <3> QED BY <3>1
  <2> QED BY <2>1, <2>2
<1>3. SpiInv /\ Few => SpiTypeOK
  <2> SUFFICES ASSUME SpiInv, Few PROVE SpiTypeOK
    OBVIOUS
  <2>1. /\ call \in 0 .. MaxCalls /\ header.call \in 0 .. call /\ header.kind \in Kind
        /\ ran \in 0 .. call /\ answer \in 0 .. runs
    BY SpiAssumption DEF SpiInv, Shape, HostShape, PandaShape
  <2>2. Len(got) <= expected
    BY DEF SpiInv, Shape, HostShape, InTurn
  <2>3. /\ (done = "none") = (rx_left > 0 \/ tx # <<>>)
        /\ rx_left > 0 => tx = <<>> /\ spi_state \in {"HEADER", "DATA_RX"}
        /\ late => done # "none"
    BY DEF SpiInv, Shape, PandaShape, Dma, Receiving, Sending
  <2> QED BY <2>1, <2>2, <2>3 DEF SpiTypeOK, SpiInv, Shape, HostShape, PandaShape
<1>4. SpiSpec => []SpiInv
  BY SpiInvariance
<1> QED BY <1>1, <1>2, <1>3, <1>4, PTL DEF SpiSpec
=============================================================================
