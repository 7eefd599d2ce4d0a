--------------------------- MODULE CanDriverProofs -------------------------
(***************************************************************************)
(* Theorems about CanDriver, for any number of buses, any routes between   *)
(* them and every size of the queues and FIFOs: one inductive invariant,   *)
(* Inv, made of the types, the books of every bus and of can_rx_q, and the *)
(* two rules of who is served and who is refused.                          *)
(***************************************************************************)
EXTENDS CanDriver, SumTheorems, SequenceTheorems, FiniteSetTheorems, TLAPS

-----------------------------------------------------------------------------
(* The invariant *)

\* TypeOK, without the bounds that follow from NoMoreThanCame.
Shapes ==
    /\ tx \in [Bus -> Seq({"good", "bad"})]
    /\ \A b \in Bus : Len(tx[b]) <= TxSize
    /\ core \in [Bus -> {"idle", "busy"}]
    /\ rx_fifo \in [Bus -> 0 .. RxFifo]
    /\ bus_off \in [Bus -> BOOLEAN]
    /\ ir \in [Bus -> SUBSET Flag]
    /\ it0 \in [Bus -> BOOLEAN] /\ it1 \in [Bus -> BOOLEAN]
    /\ isr \in [at : {"none", "read", "rx", "write"}, bus : SUBSET Bus,
                left : 0 .. MsgsPerWrite, seen : SUBSET Flag]
    /\ ready \in BOOLEAN
    /\ rx_q \in 0 .. RxSize
    /\ spoiled \in [Bus -> BOOLEAN]

Counts ==
    /\ total_tx_cnt \in [Bus -> Nat]
    /\ total_tx_lost_cnt \in [Bus -> Nat]
    /\ total_tx_checksum_error_cnt \in [Bus -> Nat]
    /\ total_rx_cnt \in [Bus -> Nat]
    /\ accepted \in [Bus -> Nat] /\ sent \in [Bus -> Nat]
    /\ discarded \in [Bus -> Nat]
    /\ tx_buffer_overflow \in Nat /\ rx_buffer_overflow \in Nat
    /\ safety_tx_blocked \in Nat /\ taken \in Nat
    /\ sends \in 0 .. MaxSends /\ frames \in 0 .. MaxFrames

\* The places of the packets with a wrong checksum, and how many there are.
Bad(q) == {i \in 1 .. Len(q) : q[i] = "bad"}
BadIn(q) == Cardinality(Bad(q))

\* The packets of bus b: what its queue took and holds, what the core was given
\* and has, and where the rest went.
Took(b) == accepted[b]
Queued(b) == Len(tx[b])
Wrong(b) == total_tx_checksum_error_cnt[b]
Given(b) == total_tx_cnt[b]
Busy(b) == IF core[b] = "busy" THEN 1 ELSE 0
Out(b) == sent[b]
Lost(b) == total_tx_lost_cnt[b]
Thrown(b) == discarded[b]

\* What the host's transfers have handed to can_send; and, on all buses, what
\* can_rx took, what waits in the RX FIFOs, and what process_can gave the cores.
Handed == sends - isr.left
Received == SumFunction(total_rx_cnt)
Waiting == SumFunction(rx_fifo)
Sent == SumFunction(total_tx_cnt)

\* A transfer is handed over only once it was counted.
Begun == isr.left <= sends

\* No packet is made up or doubled: what a bus was given came from the host or
\* from a bus, and it is given to the core at most once.
Within(b) ==
    /\ Queued(b) + Given(b) + Wrong(b) <= Took(b)
    /\ Out(b) + Lost(b) + Busy(b) <= Given(b)
    /\ Took(b) <= Handed + Received
    /\ Wrong(b) + BadIn(tx[b]) <= Handed

NoMoreThanCame ==
    /\ Begun
    /\ Received + Waiting <= frames
    /\ \A b \in Bus : Within(b)

\* Accounted, bus by bus.
Balanced(b) ==
    Took(b) = Queued(b) + Busy(b) + Out(b) + Lost(b) + Wrong(b) + Thrown(b)

Books == /\ NoMoreThanCame
         /\ \A b \in Bus : Balanced(b)
         /\ NothingUnreported

Typed == Shapes /\ Counts

LEMMA Facts ==
    /\ IsFiniteSet(Bus) /\ Route \in [Bus -> SUBSET Bus]
    /\ TxSize \in Nat \ {0} /\ RxSize \in Nat \ {0} /\ RxFifo \in Nat \ {0, 1}
    /\ MinSlots \in Nat /\ MsgsPerWrite \in Nat \ {0}
    /\ MinSlots <= TxSize
    /\ MaxSends \in Nat /\ MaxFrames \in Nat
BY DriverAssumption DEF DriverAssumption

LEMMA BadIsFinite ==
    ASSUME NEW q \in Seq({"good", "bad"})
    PROVE  IsFiniteSet(Bad(q)) /\ Cardinality(Bad(q)) \in Nat
<1>1. IsFiniteSet(1 .. Len(q)) /\ Bad(q) \in SUBSET (1 .. Len(q))
  BY FS_Interval DEF Bad
<1> QED BY <1>1, FS_Subset, FS_CardinalityType

LEMMA BadOfAppend ==
    ASSUME NEW q \in Seq({"good", "bad"}), NEW p \in {"good", "bad"}
    PROVE  Cardinality(Bad(Append(q, p)))
             <= Cardinality(Bad(q)) + (IF p = "bad" THEN 1 ELSE 0)
<1>1. CASE p = "bad"
  <2>1. Bad(Append(q, p)) \in SUBSET (Bad(q) \cup {Len(q) + 1})
    BY DEF Bad
  <2> DEFINE more == Bad(q) \cup {Len(q) + 1}
  <2>2. IsFiniteSet(Bad(q)) /\ Cardinality(Bad(q)) \in Nat
    BY BadIsFinite
  <2>3. /\ IsFiniteSet(more)
        /\ Cardinality(more) \in Nat
        /\ Cardinality(more) <= Cardinality(Bad(q)) + 1
    <3>1. /\ IsFiniteSet(more)
          /\ Cardinality(more) = IF Len(q) + 1 \in Bad(q) THEN Cardinality(Bad(q))
                                 ELSE Cardinality(Bad(q)) + 1
      BY <2>2, FS_AddElement
    <3> QED BY <2>2, <3>1
  <2>4. Cardinality(Bad(Append(q, p))) <= Cardinality(more)
    BY <2>1, <2>3, FS_Subset
  <2>5. Append(q, p) \in Seq({"good", "bad"})
    OBVIOUS
  <2>6. Cardinality(Bad(Append(q, p))) \in Nat
    BY <2>5, BadIsFinite
  <2> QED BY <1>1, <2>2, <2>3, <2>4, <2>6
<1>2. CASE p = "good"
  <2>1. Bad(Append(q, p)) = Bad(q)
    BY <1>2 DEF Bad
  <2> QED BY <1>2, <2>1, BadIsFinite
<1> QED BY <1>1, <1>2

LEMMA BadOfTail ==
    ASSUME NEW q \in Seq({"good", "bad"}), q # <<>>
    PROVE  Cardinality(Bad(Tail(q))) + (IF Head(q) = "bad" THEN 1 ELSE 0)
             <= Cardinality(Bad(q))
<1> DEFINE rest == Bad(q) \ {1}
           shift == [i \in Bad(Tail(q)) |-> i + 1]
<1>1. Tail(q) \in Seq({"good", "bad"})
  OBVIOUS
<1>2. IsFiniteSet(rest) /\ Cardinality(rest) =
        IF 1 \in Bad(q) THEN Cardinality(Bad(q)) - 1 ELSE Cardinality(Bad(q))
  BY BadIsFinite, FS_RemoveElement
<1>3. 1 \in Bad(q) <=> Head(q) = "bad"
  BY DEF Bad
<1>4. shift \in Injection(Bad(Tail(q)), rest)
  <2>1. \A i \in Bad(Tail(q)) : i + 1 \in rest
    BY DEF Bad
  <2>2. \A i, j \in Bad(Tail(q)) : shift[i] = shift[j] => i = j
    BY DEF Bad
  <2> QED BY <2>1, <2>2 DEF Injection, IsInjective
<1>5. Cardinality(Bad(Tail(q))) <= Cardinality(rest)
  BY <1>2, <1>4, FS_Injection
<1>6. Cardinality(Bad(Tail(q))) \in Nat /\ Cardinality(Bad(q)) \in Nat
  BY <1>1, BadIsFinite
<1> QED BY <1>2, <1>3, <1>5, <1>6

Sums == Received \in Nat /\ Waiting \in Nat /\ Sent \in Nat

LEMMA SumsAreNat == Typed => Sums
<1> SUFFICES ASSUME Typed PROVE Sums
  OBVIOUS
<1>1. rx_fifo \in [Bus -> Nat]
  BY Facts DEF Typed, Shapes
<1> QED BY <1>1, Facts, SumIsNat DEF Typed, Counts, Received, Waiting, Sent, Sums

Amounts ==
    \A b \in Bus :
        /\ Took(b) \in Nat /\ Queued(b) \in Nat /\ Wrong(b) \in Nat
        /\ Given(b) \in Nat /\ Busy(b) \in {0, 1} /\ Out(b) \in Nat
        /\ Lost(b) \in Nat /\ Thrown(b) \in Nat /\ BadIn(tx[b]) \in Nat

LEMMA AmountsAreNat == Typed => Amounts
<1> SUFFICES ASSUME Typed, NEW b \in Bus
             PROVE  /\ Took(b) \in Nat /\ Queued(b) \in Nat /\ Wrong(b) \in Nat
                    /\ Given(b) \in Nat /\ Busy(b) \in {0, 1} /\ Out(b) \in Nat
                    /\ Lost(b) \in Nat /\ Thrown(b) \in Nat /\ BadIn(tx[b]) \in Nat
  BY DEF Amounts
<1>1. tx[b] \in Seq({"good", "bad"})
  BY DEF Typed, Shapes
<1> QED
  BY <1>1, BadIsFinite
     DEF Typed, Counts, Took, Queued, Wrong, Given, Busy, Out, Lost, Thrown, BadIn

InHand == Handed \in Nat /\ Handed <= MaxSends

LEMMA HandedIsNat == Typed /\ Begun => InHand
BY Facts DEF Typed, Shapes, Counts, Handed, InHand, Begun

LEMMA AccountedIs == Accounted <=> \A b \in Bus : Balanced(b)
BY DEF Accounted, Balanced, Took, Queued, Busy, Out, Lost, Wrong, Thrown

LEMMA BoundsTypes == Typed /\ NoMoreThanCame => TypeOK
<1> SUFFICES ASSUME Typed, NoMoreThanCame PROVE TypeOK
  OBVIOUS
<1>1. ASSUME NEW b \in Bus
      PROVE  Given(b) <= Most /\ Lost(b) <= Most /\ Wrong(b) <= MaxSends
  <2>1. Within(b) /\ Received + Waiting <= frames
    BY DEF NoMoreThanCame
  <2>2. /\ frames \in Nat /\ frames <= MaxFrames
        /\ MaxFrames \in Nat /\ MaxSends \in Nat
        /\ Handed \in Nat /\ Handed <= MaxSends
    BY Facts, HandedIsNat DEF Typed, Counts, NoMoreThanCame, InHand
  <2> QED BY <2>1, <2>2, SumsAreNat, AmountsAreNat DEF Most, Within, Sums, Amounts
<1>2. /\ total_tx_cnt \in [Bus -> 0 .. Most]
      /\ total_tx_lost_cnt \in [Bus -> 0 .. Most]
      /\ total_tx_checksum_error_cnt \in [Bus -> 0 .. MaxSends]
  BY <1>1, Facts DEF Typed, Counts, Most, Given, Lost, Wrong
<1> QED BY <1>2 DEF Typed, Shapes, TypeOK

\* What a step may do to the packets of bus b: in are put into its queue (at
\* most wrong of them with a wrong checksum), go pass to the core and drop are
\* thrown away for their checksum, out leave the core and lost are lost in it;
\* gone and cut are cleared out of the queue and the core.
Moves(b, in, wrong, go, drop, out, lost, gone, cut) ==
    /\ Took(b)' = Took(b) + in
    /\ Queued(b)' + go + drop + gone = Queued(b) + in
    /\ Given(b)' = Given(b) + go
    /\ Wrong(b)' = Wrong(b) + drop
    /\ Busy(b)' + out + lost + cut = Busy(b) + go
    /\ Out(b)' = Out(b) + out
    /\ Lost(b)' = Lost(b) + lost
    /\ Thrown(b)' = Thrown(b) + gone + cut
    /\ BadIn(tx[b])' + drop <= BadIn(tx[b]) + wrong

\* Such a step is entered into the books, if what it put in came from outside.
LEMMA MovesKeep ==
    ASSUME Typed, Typed', Books, Begun', NEW b \in Bus,
           NEW in \in Nat, NEW wrong \in Nat, NEW go \in Nat, NEW drop \in Nat,
           NEW out \in Nat, NEW lost \in Nat, NEW gone \in Nat, NEW cut \in Nat,
           Moves(b, in, wrong, go, drop, out, lost, gone, cut),
           Handed + wrong <= Handed', Handed + Received + in <= Handed' + Received'
    PROVE  Within(b)' /\ Balanced(b)'
<1>1. Amounts /\ Amounts'
  BY AmountsAreNat, PTL
<1>2. Sums /\ Sums'
  BY SumsAreNat, PTL
<1>3. InHand /\ InHand'
  <2>1. Begun
    BY DEF Books, NoMoreThanCame
  <2> QED BY <2>1, HandedIsNat, PTL
<1>4. Within(b) /\ Balanced(b)
  BY DEF Books, NoMoreThanCame
<1>5. /\ Took(b) \in Nat /\ Queued(b) \in Nat /\ Wrong(b) \in Nat
      /\ Given(b) \in Nat /\ Busy(b) \in Nat /\ Out(b) \in Nat
      /\ Lost(b) \in Nat /\ Thrown(b) \in Nat /\ BadIn(tx[b]) \in Nat
      /\ Queued(b)' \in Nat /\ Busy(b)' \in Nat /\ BadIn(tx[b])' \in Nat
  BY <1>1 DEF Amounts
<1>6. Queued(b)' = Queued(b) + in - (go + drop + gone)
  <2>1. Queued(b)' + go + drop + gone = Queued(b) + in
    BY DEF Moves
  <2> QED BY <1>5, <2>1
<1>7. Busy(b)' = Busy(b) + go - (out + lost + cut)
  <2>1. Busy(b)' + out + lost + cut = Busy(b) + go
    BY DEF Moves
  <2> QED BY <1>5, <2>1
<1>8. Took(b)' = Took(b) + in /\ Given(b)' = Given(b) + go /\ Wrong(b)' = Wrong(b) + drop
  BY DEF Moves
<1>9. Out(b)' = Out(b) + out /\ Lost(b)' = Lost(b) + lost
  BY DEF Moves
<1>10. Within(b)'
  <2>1. Queued(b)' + Given(b)' + Wrong(b)' <= Took(b)'
    BY <1>4, <1>5, <1>6, <1>8 DEF Within
  <2>2. Out(b)' + Lost(b)' + Busy(b)' <= Given(b)'
    BY <1>4, <1>5, <1>7, <1>8, <1>9 DEF Within
  <2>3. Took(b)' <= Handed' + Received'
    BY <1>2, <1>3, <1>4, <1>5, <1>8 DEF Within, Sums, InHand
  <2>4. Wrong(b)' + BadIn(tx[b])' <= Handed'
    BY <1>3, <1>4, <1>5, <1>8 DEF Within, InHand, Moves
  <2> QED BY <2>1, <2>2, <2>3, <2>4 DEF Within
<1>11. Balanced(b)'
  <2>1. Thrown(b)' = Thrown(b) + gone + cut
    BY DEF Moves
  <2> QED BY <1>4, <1>5, <1>6, <1>7, <1>8, <1>9, <2>1 DEF Balanced
<1> QED BY <1>10, <1>11

-----------------------------------------------------------------------------
(* process_can *)

LEMMA PushRxDoes ==
    ASSUME Typed, NEW n \in Nat, PushRx(n)
    PROVE  /\ rx_q' \in 0 .. RxSize /\ rx_buffer_overflow' \in Nat
           /\ rx_q' + rx_buffer_overflow' = rx_q + rx_buffer_overflow + n
<1>1. rx_q \in 0 .. RxSize /\ rx_buffer_overflow \in Nat /\ RxSize \in Nat
  BY Facts DEF Typed, Shapes, Counts
<1> QED BY <1>1 DEF PushRx

\* What process_can of core b does when its queue is q: go is 1 when it hands a
\* packet to the core, drop when it throws one away.
Serves(b, q, extra, go, drop) ==
    /\ tx' \in [Bus -> Seq({"good", "bad"})]
    /\ core' \in [Bus -> {"idle", "busy"}]
    /\ ir' \in [Bus -> SUBSET Flag]
    /\ ready' \in BOOLEAN
    /\ spoiled' \in [Bus -> BOOLEAN]
    /\ total_tx_cnt' \in [Bus -> Nat] /\ total_tx_checksum_error_cnt' \in [Bus -> Nat]
    /\ \A c \in Bus \ {b} :
          /\ tx'[c] = tx[c] /\ core'[c] = core[c] /\ spoiled'[c] = spoiled[c]
          /\ Given(c)' = Given(c) /\ Wrong(c)' = Wrong(c)
    /\ Queued(b)' + go + drop = Len(q)
    /\ Busy(b)' = Busy(b) + go
    /\ Given(b)' = Given(b) + go
    /\ Wrong(b)' = Wrong(b) + drop
    /\ BadIn(tx[b])' + drop <= BadIn(q)
    /\ Sent' = Sent + go
    /\ rx_q' \in 0 .. RxSize /\ rx_buffer_overflow' \in Nat
    /\ rx_q' + rx_buffer_overflow' = rx_q + rx_buffer_overflow + extra + go
    /\ tx'[b] # <<>> /\ core'[b] = "idle" => spoiled'[b]
    /\ ready' = Refreshed(tx') \/ (ready' = ready /\ tx'[b] = q)

LEMMA ProcessCanDoes ==
    ASSUME Typed, NEW b \in Bus, NEW q \in Seq({"good", "bad"}), NEW extra \in Nat,
           ProcessCan(b, q, extra)
    PROVE  \E go, drop \in {0, 1} : Serves(b, q, extra, go, drop)
<1> DEFINE pops == core[b] = "idle" /\ q # <<>>
           sends_it == pops /\ Head(q) = "good"
           go == IF sends_it THEN 1 ELSE 0
           drop == IF pops /\ ~sends_it THEN 1 ELSE 0
           queue == IF pops THEN Tail(q) ELSE q
<1>1. /\ tx \in [Bus -> Seq({"good", "bad"})]
      /\ core \in [Bus -> {"idle", "busy"}]
      /\ ir \in [Bus -> SUBSET Flag] /\ ready \in BOOLEAN
      /\ spoiled \in [Bus -> BOOLEAN]
      /\ total_tx_cnt \in [Bus -> Nat] /\ total_tx_checksum_error_cnt \in [Bus -> Nat]
  BY DEF Typed, Shapes, Counts
<1>2. /\ queue \in Seq({"good", "bad"})
      /\ Len(queue) + go + drop = Len(q)
      /\ go \in {0, 1} /\ drop \in {0, 1}
  <2>1. CASE pops
    <3>1. queue = Tail(q) /\ Len(q) \in Nat \ {0}
      BY <2>1
    <3>2. Tail(q) \in Seq({"good", "bad"}) /\ Len(Tail(q)) = Len(q) - 1
      BY <2>1
    <3>3. go + drop = 1 /\ go \in {0, 1} /\ drop \in {0, 1}
      BY <2>1
    <3> HIDE DEF pops, go, drop, queue
    <3> QED BY <3>1, <3>2, <3>3
  <2>2. CASE ~pops
    <3>1. queue = q /\ go = 0 /\ drop = 0 /\ Len(q) \in Nat
      BY <2>2
    <3> HIDE DEF pops, go, drop, queue
    <3> QED BY <3>1
  <2> QED BY <2>1, <2>2
<1>3. BadIn(queue) + drop <= BadIn(q)
  <2>1. CASE pops
    <3>1. Head(q) \in {"good", "bad"}
      BY <2>1
    <3>2. drop = IF Head(q) = "bad" THEN 1 ELSE 0
      BY <2>1, <3>1
    <3>3. queue = Tail(q)
      BY <2>1
    <3> QED BY <2>1, <3>2, <3>3, BadOfTail DEF BadIn
  <2>2. CASE ~pops
    <3>1. queue = q /\ drop = 0 /\ BadIn(q) \in Nat
      BY <2>2, BadIsFinite DEF BadIn
    <3> QED BY <3>1
  <2> QED BY <2>1, <2>2
<1>4. /\ tx' = [tx EXCEPT ![b] = queue]
      /\ ir' = [ir EXCEPT ![b] = {}]
      /\ core' = [core EXCEPT ![b] = IF sends_it THEN "busy" ELSE @]
      /\ ready' = IF pops THEN Refreshed(tx') ELSE ready
      /\ spoiled' = [spoiled EXCEPT ![b] = IF pops THEN ~sends_it ELSE @]
  BY DEF ProcessCan
<1>5. /\ PushRx(extra + go)
      /\ total_tx_cnt' = [total_tx_cnt EXCEPT ![b] = total_tx_cnt[b] + go]
      /\ total_tx_checksum_error_cnt' =
           [total_tx_checksum_error_cnt EXCEPT ![b] = total_tx_checksum_error_cnt[b] + drop]
  <2>1. /\ total_tx_cnt[b] \in Nat /\ total_tx_checksum_error_cnt[b] \in Nat
    BY <1>1
  <2>2. PushRx(extra + go)
    BY DEF ProcessCan
  <2>3. total_tx_cnt' = [total_tx_cnt EXCEPT ![b] = total_tx_cnt[b] + go]
    <3>1. CASE sends_it
      BY <3>1 DEF ProcessCan
    <3>2. CASE ~sends_it
      <4>1. total_tx_cnt' = [total_tx_cnt EXCEPT ![b] = total_tx_cnt[b]]
        BY <3>2, Zenon DEF ProcessCan
      <4>2. total_tx_cnt[b] = total_tx_cnt[b] + go
        BY <2>1, <3>2
      <4> QED BY <4>1, <4>2, Zenon
    <3> QED BY <3>1, <3>2
  <2>4. total_tx_checksum_error_cnt' =
          [total_tx_checksum_error_cnt EXCEPT ![b] = total_tx_checksum_error_cnt[b] + drop]
    <3>1. CASE pops /\ ~sends_it
      BY <3>1 DEF ProcessCan
    <3>2. CASE ~(pops /\ ~sends_it)
      <4>1. total_tx_checksum_error_cnt' = [total_tx_checksum_error_cnt
                                  EXCEPT ![b] = total_tx_checksum_error_cnt[b]]
        BY <3>2, Zenon DEF ProcessCan
      <4>2. total_tx_checksum_error_cnt[b] = total_tx_checksum_error_cnt[b] + drop
        BY <2>1, <3>2
      <4> QED BY <4>1, <4>2, Zenon
    <3> QED BY <3>1, <3>2
  <2> QED BY <2>2, <2>3, <2>4
<1>6. pops => (tx'[b] # <<>> /\ ~sends_it => spoiled'[b])
  BY <1>1, <1>4
<1>7. tx'[b] # <<>> /\ core'[b] = "idle" => spoiled'[b]
  <2>1. CASE pops
    BY <1>1, <1>4, <2>1
  <2>2. CASE ~pops
    BY <1>1, <1>4, <2>2
  <2> QED BY <2>1, <2>2
<1>8. Busy(b)' = Busy(b) + go
  BY <1>1, <1>4 DEF Busy
<1>9. ready' = Refreshed(tx') \/ (ready' = ready /\ tx'[b] = q)
  BY <1>1, <1>4
<1>10. ready' \in BOOLEAN /\ spoiled' \in [Bus -> BOOLEAN]
       /\ core' \in [Bus -> {"idle", "busy"}] /\ ir' \in [Bus -> SUBSET Flag]
  BY <1>1, <1>4 DEF Refreshed
<1> SUFFICES Serves(b, q, extra, go, drop)
  BY <1>2
<1> HIDE DEF pops, sends_it, go, drop, queue
<1>11. Sent' = Sent + go
  <2>1. total_tx_cnt[b] \in Nat /\ total_tx_cnt[b] + go \in Nat
    BY <1>1, <1>2
  <2>2. SumFunction(total_tx_cnt') = SumFunction(total_tx_cnt) - total_tx_cnt[b] + (total_tx_cnt[b] + go)
    <3> DEFINE v == total_tx_cnt[b] + go
    <3>1. v \in Nat /\ total_tx_cnt' = [total_tx_cnt EXCEPT ![b] = v]
      BY <1>5, <2>1
    <3> HIDE DEF v
    <3>2. SumFunction([total_tx_cnt EXCEPT ![b] = v])
            = SumFunction(total_tx_cnt) - total_tx_cnt[b] + v
      <4>1. IsFiniteSet(Bus) /\ total_tx_cnt \in [Bus -> Nat] /\ v \in Nat
        BY <1>1, <3>1, Facts
      <4> QED BY <4>1, SumChanges, Zenon
    <3> QED BY <3>1, <3>2 DEF v
  <2>3. Sent' = Sent - total_tx_cnt[b] + (total_tx_cnt[b] + go) /\ Sent \in Nat
    BY <2>2, SumsAreNat DEF Sent, Sums
  <2> QED BY <1>2, <2>1, <2>3
<1>12. /\ rx_q' \in 0 .. RxSize /\ rx_buffer_overflow' \in Nat
       /\ rx_q' + rx_buffer_overflow' = rx_q + rx_buffer_overflow + extra + go
  <2>1. rx_q' + rx_buffer_overflow' = rx_q + rx_buffer_overflow + (extra + go)
    BY <1>2, <1>5, PushRxDoes
  <2>2. rx_q \in Nat /\ rx_buffer_overflow \in Nat /\ extra \in Nat
    BY Facts DEF Typed, Shapes, Counts
  <2> QED BY <1>2, <1>5, <2>1, <2>2, PushRxDoes
<1>13. /\ Queued(b)' + go + drop = Len(q)
       /\ BadIn(tx[b])' + drop <= BadIn(q)
       /\ tx' \in [Bus -> Seq({"good", "bad"})]
  <2>1. tx'[b] = queue /\ tx' \in [Bus -> Seq({"good", "bad"})]
    BY <1>1, <1>2, <1>4
  <2> QED BY <1>2, <1>3, <2>1 DEF Queued, BadIn
<1>14. /\ Given(b)' = Given(b) + go /\ Wrong(b)' = Wrong(b) + drop
       /\ total_tx_cnt' \in [Bus -> Nat] /\ total_tx_checksum_error_cnt' \in [Bus -> Nat]
  BY <1>1, <1>2, <1>5 DEF Given, Wrong
<1>15. \A c \in Bus \ {b} :
          /\ tx'[c] = tx[c] /\ core'[c] = core[c] /\ spoiled'[c] = spoiled[c]
          /\ Given(c)' = Given(c) /\ Wrong(c)' = Wrong(c)
  BY <1>1, <1>4, <1>5 DEF Given, Wrong
<1> QED
  BY <1>7, <1>8, <1>9, <1>10, <1>11, <1>12, <1>13, <1>14, <1>15 DEF Serves

\* The queue q that can_send hands to process_can: tx[b], with at most one
\* packet more.
Offers(b, q, in, wrong) ==
    /\ q \in Seq({"good", "bad"}) /\ Len(q) <= TxSize
    /\ Len(q) = Queued(b) + in
    /\ BadIn(q) <= BadIn(tx[b]) + wrong

LEMMA SameQueue ==
    ASSUME Typed, NEW b \in Bus PROVE Offers(b, tx[b], 0, 0)
<1>1. tx[b] \in Seq({"good", "bad"}) /\ Len(tx[b]) <= TxSize
  BY DEF Typed, Shapes
<1>2. BadIn(tx[b]) \in Nat /\ Len(tx[b]) \in Nat
  BY <1>1, BadIsFinite DEF BadIn
<1> QED BY <1>1, <1>2 DEF Offers, Queued

LEMMA LongerQueue ==
    ASSUME Typed, NEW b \in Bus, NEW p \in {"good", "bad"}, free(tx[b]) # 0
    PROVE  Offers(b, Append(tx[b], p), 1, IF p = "bad" THEN 1 ELSE 0)
<1>1. tx[b] \in Seq({"good", "bad"}) /\ Len(tx[b]) <= TxSize /\ TxSize \in Nat
  BY Facts DEF Typed, Shapes
<1>2. Len(tx[b]) < TxSize
  BY <1>1 DEF free
<1>3. /\ Append(tx[b], p) \in Seq({"good", "bad"})
      /\ Len(Append(tx[b], p)) = Len(tx[b]) + 1
  BY <1>1
<1> QED BY <1>1, <1>2, <1>3, BadOfAppend DEF Offers, Queued, BadIn

LEMMA ServesShapes ==
    ASSUME Typed, NEW b \in Bus, NEW q, NEW in, NEW wrong, Offers(b, q, in, wrong),
           NEW extra, NEW go \in {0, 1}, NEW drop \in {0, 1},
           Serves(b, q, extra, go, drop)
    PROVE  \A c \in Bus : Len(tx'[c]) <= TxSize
<1> SUFFICES ASSUME NEW c \in Bus PROVE Len(tx'[c]) <= TxSize
  OBVIOUS
<1>1. CASE c = b
  <2>1. tx'[b] \in Seq({"good", "bad"}) /\ Len(tx'[b]) + go + drop = Len(q)
    BY DEF Serves, Queued
  <2>2. Len(q) <= TxSize /\ Len(q) \in Nat /\ Len(tx'[b]) \in Nat /\ TxSize \in Nat
    BY <2>1, Facts DEF Offers
  <2> QED BY <1>1, <2>1, <2>2
<1>2. CASE c # b
  BY <1>2 DEF Serves, Typed, Shapes
<1> QED BY <1>1, <1>2

LEMMA ServesMoves ==
    ASSUME Typed, NEW b \in Bus, NEW q, NEW in \in {0, 1}, NEW wrong \in {0, 1},
           Offers(b, q, in, wrong),
           NEW extra, NEW go \in {0, 1}, NEW drop \in {0, 1},
           Serves(b, q, extra, go, drop), BadIn(tx[b])' \in Nat, Queued(b)' \in Nat,
           Took(b)' = Took(b) + in, \A c \in Bus \ {b} : Took(c)' = Took(c),
           UNCHANGED <<sent, total_tx_lost_cnt, discarded>>
    PROVE  /\ Moves(b, in, wrong, go, drop, 0, 0, 0, 0)
           /\ \A c \in Bus \ {b} : Moves(c, 0, 0, 0, 0, 0, 0, 0, 0)
<1>1. Amounts
  BY AmountsAreNat
<1>2. \A c \in Bus : Out(c)' = Out(c) /\ Lost(c)' = Lost(c) /\ Thrown(c)' = Thrown(c)
  BY DEF Out, Lost, Thrown
<1>3. Moves(b, in, wrong, go, drop, 0, 0, 0, 0)
  <2>1. /\ Out(b) \in Nat /\ Lost(b) \in Nat /\ Thrown(b) \in Nat
        /\ Busy(b) \in Nat /\ BadIn(tx[b]) \in Nat
    BY <1>1 DEF Amounts
  <2>2. Queued(b)' + go + drop = Queued(b) + in
    BY DEF Serves, Offers
  <2>3. BadIn(tx[b])' + drop <= BadIn(tx[b]) + wrong
    <3>1. BadIn(tx[b])' + drop <= BadIn(q) /\ BadIn(q) <= BadIn(tx[b]) + wrong
      BY DEF Serves, Offers
    <3>2. BadIn(q) \in Nat
      BY BadIsFinite DEF Offers, BadIn
    <3> QED BY <2>1, <3>1, <3>2
  <2>4. Busy(b)' = Busy(b) + go /\ Given(b)' = Given(b) + go /\ Wrong(b)' = Wrong(b) + drop
    BY DEF Serves
  <2> QED BY <1>2, <2>1, <2>2, <2>3, <2>4 DEF Moves
<1>4. ASSUME NEW c \in Bus \ {b} PROVE Moves(c, 0, 0, 0, 0, 0, 0, 0, 0)
  <2>1. /\ Out(c) \in Nat /\ Lost(c) \in Nat /\ Thrown(c) \in Nat /\ Took(c) \in Nat
        /\ Queued(c) \in Nat /\ Given(c) \in Nat /\ Wrong(c) \in Nat
        /\ Busy(c) \in Nat /\ BadIn(tx[c]) \in Nat
    BY <1>1 DEF Amounts
  <2>2. /\ tx'[c] = tx[c] /\ core'[c] = core[c]
        /\ Given(c)' = Given(c) /\ Wrong(c)' = Wrong(c)
    BY DEF Serves
  <2>3. Queued(c)' = Queued(c) /\ Busy(c)' = Busy(c) /\ BadIn(tx[c])' = BadIn(tx[c])
    BY <2>2 DEF Queued, Busy, BadIn
  <2> QED BY <1>2, <2>1, <2>2, <2>3 DEF Moves
<1> QED BY <1>3, <1>4

-----------------------------------------------------------------------------
(* The steps *)

Inv == Typed /\ Books /\ StallsOnlyWhenSpoiled /\ NotReadyMeansFull

LEMMA ServeKeeps ==
    ASSUME Inv, Typed', Begun',
           NEW b \in Bus, NEW q, NEW in \in {0, 1}, NEW wrong \in {0, 1},
           Offers(b, q, in, wrong),
           NEW extra, NEW go \in {0, 1}, NEW drop \in {0, 1},
           Serves(b, q, extra, go, drop),
           Took(b)' = Took(b) + in, \A c \in Bus \ {b} : Took(c)' = Took(c),
           UNCHANGED <<sent, total_tx_lost_cnt, discarded>>,
           Handed + wrong <= Handed', Handed + Received + in <= Handed' + Received',
           \A c \in Bus \ {b} : it1'[c] = it1[c]
    PROVE  /\ \A c \in Bus : Within(c)' /\ Balanced(c)'
           /\ StallsOnlyWhenSpoiled'
           /\ isr' = isr => NotReadyMeansFull'
<1> USE DEF Inv
<1>1. /\ Moves(b, in, wrong, go, drop, 0, 0, 0, 0)
      /\ \A c \in Bus \ {b} : Moves(c, 0, 0, 0, 0, 0, 0, 0, 0)
  <2>1. Amounts'
    BY AmountsAreNat, PTL
  <2> QED BY <2>1, ServesMoves DEF Amounts
<1>2. Within(b)' /\ Balanced(b)'
  BY <1>1, MovesKeep
<1>3. ASSUME NEW c \in Bus \ {b} PROVE Within(c)' /\ Balanced(c)'
  <2>1. Sums /\ Sums' /\ InHand /\ InHand'
    BY SumsAreNat, HandedIsNat, PTL DEF Books, NoMoreThanCame
  <2>2. Handed + 0 <= Handed' /\ Handed + Received + 0 <= Handed' + Received'
    BY <2>1 DEF Sums, InHand
  <2> QED BY <1>1, <2>2, MovesKeep
<1>4. StallsOnlyWhenSpoiled'
  BY DEF Serves, StallsOnlyWhenSpoiled
<1>5. ASSUME isr' = isr PROVE NotReadyMeansFull'
  <2> SUFFICES ASSUME isr.at # "write", ~ready'
               PROVE  \E c \in Bus : free(tx'[c]) < MinSlots
    BY <1>5 DEF NotReadyMeansFull
  <2>1. \A c \in Bus : Len(tx'[c]) \in Nat
    BY DEF Serves
  <2>2. CASE ready' = Refreshed(tx')
    <3>1. ~(\A c \in Bus : free(tx'[c]) >= MinSlots)
      BY <2>2 DEF Refreshed
    <3> QED BY <2>1, <3>1, Facts DEF free
  <2>3. CASE ready' = ready /\ tx'[b] = q
    <3>1. PICK c \in Bus : free(tx[c]) < MinSlots
      BY <2>3 DEF NotReadyMeansFull
    <3>2. Len(tx[c]) \in Nat /\ Len(tx'[c]) >= Len(tx[c])
      <4>1. CASE c = b
        BY <2>3, <4>1 DEF Offers, Queued, Typed, Shapes
      <4>2. CASE c # b
        <5>1. tx'[c] = tx[c] /\ tx[c] \in Seq({"good", "bad"})
          BY <4>2 DEF Serves, Typed, Shapes
        <5>2. Len(tx[c]) \in Nat
          BY <5>1
        <5> QED BY <5>1, <5>2
      <4> QED BY <4>1, <4>2
    <3> QED BY <2>1, <3>1, <3>2, Facts DEF free
  <2> QED BY <2>2, <2>3 DEF Serves
<1> QED BY <1>2, <1>3, <1>4, <1>5

\* What went to the host, and what should have.
LEMMA ReportsKeep ==
    ASSUME Typed, Typed', NothingUnreported, NEW n \in Nat, taken' = taken,
           rx_q' + rx_buffer_overflow' = rx_q + rx_buffer_overflow + n,
           Received' + safety_tx_blocked' + Sent' = Received + safety_tx_blocked + Sent + n
    PROVE  NothingUnreported'
<1>1. /\ rx_q \in Nat /\ rx_buffer_overflow \in Nat /\ taken \in Nat
      /\ safety_tx_blocked \in Nat
  BY Facts DEF Typed, Shapes, Counts
<1>2. Received \in Nat /\ Sent \in Nat
  BY SumsAreNat DEF Sums
<1>3. PICK q \in Nat, o \in Nat : q = rx_q' /\ o = rx_buffer_overflow'
  BY Facts DEF Typed, Shapes, Counts
<1>4. q + o = rx_q + rx_buffer_overflow + n
  BY <1>3
<1>5. rx_q + taken + rx_buffer_overflow = Received + safety_tx_blocked + Sent
  BY DEF NothingUnreported, Received, Sent
<1>6. q + taken + o = Received + safety_tx_blocked + Sent + n
  BY <1>1, <1>2, <1>4, <1>5
<1>7. rx_q' + taken' + rx_buffer_overflow' = Received' + safety_tx_blocked' + Sent'
  BY <1>3, <1>6
<1> QED BY <1>7 DEF NothingUnreported, Received, Sent

LEMMA It1Keeps ==
    ASSUME Inv, NEW b \in Bus, It1(b) PROVE Inv'
<1> USE DEF Inv
<1>1. Offers(b, tx[b], 0, 0)
  BY SameQueue
<1>2. PICK go \in {0, 1}, drop \in {0, 1} : Serves(b, tx[b], 0, go, drop)
  BY <1>1, ProcessCanDoes DEF Offers, It1
<1>3. Typed'
  <2>1. \A c \in Bus : Len(tx'[c]) <= TxSize
    BY <1>1, <1>2, ServesShapes
  <2> QED BY <1>2, <2>1 DEF It1, Serves, Typed, Shapes, Counts
<1>4. /\ Begun' /\ Handed' = Handed /\ Received' = Received /\ Waiting' = Waiting
      /\ \A c \in Bus : Took(c)' = Took(c)
  BY DEF It1, Begun, Handed, Received, Waiting, Took, Books, NoMoreThanCame
<1>5. Sums /\ InHand /\ Amounts
  BY SumsAreNat, HandedIsNat, AmountsAreNat DEF Books, NoMoreThanCame
<1>6. \A c \in Bus \ {b} : it1'[c] = it1[c]
  BY DEF It1, Typed, Shapes
<1>7. /\ \A c \in Bus : Within(c)' /\ Balanced(c)'
      /\ StallsOnlyWhenSpoiled' /\ NotReadyMeansFull'
  <2>1. /\ Took(b)' = Took(b) + 0 /\ Handed + 0 <= Handed'
        /\ Handed + Received + 0 <= Handed' + Received'
    BY <1>4, <1>5 DEF Sums, InHand, Amounts
  <2>2. UNCHANGED <<sent, total_tx_lost_cnt, discarded, isr>>
    BY DEF It1
  <2> QED BY <1>1, <1>2, <1>3, <1>4, <1>6, <2>1, <2>2, ServeKeeps
<1>8. NothingUnreported'
  <2>1. /\ rx_q' + rx_buffer_overflow' = rx_q + rx_buffer_overflow + 0 + go
        /\ Sent' = Sent + go /\ taken' = taken /\ safety_tx_blocked' = safety_tx_blocked
    BY <1>2 DEF Serves, It1
  <2>2. rx_q \in Nat /\ rx_buffer_overflow \in Nat /\ safety_tx_blocked \in Nat
    BY Facts DEF Typed, Shapes, Counts
  <2>3. rx_q' + rx_buffer_overflow' = rx_q + rx_buffer_overflow + go
    BY <2>1, <2>2
  <2>4. Received' + safety_tx_blocked' + Sent' = Received + safety_tx_blocked + Sent + go
    BY <1>4, <1>5, <2>1, <2>2 DEF Sums
  <2> QED BY <1>3, <2>1, <2>3, <2>4, ReportsKeep DEF Books
<1>9. Received' + Waiting' <= frames'
  BY <1>4 DEF It1, Books, NoMoreThanCame
<1> QED BY <1>3, <1>4, <1>7, <1>8, <1>9 DEF Books, NoMoreThanCame

\* A step that touches no queue and no core leaves what is in them as it is.
queuesAndCores ==
    <<tx, core, total_tx_cnt, total_tx_lost_cnt, total_tx_checksum_error_cnt,
      accepted, sent, discarded>>

LEMMA OthersKeep ==
    ASSUME Inv, Typed', Begun', UNCHANGED queuesAndCores,
           Handed <= Handed', Handed + Received <= Handed' + Received'
    PROVE  /\ \A c \in Bus : Within(c)' /\ Balanced(c)'
           /\ UNCHANGED <<it1, spoiled>> => StallsOnlyWhenSpoiled'
           /\ isr'.at = "write" \/ (isr.at # "write" /\ ready' = ready) => NotReadyMeansFull'
           /\ ready' = Refreshed(tx) => NotReadyMeansFull'
<1> USE DEF Inv
<1>1. ASSUME NEW c \in Bus PROVE Within(c)' /\ Balanced(c)'
  <2>1. /\ Took(c)' = Took(c) /\ Queued(c)' = Queued(c) /\ Given(c)' = Given(c)
        /\ Wrong(c)' = Wrong(c) /\ Busy(c)' = Busy(c) /\ Out(c)' = Out(c)
        /\ Lost(c)' = Lost(c) /\ Thrown(c)' = Thrown(c) /\ BadIn(tx[c])' = BadIn(tx[c])
    BY DEF queuesAndCores, Took, Queued, Given, Wrong, Busy, Out, Lost, Thrown, BadIn
  <2>2. Amounts
    BY AmountsAreNat
  <2>3. Moves(c, 0, 0, 0, 0, 0, 0, 0, 0)
    BY <2>1, <2>2 DEF Moves, Amounts
  <2>4. Sums /\ InHand
    BY SumsAreNat, HandedIsNat DEF Books, NoMoreThanCame
  <2>5. Handed + 0 <= Handed' /\ Handed + Received + 0 <= Handed' + Received'
    BY <2>4 DEF Sums, InHand
  <2> QED BY <2>3, <2>5, MovesKeep
<1>2. UNCHANGED <<it1, spoiled>> => StallsOnlyWhenSpoiled'
  BY DEF StallsOnlyWhenSpoiled, queuesAndCores
<1>3. isr'.at = "write" \/ (isr.at # "write" /\ ready' = ready) => NotReadyMeansFull'
  BY DEF NotReadyMeansFull, queuesAndCores
<1>4. ready' = Refreshed(tx) => NotReadyMeansFull'
  <2>1. \A c \in Bus : Len(tx[c]) \in Nat
    BY DEF Typed, Shapes
  <2> SUFFICES ASSUME ~Refreshed(tx) PROVE \E c \in Bus : free(tx[c]) < MinSlots
    BY DEF NotReadyMeansFull, queuesAndCores
  <2>2. ~(\A c \in Bus : free(tx[c]) >= MinSlots)
    BY DEF Refreshed
  <2> QED BY <2>1, <2>2, Facts DEF free
<1> QED BY <1>1, <1>2, <1>3, <1>4

LEMMA WriteFrameKeeps ==
    ASSUME Inv, WriteFrame PROVE Inv'
<1> USE DEF Inv
<1>1. /\ Sums /\ InHand /\ Amounts /\ Begun
      /\ NothingUnreported /\ Received + Waiting <= frames
  BY SumsAreNat, HandedIsNat, AmountsAreNat DEF Books, NoMoreThanCame
<1>2. /\ isr \in [at : {"none", "read", "rx", "write"}, bus : SUBSET Bus,
                   left : 0 .. MsgsPerWrite, seen : SUBSET Flag]
      /\ sends \in Nat /\ isr.left \in Nat
  BY Facts DEF Typed, Shapes, Counts
<1>3. /\ isr'.at = "write" /\ isr'.left = isr.left - 1 /\ isr.left > 0
      /\ isr' \in [at : {"none", "read", "rx", "write"}, bus : SUBSET Bus,
                    left : 0 .. MsgsPerWrite, seen : SUBSET Flag]
  BY <1>2, Facts DEF WriteFrame
<1>4. /\ Begun' /\ Handed' = Handed + 1 /\ Received' = Received /\ Waiting' = Waiting
      /\ Received' + Waiting' <= frames'
  BY <1>1, <1>2, <1>3 DEF WriteFrame, Begun, Handed, Received, Waiting
<1>5. Handed <= Handed' /\ Handed + Received <= Handed' + Received'
  BY <1>1, <1>4 DEF Sums, InHand
<1>6. NotReadyMeansFull'
  BY <1>3 DEF NotReadyMeansFull
<1>7. CASE /\ safety_tx_blocked' = safety_tx_blocked + 1
           /\ PushRx(1)
           /\ UNCHANGED <<tx, core, ir, ready, tx_buffer_overflow, total_tx_cnt,
                          total_tx_checksum_error_cnt, accepted, spoiled, host_lost>>
  <2>1. /\ rx_q' \in 0 .. RxSize /\ rx_buffer_overflow' \in Nat
        /\ rx_q' + rx_buffer_overflow' = rx_q + rx_buffer_overflow + 1
    BY <1>7, PushRxDoes
  <2>2. Typed'
    <3>1. safety_tx_blocked' \in Nat
      BY <1>7 DEF Typed, Counts
    <3>2. Counts'
      BY <1>7, <2>1, <3>1 DEF WriteFrame, Typed, Counts
    <3>3. Shapes'
      BY <1>3, <1>7, <2>1 DEF WriteFrame, Typed, Shapes
    <3> QED BY <3>2, <3>3 DEF Typed
  <2>3. UNCHANGED queuesAndCores /\ UNCHANGED <<it1, spoiled>>
    BY <1>7 DEF WriteFrame, queuesAndCores
  <2>4. Sent' = Sent /\ safety_tx_blocked \in Nat /\ taken' = taken
    BY <1>7 DEF Sent, Typed, Counts, WriteFrame
  <2>5. Received' + safety_tx_blocked' + Sent' = Received + safety_tx_blocked + Sent + 1
    BY <1>1, <1>4, <1>7, <2>4 DEF Sums
  <2>6. NothingUnreported'
    BY <1>1, <2>1, <2>2, <2>4, <2>5, ReportsKeep
  <2> QED BY <1>4, <1>5, <1>6, <2>2, <2>3, <2>6, OthersKeep DEF Books, NoMoreThanCame
<1>8. CASE UNCHANGED <<tx, core, ir, ready, rx_q, counters, accepted, spoiled, host_lost>>
  <2>1. Typed'
    BY <1>3, <1>8 DEF WriteFrame, Typed, Shapes, Counts, counters
  <2>2. UNCHANGED queuesAndCores /\ UNCHANGED <<it1, spoiled>>
    BY <1>8 DEF WriteFrame, queuesAndCores, counters
  <2>3. NothingUnreported'
    BY <1>1, <1>8 DEF NothingUnreported, counters, WriteFrame
  <2> QED BY <1>4, <1>5, <1>6, <2>1, <2>2, <2>3, OthersKeep DEF Books, NoMoreThanCame
<1>9. ASSUME NEW b \in Bus, NEW packet \in {"good", "bad"}, Queue(b, packet),
             UNCHANGED safety_tx_blocked
      PROVE  Inv'
  <2> DEFINE q == IF free(tx[b]) = 0 THEN tx[b] ELSE Append(tx[b], packet)
  <2>1. PICK in \in {0, 1}, wrong \in {0, 1} :
          Offers(b, q, in, wrong) /\ accepted' = [accepted EXCEPT ![b] = @ + in]
    <3>1. CASE free(tx[b]) = 0
      <4>1. accepted' = [accepted EXCEPT ![b] = @ + 0]
        <5>1. accepted' = [accepted EXCEPT ![b] = accepted[b]] /\ accepted[b] \in Nat
          BY <1>9, <3>1 DEF Queue, Typed, Counts
        <5>2. accepted[b] + 0 = accepted[b]
          BY <5>1
        <5> QED BY <5>1, <5>2, Zenon
      <4> QED BY <3>1, <4>1, SameQueue
    <3>2. CASE free(tx[b]) # 0
      <4>1. accepted' = [accepted EXCEPT ![b] = @ + 1]
        BY <1>9, <3>2 DEF Queue
      <4>2. Offers(b, q, 1, IF packet = "bad" THEN 1 ELSE 0)
        BY <3>2, LongerQueue
      <4> QED BY <4>1, <4>2
    <3> QED BY <3>1, <3>2
  <2>2. ProcessCan(b, q, 0) /\ tx_buffer_overflow' \in Nat
    BY <1>9 DEF Queue, Typed, Counts
  <2>3. PICK go \in {0, 1}, drop \in {0, 1} : Serves(b, q, 0, go, drop)
    BY <2>1, <2>2, ProcessCanDoes DEF Offers
  <2> HIDE DEF q
  <2>4. Typed'
    <3>1. \A c \in Bus : Len(tx'[c]) <= TxSize
      BY <2>1, <2>3, ServesShapes
    <3>2. accepted' \in [Bus -> Nat]
      BY <2>1 DEF Typed, Counts
    <3> QED
      BY <1>3, <1>9, <2>2, <2>3, <3>1, <3>2 DEF WriteFrame, Serves, Typed, Shapes, Counts
  <2>5. Took(b)' = Took(b) + in /\ \A c \in Bus \ {b} : Took(c)' = Took(c)
    BY <2>1 DEF Typed, Counts, Took
  <2>6. Handed + wrong <= Handed' /\ Handed + Received + in <= Handed' + Received'
    BY <1>1, <1>4 DEF Sums, InHand
  <2>7. UNCHANGED <<sent, total_tx_lost_cnt, discarded, it1, taken>>
    BY DEF WriteFrame
  <2>8. (\A c \in Bus : Within(c)' /\ Balanced(c)') /\ StallsOnlyWhenSpoiled'
    BY <1>4, <2>1, <2>3, <2>4, <2>5, <2>6, <2>7, ServeKeeps
  <2>9. NothingUnreported'
    <3>1. /\ rx_q' + rx_buffer_overflow' = rx_q + rx_buffer_overflow + 0 + go
          /\ Sent' = Sent + go
      BY <2>3 DEF Serves
    <3>2. rx_q \in Nat /\ rx_buffer_overflow \in Nat /\ safety_tx_blocked \in Nat
      BY Facts DEF Typed, Shapes, Counts
    <3>3. rx_q' + rx_buffer_overflow' = rx_q + rx_buffer_overflow + go
      BY <3>1, <3>2
    <3>4. Received' + safety_tx_blocked' + Sent' = Received + safety_tx_blocked + Sent + go
      BY <1>1, <1>4, <1>9, <3>1, <3>2 DEF Sums
    <3> QED BY <1>1, <2>4, <2>7, <3>3, <3>4, ReportsKeep
  <2> QED BY <1>4, <1>6, <2>4, <2>8, <2>9 DEF Books, NoMoreThanCame
<1> QED BY <1>7, <1>8, <1>9 DEF WriteFrame

LEMMA RxFrameCounts ==
    ASSUME Typed, NEW b \in Bus, RxFrame(b)
    PROVE  /\ total_rx_cnt' \in [Bus -> Nat] /\ rx_fifo' \in [Bus -> 0 .. RxFifo]
           /\ Received' = Received + 1
           /\ Received' + Waiting' <= Received + Waiting
<1> DEFINE n == total_rx_cnt[b] + 1
           m == rx_fifo[b] - (IF rx_fifo[b] = RxFifo THEN 2 ELSE 1)
<1>1. /\ total_rx_cnt \in [Bus -> Nat] /\ rx_fifo \in [Bus -> 0 .. RxFifo]
      /\ rx_fifo \in [Bus -> Nat] /\ RxFifo \in Nat \ {0, 1} /\ IsFiniteSet(Bus)
  BY Facts DEF Typed, Shapes, Counts
<1>2. n \in Nat /\ m \in 0 .. RxFifo /\ m \in Nat /\ m + 1 <= rx_fifo[b]
  BY <1>1 DEF RxFrame
<1>3. total_rx_cnt' = [total_rx_cnt EXCEPT ![b] = n] /\ rx_fifo' = [rx_fifo EXCEPT ![b] = m]
  BY DEF RxFrame
<1>4. total_rx_cnt[b] \in Nat /\ rx_fifo[b] \in Nat /\ n = total_rx_cnt[b] + 1
  BY <1>1
<1> HIDE DEF n, m
<1>5. Received' = Received - total_rx_cnt[b] + n
  <2>1. SumFunction([total_rx_cnt EXCEPT ![b] = n])
          = SumFunction(total_rx_cnt) - total_rx_cnt[b] + n
    BY <1>1, <1>2, SumChanges, Zenon
  <2> QED BY <1>3, <2>1 DEF Received
<1>6. Waiting' = Waiting - rx_fifo[b] + m
  <2>1. SumFunction([rx_fifo EXCEPT ![b] = m])
          = SumFunction(rx_fifo) - rx_fifo[b] + m
    BY <1>1, <1>2, SumChanges, Zenon
  <2> QED BY <1>3, <2>1 DEF Waiting
<1>7. Received \in Nat /\ Waiting \in Nat
  BY SumsAreNat DEF Sums
<1>8. Received' = Received + 1
  BY <1>4, <1>5, <1>7
<1>9. Received' + Waiting' <= Received + Waiting
  <2>1. PICK w \in Int : w = Waiting - rx_fifo[b] + m
    BY <1>2, <1>4, <1>7
  <2>2. w + 1 <= Waiting
    BY <1>2, <1>4, <1>7, <2>1
  <2>3. (Received + 1) + w <= Received + Waiting
    BY <1>7, <2>2
  <2> QED BY <1>6, <1>8, <2>1, <2>3
<1> QED BY <1>1, <1>2, <1>3, <1>8, <1>9

LEMMA RxFrameKeeps ==
    ASSUME Inv, NEW b \in Bus, RxFrame(b) PROVE Inv'
<1> USE DEF Inv
<1>1. /\ Sums /\ InHand /\ Amounts /\ Begun
      /\ NothingUnreported /\ Received + Waiting <= frames
  BY SumsAreNat, HandedIsNat, AmountsAreNat DEF Books, NoMoreThanCame
<1>2. /\ total_rx_cnt' \in [Bus -> Nat] /\ rx_fifo' \in [Bus -> 0 .. RxFifo]
      /\ Received' = Received + 1
      /\ Received' + Waiting' <= Received + Waiting
  BY RxFrameCounts
<1>3. /\ isr' = isr /\ sends' = sends /\ frames' = frames /\ it1' = it1
      /\ taken' = taken /\ safety_tx_blocked' = safety_tx_blocked
      /\ UNCHANGED <<sent, total_tx_lost_cnt, discarded, bus_off, it0>>
  BY DEF RxFrame
<1>4. Begun' /\ Handed' = Handed
  BY <1>1, <1>3 DEF Begun, Handed
<1>5. Received' + Waiting' <= frames'
  <2>1. PICK n \in Nat : n = Waiting'
    <3>1. \A f \in [Bus -> 0 .. RxFifo] : SumFunction(f) \in Nat
      <4>1. \A f \in [Bus -> Nat] : SumFunction(f) \in Nat
        BY Facts, SumIsNat
      <4>2. [Bus -> 0 .. RxFifo] \subseteq [Bus -> Nat]
        BY Facts
      <4> QED BY <4>1, <4>2
    <3> QED BY <1>2, <3>1 DEF Waiting
  <2>2. Received \in Nat /\ Waiting \in Nat /\ frames \in Nat
    BY <1>1 DEF Typed, Counts, Sums
  <2>3. Received + 1 + n <= Received + Waiting
    BY <1>2, <2>1
  <2>4. Received + 1 + n <= frames
    BY <1>1, <2>2, <2>3
  <2> QED BY <1>2, <1>3, <2>1, <2>4
<1>6. CASE /\ PushRx(1)
           /\ UNCHANGED <<tx, core, ir, ready, tx_buffer_overflow, total_tx_cnt,
                          total_tx_checksum_error_cnt, accepted, spoiled>>
  <2>1. /\ rx_q' \in 0 .. RxSize /\ rx_buffer_overflow' \in Nat
        /\ rx_q' + rx_buffer_overflow' = rx_q + rx_buffer_overflow + 1
    BY <1>6, PushRxDoes
  <2>2. Typed'
    <3>1. Counts'
      BY <1>2, <1>3, <1>6, <2>1 DEF Typed, Counts
    <3>2. Shapes'
      BY <1>2, <1>3, <1>6, <2>1 DEF Typed, Shapes
    <3> QED BY <3>1, <3>2 DEF Typed
  <2>3. UNCHANGED queuesAndCores /\ UNCHANGED <<it1, spoiled>> /\ ready' = ready
    BY <1>3, <1>6 DEF queuesAndCores
  <2>4. Sent' = Sent /\ safety_tx_blocked \in Nat
    BY <1>6 DEF Sent, Typed, Counts
  <2>5. Received' + safety_tx_blocked' + Sent' = Received + safety_tx_blocked + Sent + 1
    BY <1>1, <1>2, <1>3, <2>4 DEF Sums
  <2>6. NothingUnreported'
    BY <1>1, <1>3, <2>1, <2>2, <2>5, ReportsKeep
  <2>7. Handed <= Handed' /\ Handed + Received <= Handed' + Received'
    BY <1>1, <1>2, <1>4 DEF Sums, InHand
  <2>8. isr.at = "rx"
    BY DEF RxFrame
  <2> QED
    BY <1>3, <1>4, <1>5, <2>2, <2>3, <2>6, <2>7, <2>8, OthersKeep DEF Books, NoMoreThanCame
<1>7. ASSUME NEW d \in Bus, NEW q,
             q = IF free(tx[d]) = 0 THEN tx[d] ELSE Append(tx[d], "good"),
             ProcessCan(d, q, 1),
             tx_buffer_overflow' = tx_buffer_overflow
                                     + (IF free(tx[d]) = 0 THEN 1 ELSE 0),
             accepted' = [accepted EXCEPT ![d] = IF free(tx[d]) = 0 THEN @ ELSE @ + 1]
      PROVE  Inv'
  <2>1. PICK in \in {0, 1} :
          Offers(d, q, in, 0) /\ accepted' = [accepted EXCEPT ![d] = @ + in]
    <3>1. CASE free(tx[d]) = 0
      <4>1. accepted' = [accepted EXCEPT ![d] = @ + 0]
        <5>1. accepted' = [accepted EXCEPT ![d] = accepted[d]] /\ accepted[d] \in Nat
          BY <1>7, <3>1 DEF Typed, Counts
        <5>2. accepted[d] + 0 = accepted[d]
          BY <5>1
        <5> QED BY <5>1, <5>2, Zenon
      <4> QED BY <1>7, <3>1, <4>1, SameQueue
    <3>2. CASE free(tx[d]) # 0
      <4>1. accepted' = [accepted EXCEPT ![d] = @ + 1]
        BY <1>7, <3>2
      <4>2. Offers(d, Append(tx[d], "good"), 1, 0)
        BY <3>2, LongerQueue
      <4> QED BY <1>7, <3>2, <4>1, <4>2
    <3> QED BY <3>1, <3>2
  <2>2. tx_buffer_overflow' \in Nat
    BY <1>7 DEF Typed, Counts
  <2>3. PICK go \in {0, 1}, drop \in {0, 1} : Serves(d, q, 1, go, drop)
    BY <1>7, <2>1, ProcessCanDoes DEF Offers
  <2>4. Typed'
    <3>1. \A c \in Bus : Len(tx'[c]) <= TxSize
      BY <2>1, <2>3, ServesShapes
    <3>2. accepted' \in [Bus -> Nat]
      BY <2>1 DEF Typed, Counts
    <3>3. Counts'
      BY <1>2, <1>3, <2>2, <2>3, <3>2 DEF Serves, Typed, Counts
    <3>4. Shapes'
      BY <1>2, <1>3, <2>3, <3>1 DEF Serves, Typed, Shapes
    <3> QED BY <3>3, <3>4 DEF Typed
  <2>5. Took(d)' = Took(d) + in /\ \A c \in Bus \ {d} : Took(c)' = Took(c)
    BY <2>1 DEF Typed, Counts, Took
  <2>6. Handed + 0 <= Handed' /\ Handed + Received + in <= Handed' + Received'
    BY <1>1, <1>2, <1>4 DEF Sums, InHand
  <2>7. /\ \A c \in Bus : Within(c)' /\ Balanced(c)'
        /\ StallsOnlyWhenSpoiled' /\ NotReadyMeansFull'
    BY <1>3, <1>4, <2>1, <2>3, <2>4, <2>5, <2>6, ServeKeeps
  <2>8. NothingUnreported'
    <3>1. /\ rx_q' + rx_buffer_overflow' = rx_q + rx_buffer_overflow + 1 + go
          /\ Sent' = Sent + go
      BY <2>3 DEF Serves
    <3>2. rx_q \in Nat /\ rx_buffer_overflow \in Nat /\ safety_tx_blocked \in Nat
      BY Facts DEF Typed, Shapes, Counts
    <3>3. rx_q' + rx_buffer_overflow' = rx_q + rx_buffer_overflow + (1 + go)
      BY <3>1, <3>2
    <3>4. Received' + safety_tx_blocked' + Sent' = Received + safety_tx_blocked + Sent + (1 + go)
      BY <1>1, <1>2, <1>3, <3>1, <3>2 DEF Sums
    <3> QED BY <1>1, <1>3, <2>4, <3>3, <3>4, ReportsKeep
  <2> QED BY <1>4, <1>5, <2>4, <2>7, <2>8 DEF Books, NoMoreThanCame
<1> QED
  <2>1. Route[b] \subseteq Bus
    BY Facts
  <2> QED BY <1>6, <1>7, <2>1 DEF RxFrame

\* The handlers and the host's other requests.  The lemma takes what is common
\* to the steps that touch no queue, no core and no counter of the health
\* packets: the books stay as they are.
LEMMA QuietKeeps ==
    ASSUME Inv, Shapes', UNCHANGED <<queuesAndCores, spoiled>>,
           UNCHANGED <<total_rx_cnt, rx_fifo, safety_tx_blocked, rx_buffer_overflow,
                       frames, tx_buffer_overflow, it1, rx_q, taken>>,
           sends' \in 0 .. MaxSends, Begun', Handed' = Handed,
           NotReadyMeansFull'
    PROVE  Inv'
<1> USE DEF Inv
<1>1. Typed'
  BY DEF queuesAndCores, Typed, Counts
<1>2. Received' = Received /\ Waiting' = Waiting
  BY DEF Received, Waiting
<1>3. Sums /\ InHand
  BY SumsAreNat, HandedIsNat DEF Books, NoMoreThanCame
<1>4. Handed <= Handed' /\ Handed + Received <= Handed' + Received'
  BY <1>2, <1>3 DEF Sums, InHand
<1>5. NothingUnreported'
  BY DEF queuesAndCores, NothingUnreported, Books
<1>6. Received' + Waiting' <= frames'
  BY <1>2 DEF Books, NoMoreThanCame
<1> QED BY <1>1, <1>4, <1>5, <1>6, OthersKeep DEF Books, NoMoreThanCame

LEMMA HandlersKeep ==
    ASSUME Inv, NEW b \in Bus, It0(b) \/ RxAck(b) PROVE Inv'
<1> USE DEF Inv
<1>1. CASE It0(b)
  <2>1. Shapes'
    <3>1. 0 \in 0 .. MsgsPerWrite /\ ir[b] \in SUBSET Flag
      BY Facts DEF Typed, Shapes
    <3>2. isr' \in [at : {"none", "read", "rx", "write"}, bus : SUBSET Bus,
                    left : 0 .. MsgsPerWrite, seen : SUBSET Flag]
      BY <1>1, <3>1 DEF It0
    <3> QED BY <1>1, <3>2 DEF It0, Typed, Shapes, counters, ghosts
  <2>2. Begun' /\ Handed' = Handed
    BY <1>1 DEF It0, Begun, Handed, NoIsr, Typed, Counts
  <2>3. NotReadyMeansFull'
    BY <1>1 DEF It0, NotReadyMeansFull, NoIsr
  <2> QED BY <1>1, <2>1, <2>2, <2>3, QuietKeeps
          DEF It0, queuesAndCores, counters, ghosts, Typed, Counts
<1>2. CASE RxAck(b)
  <2>1. isr' = [isr EXCEPT !.at = "rx"] /\ isr.at = "read"
    BY <1>2 DEF RxAck
  <2>2. isr'.left = isr.left /\ isr'.at = "rx"
    BY <2>1 DEF Typed, Shapes
  <2>3. Shapes'
    BY <1>2, <2>1 DEF RxAck, Typed, Shapes, counters, ghosts
  <2>4. Begun' /\ Handed' = Handed
    BY <1>2, <2>2 DEF RxAck, Begun, Handed, Books, NoMoreThanCame
  <2>5. NotReadyMeansFull'
    BY <1>2, <2>1, <2>2 DEF RxAck, NotReadyMeansFull
  <2> QED BY <1>2, <2>3, <2>4, <2>5, QuietKeeps
          DEF RxAck, queuesAndCores, counters, ghosts, Typed, Counts
<1> QED BY <1>1, <1>2

LEMMA WritesKeep ==
    ASSUME Inv, (\E n \in 1 .. MsgsPerWrite : WriteBegin(n)) \/ WriteEnd PROVE Inv'
<1> USE DEF Inv
<1>1. ASSUME NEW n \in 1 .. MsgsPerWrite, WriteBegin(n) PROVE Inv'
  <2>1. sends \in Nat /\ n \in Nat /\ sends + n <= MaxSends /\ isr.left = 0
        /\ isr'.left = n /\ isr'.at = "write" /\ sends' = sends + n
        /\ MaxSends \in Nat
    BY <1>1, Facts DEF WriteBegin, Typed, Counts, NoIsr
  <2>2. Shapes'
    <3>1. n \in 0 .. MsgsPerWrite
      BY Facts
    <3>2. isr' \in [at : {"none", "read", "rx", "write"}, bus : SUBSET Bus,
                    left : 0 .. MsgsPerWrite, seen : SUBSET Flag]
      BY <1>1, <3>1 DEF WriteBegin
    <3> QED BY <1>1, <3>2 DEF WriteBegin, Typed, Shapes, hardware, ghosts
  <2>3. Begun' /\ Handed' = Handed /\ sends' \in 0 .. MaxSends
    BY <2>1 DEF Begun, Handed
  <2>4. NotReadyMeansFull'
    BY <2>1 DEF NotReadyMeansFull
  <2> QED BY <1>1, <2>2, <2>3, <2>4, QuietKeeps
          DEF WriteBegin, hardware, queuesAndCores, counters, ghosts
<1>2. CASE WriteEnd
  <2>1. isr.left = 0 /\ isr'.left = 0 /\ sends \in 0 .. MaxSends /\ sends' = sends
        /\ ready' = Refreshed(tx)
    BY <1>2 DEF WriteEnd, NoIsr, Typed, Counts
  <2>2. Shapes'
    <3>1. 0 \in 0 .. MsgsPerWrite
      BY Facts
    <3> QED BY <1>2, <3>1 DEF WriteEnd, NoIsr, Typed, Shapes, hardware, ghosts, Refreshed
  <2>3. Begun' /\ Handed' = Handed
    BY <2>1 DEF Begun, Handed
  <2>4. NotReadyMeansFull'
    <3>1. \A c \in Bus : Len(tx[c]) \in Nat
      BY DEF Typed, Shapes
    <3> SUFFICES ASSUME ~Refreshed(tx) PROVE \E c \in Bus : free(tx[c]) < MinSlots
      BY <1>2, <2>1 DEF NotReadyMeansFull, WriteEnd
    <3>2. ~(\A c \in Bus : free(tx[c]) >= MinSlots)
      BY DEF Refreshed
    <3> QED BY <3>1, <3>2, Facts DEF free
  <2> QED BY <1>2, <2>1, <2>2, <2>3, <2>4, QuietKeeps
          DEF WriteEnd, hardware, queuesAndCores, counters, ghosts
<1> QED BY <1>1, <1>2

LEMMA BusKeeps ==
    ASSUME Inv, NEW b \in Bus,
           Frame(b) \/ Fault(b, "BO") \/ Fault(b, "ERR")
    PROVE  Inv'
<1> USE DEF Inv
<1>1. CASE Frame(b)
  <2> DEFINE m == IF rx_fifo[b] = RxFifo THEN rx_fifo[b] ELSE rx_fifo[b] + 1
  <2>1. /\ rx_fifo \in [Bus -> 0 .. RxFifo] /\ rx_fifo \in [Bus -> Nat]
        /\ RxFifo \in Nat /\ IsFiniteSet(Bus)
    BY Facts DEF Typed, Shapes
  <2>2. m \in 0 .. RxFifo /\ m \in Nat /\ m <= rx_fifo[b] + 1 /\ rx_fifo[b] \in Nat
    BY <2>1
  <2>3. rx_fifo' = [rx_fifo EXCEPT ![b] = m]
    BY <1>1 DEF Frame
  <2> HIDE DEF m
  <2>4. Waiting' = Waiting - rx_fifo[b] + m
    <3>1. SumFunction([rx_fifo EXCEPT ![b] = m])
            = SumFunction(rx_fifo) - rx_fifo[b] + m
      BY <2>1, <2>2, SumChanges, Zenon
    <3> QED BY <2>3, <3>1 DEF Waiting
  <2>5. /\ frames' = frames + 1 /\ frames \in Nat /\ frames < MaxFrames
        /\ MaxFrames \in Nat /\ Received' = Received
    BY <1>1, Facts DEF Frame, Typed, Counts, counters, Received
  <2>6. Sums /\ InHand /\ Received + Waiting <= frames
    BY SumsAreNat, HandedIsNat DEF Books, NoMoreThanCame
  <2>7. Received' + Waiting' <= frames'
    <3>1. PICK w \in Int : w = Waiting - rx_fifo[b] + m
      BY <2>2, <2>6 DEF Sums
    <3>2. Received + w <= frames + 1
      BY <2>2, <2>5, <2>6, <3>1 DEF Sums
    <3> QED BY <2>4, <2>5, <3>1, <3>2
  <2>8. Typed'
    <3>1. frames' \in 0 .. MaxFrames
      BY <2>5
    <3>2. rx_fifo' \in [Bus -> 0 .. RxFifo]
      BY <2>1, <2>2, <2>3
    <3>3. /\ ir' \in [Bus -> SUBSET Flag] /\ it0' \in [Bus -> BOOLEAN]
      BY <1>1 DEF Frame, Typed, Shapes, Flag
    <3> QED BY <1>1, <3>1, <3>2, <3>3 DEF Frame, Typed, Shapes, Counts, counters, ghosts
  <2>9. Begun' /\ Handed' = Handed
    BY <1>1 DEF Frame, Begun, Handed, Books, NoMoreThanCame
  <2>10. UNCHANGED queuesAndCores /\ UNCHANGED <<it1, spoiled, ready, isr>>
    BY <1>1 DEF Frame, queuesAndCores, counters, ghosts
  <2>11. NothingUnreported'
    BY <1>1 DEF Frame, NothingUnreported, counters, ghosts, Books
  <2>12. Handed <= Handed' /\ Handed + Received <= Handed' + Received'
    BY <2>5, <2>6, <2>9 DEF Sums, InHand
  <2>13. (\A c \in Bus : Within(c)' /\ Balanced(c)') /\ StallsOnlyWhenSpoiled'
    BY <2>8, <2>9, <2>10, <2>12, OthersKeep
  <2>14. NotReadyMeansFull'
    BY <2>10 DEF NotReadyMeansFull, queuesAndCores
  <2> QED BY <2>7, <2>8, <2>9, <2>11, <2>13, <2>14 DEF Books, NoMoreThanCame
<1>2. ASSUME NEW flag \in {"BO", "ERR"}, Fault(b, flag) PROVE Inv'
  <2>1. Shapes'
    BY <1>2 DEF Fault, Typed, Shapes, counters, ghosts, Flag
  <2>2. Begun' /\ Handed' = Handed /\ NotReadyMeansFull'
    BY <1>2 DEF Fault, Begun, Handed, Books, NoMoreThanCame, NotReadyMeansFull
  <2> QED BY <1>2, <2>1, <2>2, QuietKeeps
          DEF Fault, queuesAndCores, counters, ghosts, Typed, Counts
<1> QED BY <1>1, <1>2

LEMMA HostKeeps ==
    ASSUME Inv, HostRead \/ ClearRx PROVE Inv'
<1> USE DEF Inv
<1>1. /\ rx_q' \in 0 .. RxSize /\ taken' \in Nat
      /\ \E q \in Nat, k \in Nat : q = rx_q' /\ k = taken' /\ q + k = rx_q + taken
  <2>1. /\ rx_q \in 0 .. RxSize /\ rx_q \in Nat /\ taken \in Nat /\ RxSize \in Nat
    BY Facts DEF Typed, Shapes, Counts
  <2>2. CASE HostRead
    <3>1. rx_q' = rx_q - 1 /\ taken' = taken + 1 /\ rx_q > 0
      BY <2>2 DEF HostRead
    <3>2. rx_q - 1 \in Nat /\ taken + 1 \in Nat /\ (rx_q - 1) + (taken + 1) = rx_q + taken
      BY <2>1, <3>1
    <3> QED BY <2>1, <3>1, <3>2
  <2>3. CASE ClearRx
    <3>1. rx_q' = 0 /\ taken' = taken + rx_q
      BY <2>3 DEF ClearRx
    <3>2. taken + rx_q \in Nat /\ 0 + (taken + rx_q) = rx_q + taken
      BY <2>1
    <3> QED BY <2>1, <3>1, <3>2
  <2> QED BY <2>2, <2>3
<1>2. /\ UNCHANGED <<queuesAndCores, it1, spoiled, isr, sends, frames, rx_fifo,
                     hardware, total_rx_cnt, safety_tx_blocked,
                     tx_buffer_overflow, rx_buffer_overflow>>
      /\ ready' = ready \/ ready' = Refreshed(tx)
  BY DEF HostRead, ClearRx, queuesAndCores, hardware, counters
<1>3. ready' \in BOOLEAN
  BY <1>2 DEF Refreshed, Typed, Shapes
<1>4. Typed'
  BY <1>1, <1>2, <1>3 DEF Typed, Shapes, Counts, queuesAndCores, hardware
<1>5. /\ Received' = Received /\ Waiting' = Waiting /\ Sent' = Sent /\ Handed' = Handed
      /\ Begun'
  BY <1>2 DEF Received, Waiting, Sent, Handed, Begun, queuesAndCores, Books, NoMoreThanCame
<1>6. Sums /\ InHand
  BY SumsAreNat, HandedIsNat DEF Books, NoMoreThanCame
<1>7. NothingUnreported'
  <2>1. rx_q + taken + rx_buffer_overflow = Received + safety_tx_blocked + Sent
    BY DEF Books, NothingUnreported, Received, Sent
  <2>2. PICK q \in Nat, k \in Nat : q = rx_q' /\ k = taken' /\ q + k = rx_q + taken
    BY <1>1
  <2>3. rx_buffer_overflow \in Nat /\ rx_q \in Nat /\ taken \in Nat
    BY Facts DEF Typed, Shapes, Counts
  <2>4. q + k + rx_buffer_overflow = rx_q + taken + rx_buffer_overflow
    BY <2>2, <2>3
  <2>5. rx_q' + taken' + rx_buffer_overflow' = Received' + safety_tx_blocked' + Sent'
    BY <1>1, <1>2, <1>5, <2>1, <2>2, <2>4
  <2> QED BY <2>5 DEF NothingUnreported, Received, Sent
<1>8. Handed <= Handed' /\ Handed + Received <= Handed' + Received'
  BY <1>5, <1>6 DEF Sums, InHand
<1>9. (\A c \in Bus : Within(c)' /\ Balanced(c)') /\ StallsOnlyWhenSpoiled'
  BY <1>2, <1>4, <1>5, <1>8, OthersKeep
<1>10. NotReadyMeansFull'
  <2>1. isr.at # "write"
    BY DEF HostRead, ClearRx, NoIsr
  <2> QED BY <1>2, <1>4, <1>5, <1>8, <2>1, OthersKeep
<1>11. Received' + Waiting' <= frames'
  BY <1>2, <1>5 DEF Books, NoMoreThanCame
<1> QED BY <1>4, <1>5, <1>7, <1>9, <1>10, <1>11 DEF Books, NoMoreThanCame

\* A core is done, or is reset.
LEMMA CoresKeep ==
    ASSUME Inv, NEW b \in Bus, Transmit(b) \/ RxEnd(b) PROVE Inv'
<1> USE DEF Inv
<1>1. PICK out \in {0, 1}, lost \in {0, 1} :
        /\ core' \in [Bus -> {"idle", "busy"}]
        /\ sent' = [sent EXCEPT ![b] = @ + out]
        /\ total_tx_lost_cnt' = [total_tx_lost_cnt EXCEPT ![b] = @ + lost]
        /\ Busy(b)' + out + lost = Busy(b)
        /\ \A c \in Bus \ {b} : core'[c] = core[c]
  <2>1. /\ core \in [Bus -> {"idle", "busy"}] /\ sent \in [Bus -> Nat]
        /\ total_tx_lost_cnt \in [Bus -> Nat]
    BY DEF Typed, Shapes, Counts
  <2>2. /\ sent = [sent EXCEPT ![b] = @ + 0]
        /\ total_tx_lost_cnt = [total_tx_lost_cnt EXCEPT ![b] = @ + 0]
    BY <2>1
  <2>3. CASE Transmit(b)
    <3>1. /\ core' = [core EXCEPT ![b] = "idle"] /\ core[b] = "busy"
          /\ sent' = [sent EXCEPT ![b] = @ + 1]
          /\ total_tx_lost_cnt' = [total_tx_lost_cnt EXCEPT ![b] = @ + 0]
      BY <2>2, <2>3 DEF Transmit, counters
    <3>2. Busy(b)' + 1 + 0 = Busy(b)
      BY <2>1, <3>1 DEF Busy
    <3> QED BY <2>1, <3>1, <3>2
  <2>4. CASE RxEnd(b) /\ core' = core /\ total_tx_lost_cnt' = total_tx_lost_cnt
    <3>1. sent' = [sent EXCEPT ![b] = @ + 0]
          /\ total_tx_lost_cnt' = [total_tx_lost_cnt EXCEPT ![b] = @ + 0]
      BY <2>2, <2>4 DEF RxEnd
    <3>2. Busy(b)' + 0 + 0 = Busy(b)
      BY <2>4 DEF Busy
    <3> QED BY <2>1, <2>4, <3>1, <3>2
  <2>5. CASE /\ RxEnd(b) /\ core' = [core EXCEPT ![b] = "idle"]
             /\ total_tx_lost_cnt' = [total_tx_lost_cnt EXCEPT ![b] =
                                         IF core[b] = "busy" THEN @ + 1 ELSE @]
    <3>1. sent' = [sent EXCEPT ![b] = @ + 0]
      BY <2>2, <2>5 DEF RxEnd
    <3>2. CASE core[b] = "busy"
      <4>1. Busy(b)' + 0 + 1 = Busy(b)
        BY <2>1, <2>5, <3>2 DEF Busy
      <4> QED BY <2>1, <2>5, <3>1, <3>2, <4>1
    <3>3. CASE core[b] = "idle"
      <4>1. Busy(b)' + 0 + 0 = Busy(b)
        BY <2>1, <2>5, <3>3 DEF Busy
      <4>2. total_tx_lost_cnt' = [total_tx_lost_cnt EXCEPT ![b] = @ + 0]
        BY <2>2, <2>5, <3>3
      <4> QED BY <2>1, <2>5, <3>1, <4>1, <4>2
    <3> QED BY <2>1, <3>2, <3>3
  <2>6. RxEnd(b) => \/ core' = core /\ total_tx_lost_cnt' = total_tx_lost_cnt
                    \/ /\ core' = [core EXCEPT ![b] = "idle"]
                       /\ total_tx_lost_cnt' = [total_tx_lost_cnt EXCEPT ![b] =
                                         IF core[b] = "busy" THEN @ + 1 ELSE @]
    BY Zenon DEF RxEnd, RxErrors, CoreReset
  <2> QED BY <2>3, <2>4, <2>5, <2>6
<1>2. /\ UNCHANGED <<tx, ready, rx_q, taken, total_tx_cnt, total_tx_checksum_error_cnt,
                     accepted, discarded, total_rx_cnt, safety_tx_blocked,
                     rx_buffer_overflow, tx_buffer_overflow, sends, frames>>
      /\ isr' = isr \/ (isr' = NoIsr /\ isr.at # "write")
  BY DEF Transmit, RxEnd, counters
<1>3. rx_fifo' = rx_fifo
  <2>1. rx_fifo \in [Bus -> 0 .. RxFifo]
    BY DEF Typed, Shapes
  <2>2. CASE Transmit(b)
    BY <2>2 DEF Transmit
  <2>3. CASE RxEnd(b)
    <3>1. rx_fifo[b] = 0 /\ (rx_fifo' = rx_fifo \/ rx_fifo' = [rx_fifo EXCEPT ![b] = 0])
      BY <2>3, Zenon DEF RxEnd, RxErrors, CoreReset
    <3> QED BY <2>1, <3>1
  <2> QED BY <2>2, <2>3
<1>4. /\ bus_off' \in [Bus -> BOOLEAN] /\ ir' \in [Bus -> SUBSET Flag]
      /\ it0' \in [Bus -> BOOLEAN] /\ it1' \in [Bus -> BOOLEAN]
      /\ spoiled' \in [Bus -> BOOLEAN]
  <2>1. /\ bus_off \in [Bus -> BOOLEAN] /\ ir \in [Bus -> SUBSET Flag]
        /\ it0 \in [Bus -> BOOLEAN] /\ it1 \in [Bus -> BOOLEAN]
        /\ spoiled \in [Bus -> BOOLEAN] /\ "TFE" \in Flag
    BY DEF Typed, Shapes, Flag
  <2>2. CASE Transmit(b)
    BY <2>1, <2>2 DEF Transmit
  <2>3. CASE RxEnd(b)
    <3>1. /\ bus_off' = bus_off \/ bus_off' = [bus_off EXCEPT ![b] = FALSE]
          /\ ir' = ir \/ ir' = [ir EXCEPT ![b] = {}]
          /\ spoiled' = spoiled \/ spoiled' = [spoiled EXCEPT ![b] = TRUE]
      BY <2>3, Zenon DEF RxEnd, RxErrors, CoreReset
    <3>2. it0' = [it0 EXCEPT ![b] = @ \/ ir'[b] \cap {"RF0N", "BO", "ERR"} # {}]
          /\ it1' = it1
      BY <2>3 DEF RxEnd
    <3> QED BY <2>1, <3>1, <3>2
  <2> QED BY <2>2, <2>3
<1>5. isr' \in [at : {"none", "read", "rx", "write"}, bus : SUBSET Bus,
                left : 0 .. MsgsPerWrite, seen : SUBSET Flag]
  BY <1>2, Facts DEF NoIsr, Typed, Shapes
<1>6. Typed'
  <2>1. Shapes'
    BY <1>1, <1>2, <1>3, <1>4, <1>5 DEF Typed, Shapes
  <2>2. Counts'
    BY <1>1, <1>2 DEF Typed, Counts
  <2> QED BY <2>1, <2>2 DEF Typed
<1>7. Sums /\ InHand /\ Amounts
  BY SumsAreNat, HandedIsNat, AmountsAreNat DEF Books, NoMoreThanCame
<1>8. Begun' /\ Handed <= Handed' /\ Received' = Received /\ Waiting' = Waiting
  <2>1. Received' = Received /\ Waiting' = Waiting
    BY <1>2, <1>3 DEF Received, Waiting
  <2>2. sends \in Nat /\ isr.left \in Nat /\ sends' = sends /\ isr.left <= sends
    BY Facts DEF Transmit, RxEnd, Typed, Shapes, Counts, Books, NoMoreThanCame, Begun
  <2>3. CASE isr' = isr
    BY <2>1, <2>2, <2>3 DEF Begun, Handed
  <2>4. CASE isr' = NoIsr
    BY <2>1, <2>2, <2>4 DEF Begun, Handed, NoIsr
  <2> QED BY <1>2, <2>3, <2>4
<1>9. InHand'
  BY <1>6, <1>8, HandedIsNat, PTL
<1>10. Handed + 0 <= Handed' /\ Handed + Received + 0 <= Handed' + Received'
  <2>1. PICK h \in Nat : h = Handed'
    BY <1>9 DEF InHand
  <2>2. Handed <= h
    BY <1>8, <2>1
  <2>3. Handed + 0 <= h /\ Handed + Received + 0 <= h + Received
    BY <1>7, <2>2 DEF Sums, InHand
  <2> QED BY <1>8, <2>1, <2>3
<1>11. \A c \in Bus : Within(c)' /\ Balanced(c)'
  <2>1. \A c \in Bus :
          /\ Took(c)' = Took(c) /\ Queued(c)' = Queued(c) /\ Given(c)' = Given(c)
          /\ Wrong(c)' = Wrong(c) /\ Thrown(c)' = Thrown(c)
          /\ BadIn(tx[c])' = BadIn(tx[c])
    BY <1>2 DEF Took, Queued, Given, Wrong, Thrown, BadIn
  <2>2. Out(b)' = Out(b) + out /\ Lost(b)' = Lost(b) + lost
    BY <1>1 DEF Out, Lost, Typed, Counts
  <2>3. Busy(b)' + out + lost + 0 = Busy(b) + 0
    <3>1. Busy(b) \in Nat /\ Busy(b)' \in Nat
      BY DEF Busy
    <3> QED BY <1>1, <3>1
  <2>4. Moves(b, 0, 0, 0, 0, out, lost, 0, 0)
    BY <1>7, <2>1, <2>2, <2>3 DEF Moves, Amounts
  <2>5. ASSUME NEW c \in Bus \ {b} PROVE Moves(c, 0, 0, 0, 0, 0, 0, 0, 0)
    <3>1. Out(c)' = Out(c) /\ Lost(c)' = Lost(c) /\ Busy(c)' = Busy(c)
      BY <1>1 DEF Out, Lost, Busy, Typed, Counts
    <3> QED BY <1>7, <2>1, <3>1 DEF Moves, Amounts
  <2>6. Within(b)' /\ Balanced(b)'
    BY <1>6, <1>8, <1>10, <2>4, MovesKeep
  <2>7. \A c \in Bus \ {b} : Within(c)' /\ Balanced(c)'
    BY <1>6, <1>8, <1>10, <2>5, MovesKeep
  <2> QED BY <2>6, <2>7
<1>12. StallsOnlyWhenSpoiled'
  <2>1. CASE Transmit(b)
    BY <2>1 DEF Transmit, StallsOnlyWhenSpoiled, Typed, Shapes
  <2>2. CASE RxEnd(b) /\ core' = core /\ spoiled' = spoiled
    BY <2>2 DEF RxEnd, StallsOnlyWhenSpoiled
  <2>3. CASE RxEnd(b) /\ spoiled' = [spoiled EXCEPT ![b] = TRUE]
    BY <1>1, <2>3 DEF RxEnd, StallsOnlyWhenSpoiled, Typed, Shapes
  <2>4. RxEnd(b) => \/ core' = core /\ spoiled' = spoiled
                    \/ spoiled' = [spoiled EXCEPT ![b] = TRUE]
    BY Zenon DEF RxEnd, RxErrors, CoreReset
  <2> QED BY <2>1, <2>2, <2>3, <2>4
<1>13. NotReadyMeansFull'
  BY <1>2 DEF NotReadyMeansFull
<1>14. NothingUnreported'
  BY <1>2 DEF NothingUnreported, Books
<1>15. Received' + Waiting' <= frames'
  BY <1>2, <1>8 DEF Books, NoMoreThanCame
<1> QED
  BY <1>6, <1>8, <1>11, <1>12, <1>13, <1>14, <1>15 DEF Books, NoMoreThanCame

\* A queue is cleared, or all of them and the cores.
LEMMA ClearsKeep ==
    ASSUME Inv, (\E b \in Bus : ClearQueue(b)) \/ CanInitAll PROVE Inv'
<1> USE DEF Inv
<1> DEFINE Cleared(c, gone, cut) ==
              /\ Queued(c)' + gone = Queued(c) /\ Busy(c)' + cut = Busy(c)
              /\ Thrown(c)' = Thrown(c) + gone + cut
              /\ BadIn(tx[c])' <= BadIn(tx[c])
              /\ (tx'[c] = tx[c] /\ core'[c] = core[c]) \/ tx'[c] = <<>>
<1>1. Sums /\ InHand /\ Amounts /\ Begun
  BY SumsAreNat, HandedIsNat, AmountsAreNat DEF Books, NoMoreThanCame
<1>2. /\ tx \in [Bus -> Seq({"good", "bad"})] /\ core \in [Bus -> {"idle", "busy"}]
      /\ discarded \in [Bus -> Nat] /\ \A c \in Bus : Len(tx[c]) \in Nat
  BY DEF Typed, Shapes, Counts
<1>3. /\ <<>> \in Seq({"good", "bad"}) /\ Len(<<>>) = 0 /\ BadIn(<<>>) = 0
  <2>1. Bad(<<>>) = {}
    BY DEF Bad
  <2> QED BY <2>1, FS_EmptySet DEF BadIn
<1>4. /\ UNCHANGED <<it0, it1, isr, rx_q, taken, total_tx_cnt, total_tx_lost_cnt,
                     total_tx_checksum_error_cnt, total_rx_cnt, safety_tx_blocked,
                     rx_buffer_overflow, tx_buffer_overflow, sends, frames, accepted,
                     sent, spoiled>>
      /\ ready' = Refreshed(tx') /\ isr = NoIsr
  BY DEF ClearQueue, CanInitAll, hardware, counters
<1>5. /\ tx' \in [Bus -> Seq({"good", "bad"})] /\ core' \in [Bus -> {"idle", "busy"}]
      /\ discarded' \in [Bus -> Nat]
      /\ \A c \in Bus : \E gone, cut \in Nat : Cleared(c, gone, cut)
  <2>1. ASSUME NEW b \in Bus, ClearQueue(b)
        PROVE  /\ tx' \in [Bus -> Seq({"good", "bad"})] /\ core' \in [Bus -> {"idle", "busy"}]
               /\ discarded' \in [Bus -> Nat]
               /\ \A c \in Bus : \E gone, cut \in Nat : Cleared(c, gone, cut)
    <3>1. /\ tx' = [tx EXCEPT ![b] = <<>>] /\ core' = core
          /\ discarded' = [discarded EXCEPT ![b] = discarded[b] + Len(tx[b])]
      BY <2>1 DEF ClearQueue, hardware
    <3>2. ASSUME NEW c \in Bus PROVE \E gone, cut \in Nat : Cleared(c, gone, cut)
      <4>1. Busy(c)' = Busy(c) /\ Busy(c) \in Nat /\ BadIn(tx[c]) \in Nat
            /\ Thrown(c) \in Nat /\ Queued(c) \in Nat
        BY <1>1, <3>1 DEF Busy, Amounts
      <4>2. CASE c = b
        <5>1. /\ Queued(b)' = 0 /\ BadIn(tx[b])' = 0 /\ tx'[b] = <<>>
              /\ Thrown(b)' = Thrown(b) + Queued(b)
          BY <1>2, <1>3, <3>1 DEF Queued, BadIn, Thrown
        <5>2. Cleared(b, Queued(b), 0)
          BY <4>1, <4>2, <5>1
        <5> QED BY <4>1, <4>2, <5>2
      <4>3. CASE c # b
        <5>1. tx'[c] = tx[c] /\ core'[c] = core[c] /\ Thrown(c)' = Thrown(c)
          BY <1>2, <3>1, <4>3 DEF Thrown
        <5>2. Queued(c)' = Queued(c) /\ BadIn(tx[c])' = BadIn(tx[c])
          BY <5>1 DEF Queued, BadIn
        <5>3. Cleared(c, 0, 0)
          BY <4>1, <5>1, <5>2
        <5> QED BY <5>3
      <4> QED BY <4>2, <4>3
    <3>3. /\ tx' \in [Bus -> Seq({"good", "bad"})] /\ core' \in [Bus -> {"idle", "busy"}]
          /\ discarded' \in [Bus -> Nat]
      BY <1>2, <1>3, <3>1
    <3> QED BY <3>2, <3>3
  <2>2. CASE CanInitAll
    <3>1. /\ tx' = [c \in Bus |-> <<>>] /\ core' = [c \in Bus |-> "idle"]
          /\ discarded' = [c \in Bus |-> discarded[c] + Len(tx[c]) + Busy(c)]
      BY <2>2 DEF CanInitAll, Busy
    <3>2. ASSUME NEW c \in Bus PROVE \E gone, cut \in Nat : Cleared(c, gone, cut)
      <4>1. /\ Busy(c) \in Nat /\ BadIn(tx[c]) \in Nat /\ Thrown(c) \in Nat
            /\ Queued(c) \in Nat
        BY <1>1 DEF Amounts
      <4>2. /\ tx'[c] = <<>> /\ Queued(c)' = 0 /\ BadIn(tx[c])' = 0 /\ Busy(c)' = 0
            /\ Thrown(c)' = Thrown(c) + Queued(c) + Busy(c)
        BY <1>3, <3>1 DEF Queued, BadIn, Busy, Thrown
      <4>3. Cleared(c, Queued(c), Busy(c))
        BY <4>1, <4>2
      <4> QED BY <4>1, <4>3
    <3>3. /\ tx' \in [Bus -> Seq({"good", "bad"})] /\ core' \in [Bus -> {"idle", "busy"}]
      BY <1>3, <3>1
    <3>4. discarded' \in [Bus -> Nat]
      <4>1. \A c \in Bus : Busy(c) \in Nat
        BY DEF Busy
      <4> QED BY <1>2, <3>1, <4>1
    <3> QED BY <3>2, <3>3, <3>4
  <2> QED BY <2>1, <2>2
<1> HIDE DEF Cleared
<1>6. Typed'
  <2>1. /\ rx_fifo' \in [Bus -> 0 .. RxFifo] /\ bus_off' \in [Bus -> BOOLEAN]
        /\ ir' \in [Bus -> SUBSET Flag] /\ ready' \in BOOLEAN
    <3>1. 0 \in 0 .. RxFifo
      BY Facts
    <3>2. CASE CanInitAll
      BY <1>4, <3>1, <3>2 DEF CanInitAll, Refreshed, Typed, Shapes
    <3>3. CASE UNCHANGED <<rx_fifo, bus_off, ir>>
      BY <1>4, <3>3 DEF Refreshed, Typed, Shapes
    <3> QED BY <3>2, <3>3 DEF ClearQueue, hardware
  <2>2. \A c \in Bus : Len(tx'[c]) <= TxSize
    BY <1>2, <1>3, <1>5, Facts DEF Cleared, Typed, Shapes
  <2> QED BY <1>4, <1>5, <2>1, <2>2 DEF Typed, Shapes, Counts
<1>7. /\ Begun' /\ Handed' = Handed /\ Received' = Received /\ Sent' = Sent
      /\ Received' + Waiting' <= frames'
  <2>1. /\ Begun' /\ Handed' = Handed /\ Received' = Received /\ Sent' = Sent
        /\ frames' = frames
    BY <1>1, <1>4 DEF Begun, Handed, Received, Sent
  <2>2. Waiting' = Waiting \/ Waiting' = 0
    <3>1. CASE CanInitAll
      <4>1. IsFiniteSet(Bus) /\ rx_fifo' = [c \in Bus |-> 0]
        BY <3>1, Facts DEF CanInitAll
      <4>2. SumFunction([c \in Bus |-> 0]) = 0
        <5> DEFINE zero == [c \in Bus |-> 0]
        <5>1. zero \in [Bus -> Nat] /\ \A c \in Bus : zero[c] = 0
          OBVIOUS
        <5> HIDE DEF zero
        <5>2. SumFunction(zero) = 0
          BY <4>1, <5>1, SumOfZero, Zenon
        <5> QED BY <5>2 DEF zero
      <4> QED BY <4>1, <4>2 DEF Waiting
    <3>2. CASE rx_fifo' = rx_fifo
      BY <3>2 DEF Waiting
    <3> QED BY <3>1, <3>2 DEF ClearQueue, hardware
  <2>3. /\ Received \in Nat /\ Waiting \in Nat /\ frames \in Nat
        /\ Received + Waiting <= frames
    BY <1>1 DEF Sums, Books, NoMoreThanCame, Typed, Counts
  <2>4. Received + 0 <= frames
    BY <2>3
  <2> QED BY <2>1, <2>2, <2>3, <2>4
<1>8. Handed + 0 <= Handed' /\ Handed + Received + 0 <= Handed' + Received'
  BY <1>1, <1>7 DEF Sums, InHand
<1>9. ASSUME NEW c \in Bus PROVE Within(c)' /\ Balanced(c)'
  <2>1. PICK gone \in Nat, cut \in Nat : Cleared(c, gone, cut)
    BY <1>5
  <2>2. /\ Took(c)' = Took(c) /\ Given(c)' = Given(c) /\ Wrong(c)' = Wrong(c)
        /\ Out(c)' = Out(c) /\ Lost(c)' = Lost(c)
    BY <1>4 DEF Took, Given, Wrong, Out, Lost
  <2>3. Amounts'
    BY <1>6, AmountsAreNat, PTL
  <2>4. Moves(c, 0, 0, 0, 0, 0, 0, gone, cut)
    <3>1. /\ Took(c) \in Nat /\ Given(c) \in Nat /\ Wrong(c) \in Nat /\ Out(c) \in Nat
          /\ Lost(c) \in Nat /\ Queued(c) \in Nat /\ Busy(c) \in Nat
          /\ BadIn(tx[c]) \in Nat
          /\ Queued(c)' \in Nat /\ Busy(c)' \in Nat /\ BadIn(tx[c])' \in Nat
      BY <1>1, <2>3 DEF Amounts
    <3>2. /\ Queued(c)' + 0 + 0 + gone = Queued(c) + 0
          /\ Busy(c)' + 0 + 0 + cut = Busy(c) + 0
          /\ BadIn(tx[c])' + 0 <= BadIn(tx[c]) + 0
      BY <2>1, <3>1 DEF Cleared
    <3>3. Thrown(c)' = Thrown(c) + gone + cut
      BY <2>1 DEF Cleared
    <3> QED BY <2>2, <3>1, <3>2, <3>3 DEF Moves
  <2> QED BY <1>6, <1>7, <1>8, <2>4, MovesKeep
<1>10. StallsOnlyWhenSpoiled'
  BY <1>4, <1>5 DEF Cleared, StallsOnlyWhenSpoiled
<1>11. NotReadyMeansFull'
  <2>1. \A c \in Bus : Len(tx'[c]) \in Nat
    BY <1>5
  <2> SUFFICES ASSUME ~Refreshed(tx') PROVE \E c \in Bus : free(tx'[c]) < MinSlots
    BY <1>4 DEF NotReadyMeansFull
  <2>2. ~(\A c \in Bus : free(tx'[c]) >= MinSlots)
    BY DEF Refreshed
  <2> QED BY <2>1, <2>2, Facts DEF free
<1>12. NothingUnreported'
  BY <1>4 DEF NothingUnreported, Books
<1> QED BY <1>6, <1>7, <1>9, <1>10, <1>11, <1>12 DEF Books, NoMoreThanCame

LEMMA StepKeeps == Inv /\ [Next]_vars => Inv'
<1> SUFFICES ASSUME Inv, [Next]_vars PROVE Inv'
  OBVIOUS
<1>1. CASE Environment
  BY <1>1, BusKeeps DEF Environment
<1>2. ASSUME NEW b \in Bus, Transmit(b) \/ Core(b) PROVE Inv'
  BY <1>2, It1Keeps, HandlersKeep, RxFrameKeeps, CoresKeep DEF Core
<1>3. CASE WriteFrame
  BY <1>3, WriteFrameKeeps
<1>4. CASE WriteEnd
  BY <1>4, WritesKeep
<1>5. CASE Host
  BY <1>5, WritesKeep, HostKeeps, ClearsKeep DEF Host
<1>6. CASE UNCHANGED vars
  <2>1. Shapes'
    BY <1>6 DEF vars, hardware, counters, ghosts, Inv, Typed, Shapes
  <2>2. Begun' /\ Handed' = Handed /\ NotReadyMeansFull'
    BY <1>6 DEF vars, Begun, Handed, NotReadyMeansFull, Inv, Books, NoMoreThanCame
  <2> QED BY <1>6, <2>1, <2>2, QuietKeeps
          DEF vars, hardware, counters, ghosts, queuesAndCores, Inv, Typed, Counts
<1> QED BY <1>1, <1>2, <1>3, <1>4, <1>5, <1>6 DEF Next

LEMMA Starts == Init => Inv
<1> SUFFICES ASSUME Init PROVE Inv
  OBVIOUS
<1>1. Typed
  <2>1. 0 \in 0 .. RxFifo /\ 0 \in 0 .. RxSize /\ 0 \in 0 .. MsgsPerWrite
        /\ 0 \in 0 .. MaxSends /\ 0 \in 0 .. MaxFrames /\ 0 <= TxSize
    BY Facts
  <2>2. Shapes
    BY <2>1 DEF Init, Shapes, Zero, NoIsr
  <2>3. Counts
    BY <2>1 DEF Init, Counts, Zero
  <2> QED BY <2>2, <2>3 DEF Typed
<1>2. Received = 0 /\ Waiting = 0 /\ Sent = 0
  <2>1. Zero \in [Bus -> Nat] /\ \A c \in Bus : Zero[c] = 0
    BY DEF Zero
  <2>2. IsFiniteSet(Bus)
    BY Facts
  <2>3. SumFunction(Zero) = 0
    BY <2>1, <2>2, SumOfZero, Zenon
  <2> QED BY <2>3 DEF Init, Received, Waiting, Sent
<1>3. Handed = 0 /\ Begun
  BY DEF Init, Handed, Begun, NoIsr
<1>4. ASSUME NEW b \in Bus PROVE Within(b) /\ Balanced(b)
  <2>1. Bad(<<>>) = {}
    BY DEF Bad
  <2>2. BadIn(tx[b]) = 0
    BY <2>1, FS_EmptySet DEF Init, BadIn
  <2>3. /\ Took(b) = 0 /\ Queued(b) = 0 /\ Wrong(b) = 0 /\ Given(b) = 0
        /\ Busy(b) = 0 /\ Out(b) = 0 /\ Lost(b) = 0 /\ Thrown(b) = 0
    BY DEF Init, Zero, Took, Queued, Wrong, Given, Busy, Out, Lost, Thrown
  <2> QED BY <1>2, <1>3, <2>2, <2>3 DEF Within, Balanced
<1>5. NothingUnreported
  BY <1>2 DEF Init, NothingUnreported, Received, Sent
<1>6. StallsOnlyWhenSpoiled /\ NotReadyMeansFull
  BY DEF Init, StallsOnlyWhenSpoiled, NotReadyMeansFull
<1>7. Received + Waiting <= frames
  BY <1>2 DEF Init
<1> QED BY <1>1, <1>3, <1>4, <1>5, <1>6, <1>7 DEF Inv, Books, NoMoreThanCame

-----------------------------------------------------------------------------
(* The theorems *)

\* Every reachable state satisfies the invariant: the queues, the cores and the
\* counters of fdcan.h and can_common.h have their types, and the books of
\* every bus and of can_rx_q are right.
THEOREM Invariance == Spec => []Inv
<1>1. Init => Inv
  BY Starts
<1>2. Inv /\ [Next]_vars => Inv'
  BY StepKeeps
<1> QED BY <1>1, <1>2, PTL DEF Spec

\* The state keeps its types and bounds: no tx queue holds more than its array
\* (can_push, can_common.h), can_rx_q neither, and no counter of the health
\* packets runs past what the host and the car have sent.
THEOREM TypeCorrect == Spec => []TypeOK
<1>1. Inv => TypeOK
  BY BoundsTypes DEF Inv, Books
<1> QED BY <1>1, Invariance, PTL

\* Between the host and a bus, and between a bus and the host, no packet is
\* lost that no counter of the health packets reports (process_can, can_send,
\* can_rx and update_can_health_pkt), for any number of buses and whatever
\* safety_fwd_hook forwards.
THEOREM NoLossGoesUncounted == Spec => []LossesAreCounted
<1>1. Inv => LossesAreCounted
  BY AccountedIs DEF Inv, Books, LossesAreCounted
<1> QED BY <1>1, Invariance, PTL

\* No packet is invented or sent twice: on each bus the frames that went out
\* are at most the packets handed to the core, these at most what can_send
\* queued, and this at most what the host's transfers and can_rx handed in
\* (process_can pops a packet before it gives it to the core).
THEOREM NothingIsInvented == Spec => []NoMoreThanCame
<1>1. Inv => NoMoreThanCame
  BY DEF Inv, Books
<1> QED BY <1>1, Invariance, PTL

\* Whichever handler cleared the flags of IR, a tx queue that is not empty has
\* a busy core or a pending interrupt, unless the last packet popped had a
\* wrong checksum or the core was reset (FDCANx_IT1_IRQ_Handler, process_can).
THEOREM NoQueueIsForgotten == Spec => []StallsOnlyWhenSpoiled
<1>1. Inv => StallsOnlyWhenSpoiled
  BY DEF Inv
<1> QED BY <1>1, Invariance, PTL

\* spi_can_tx_ready is never FALSE without a reason: outside a transfer some
\* queue lacks the room for one (refresh_can_tx_slots_available).
THEOREM RefusalsHaveAReason == Spec => []NotReadyMeansFull
<1>1. Inv => NotReadyMeansFull
  BY DEF Inv
<1> QED BY <1>1, Invariance, PTL
=============================================================================
