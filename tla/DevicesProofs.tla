---------------------------- MODULE DevicesProofs --------------------------
(***************************************************************************)
(* Theorems about CanQueue, Uart, Bootkick and Flash, for every size of a  *)
(* ring, of the flash memory and of an image, and every length of a wait:  *)
(* the queue of CAN packets has its types, holds packets only and          *)
(* implements the bounded FIFO of CanFifo; a UART ring keeps the most      *)
(* recent bytes; a reset that was triggered is used up once; an image that *)
(* runs is a whole one, whatever cut the flasher off.                      *)
(***************************************************************************)
EXTENDS CanQueue, Uart, Bootkick, Flash, SequenceTheorems, TLAPS

-----------------------------------------------------------------------------
(* CanQueue: the invariant *)

\* The two facts together are inductive: a push writes a packet just behind
\* the contents, a pop leaves one end of them.
QueueInv == TypeOK /\ OnlyPackets

-----------------------------------------------------------------------------
(* Indices *)

\* The hand-written wrap-around of can_push and can_pop stays in the array.
LEMMA NextIndexInRange ==
    ASSUME NEW i \in Index PROVE NextIndex(i) \in Index
  BY QueueAssumption DEF Index, NextIndex

\* Between the indices lie at most fifo_size - 1 elements, and each of them
\* is an element of the array (the arithmetic can_slots_empty relies on).
LEMMA CountRange ==
    ASSUME TypeOK
    PROVE  /\ Count \in 0 .. fifo_size - 1
           /\ \A i \in 1 .. fifo_size : Slot(i) \in Index
           /\ SlotsEmpty = fifo_size - 1 - Count
  BY QueueAssumption DEF TypeOK, Index, Count, Slot, SlotsEmpty

\* The contents, seen as a sequence of packets.
LEMMA ContentsSeq ==
    QueueInv => /\ Contents \in Seq(Packet)
           /\ Len(Contents) = Count
           /\ \A i \in 1 .. Count : Contents[i] = elems[Slot(i)]
  <1> SUFFICES ASSUME QueueInv
               PROVE  /\ Contents \in Seq(Packet)
                      /\ Len(Contents) = Count
                      /\ \A i \in 1 .. Count : Contents[i] = elems[Slot(i)]
    OBVIOUS
  <1> USE DEF QueueInv
  <1>1. Count \in Nat
    BY CountRange, QueueAssumption
  <1>2. \A i \in 1 .. Count : elems[Slot(i)] \in Packet
    BY DEF OnlyPackets
  <1> QED
    BY <1>1, <1>2 DEF Contents

-----------------------------------------------------------------------------
(* The invariant *)

LEMMA QueueStarts == Init => QueueInv
  <1> SUFFICES ASSUME Init PROVE QueueInv
    OBVIOUS
  <1>1. TypeOK
    <2>1. elems \in [Index -> Packet \cup {NoPacket}]
      BY DEF Init
    <2>2. 0 \in Index
      BY QueueAssumption DEF Index
    <2> QED
      BY <2>1, <2>2 DEF Init, TypeOK, Index
  <1>2. Count = 0
    BY DEF Init, Count
  <1> QED
    BY <1>1, <1>2 DEF QueueInv, OnlyPackets

LEMMA QueueStep == QueueInv /\ [Next]_vars => QueueInv'
  <1> SUFFICES ASSUME QueueInv, [Next]_vars PROVE QueueInv'
    OBVIOUS
  <1> USE QueueAssumption DEF QueueInv, TypeOK, OnlyPackets, Index
  <1>1. ASSUME NEW p \in Packet, can_push(p) PROVE QueueInv'
    <2>1. CASE NextIndex(w_ptr) = r_ptr
      BY <1>1, <2>1 DEF can_push, Count, Slot
    <2>2. CASE NextIndex(w_ptr) # r_ptr
      <3>1. TypeOK'
        BY <1>1, <2>2, NextIndexInRange DEF can_push
      <3>2. /\ Count' = Count + 1 /\ Count \in Nat /\ Count < fifo_size
            /\ Slot(Count + 1) = w_ptr
        BY <1>1, <2>2 DEF can_push, NextIndex, Count, Slot
      <3>3. \A i \in 1 .. Count : Slot(i)' = Slot(i) /\ Slot(i) # w_ptr
        BY <1>1, <2>2 DEF can_push, NextIndex, Count, Slot
      <3>4. \A i \in 1 .. fifo_size : Slot(i) \in Index /\ Slot(i)' = Slot(i)
        BY <1>1, <2>2, CountRange DEF can_push, Slot
      <3>5. ASSUME NEW i \in 1 .. Count' PROVE elems'[Slot(i)'] \in Packet
        <4>1. CASE i = Count + 1
          BY <1>1, <2>2, <3>2, <3>4, <4>1 DEF can_push
        <4>2. CASE i \in 1 .. Count
          BY <1>1, <2>2, <3>2, <3>3, <3>4, <4>2 DEF can_push
        <4> QED
          BY <3>2, <3>5, <4>1, <4>2
      <3> QED
        BY <3>1, <3>5
    <2> QED
      BY <2>1, <2>2
  <1>2. CASE can_pop
    <2>1. CASE w_ptr # r_ptr
      <3>1. Slot(1) = r_ptr /\ Count >= 1
        BY <2>1 DEF Slot, Count
      <3>2. elem' \in Packet
        BY <1>2, <2>1, <3>1, CountRange DEF can_pop
      <3>3. TypeOK'
        BY <1>2, <2>1, <3>2, NextIndexInRange DEF can_pop
      <3>4. Count' = Count - 1
        BY <1>2, <2>1 DEF can_pop, NextIndex, Count
      <3>5. \A i \in 1 .. Count' : Slot(i)' = Slot(i + 1)
        BY <1>2, <2>1, <3>4, CountRange, SMTT(30) DEF can_pop, NextIndex, Slot
      <3>6. \A i \in 1 .. Count' : i + 1 \in 1 .. Count
        BY <3>4, CountRange
      <3> QED
        BY <1>2, <2>1, <3>3, <3>5, <3>6 DEF can_pop
    <2>2. CASE w_ptr = r_ptr
      BY <1>2, <2>2 DEF can_pop, Count, Slot
    <2> QED
      BY <2>1, <2>2
  <1>3. CASE can_slots_empty
    BY <1>3, CountRange DEF can_slots_empty, Count, Slot
  <1>4. CASE can_clear
    BY <1>4 DEF can_clear, Count
  <1>5. CASE UNCHANGED vars
    BY <1>5 DEF vars, Count, Slot
  <1> QED
    BY <1>1, <1>2, <1>3, <1>4, <1>5 DEF Next

\* Type correctness and clean contents: the indices never leave the array,
\* can_slots_empty answers with a number between 0 and fifo_size - 1, and
\* can_pop delivers nothing but packets that were pushed (can_push, can_pop,
\* can_slots_empty and can_clear of can_common.h).
THEOREM QueueInvariance == Spec => [](TypeOK /\ OnlyPackets)
  <1>1. Init => QueueInv
    BY QueueStarts
  <1>2. QueueInv /\ [Next]_vars => QueueInv'
    BY QueueStep
  <1> QED
    BY <1>1, <1>2, PTL DEF Spec, QueueInv

-----------------------------------------------------------------------------
(* Refinement *)

LEMMA PushRefines ==
    ASSUME QueueInv, NEW p \in Packet, can_push(p)
    PROVE  Fifo!Push(p) \/ Fifo!PushFull
  <1> USE QueueAssumption DEF QueueInv
  <1>1. QueueInv'
    BY QueueStep DEF Next
  <1>2. CASE NextIndex(w_ptr) = r_ptr
    <2>1. Count = fifo_size - 1
      BY <1>2 DEF NextIndex, Count, TypeOK, Index
    <2>2. /\ Contents' = Contents
          /\ call' = "push" /\ ret' = FALSE /\ UNCHANGED <<slots, elem>>
      BY <1>2 DEF can_push, Contents, Count, Slot
    <2> QED
      BY <2>1, <2>2, ContentsSeq DEF Fifo!PushFull
  <1>3. CASE NextIndex(w_ptr) # r_ptr
    <2>1. /\ Count < fifo_size - 1
          /\ Count' = Count + 1
          /\ Slot(Count + 1) = w_ptr
      BY <1>3 DEF can_push, NextIndex, Count, Slot, TypeOK, Index
    <2>2. \A i \in 1 .. Count : Slot(i)' = Slot(i) /\ Slot(i) # w_ptr
      BY <1>3 DEF can_push, NextIndex, Count, Slot, TypeOK, Index
    <2>3. /\ Contents' \in Seq(Packet)
          /\ Len(Contents') = Count + 1
          /\ \A i \in 1 .. Count + 1 : Contents'[i] = elems'[Slot(i)']
      <3>1. (/\ Contents \in Seq(Packet)
             /\ Len(Contents) = Count
             /\ \A i \in 1 .. Count : Contents[i] = elems[Slot(i)])'
        BY <1>1, ContentsSeq, PTL
      <3> QED
        BY <2>1, <3>1
    <2>4. Contents \in Seq(Packet) /\ Len(Contents) = Count /\ Count \in Nat
      BY ContentsSeq, CountRange
    <2>5. \A i \in 1 .. Count : Contents'[i] = Contents[i]
      BY <1>3, <2>2, <2>3, <2>4, CountRange, ContentsSeq
         DEF can_push, TypeOK
    <2>6. Contents'[Count + 1] = p
      BY <1>3, <2>1, <2>3, <2>4 DEF can_push, Slot, TypeOK
    <2>7. Contents' = Append(Contents, p)
      <3> DEFINE s == Append(Contents, p)
      <3>1. /\ s \in Seq(Packet)
            /\ Len(s) = Count + 1
            /\ \A i \in 1 .. Count : s[i] = Contents[i]
            /\ s[Count + 1] = p
        BY <2>4
      <3>2. \A i \in 1 .. Count + 1 : Contents'[i] = s[i]
        BY <2>4, <2>5, <2>6, <3>1
      <3> HIDE DEF s
      <3> DEFINE c == Contents'
      <3>3. /\ c \in Seq(Packet) /\ s \in Seq(Packet) /\ Len(c) = Len(s)
            /\ \A i \in 1 .. Len(c) : c[i] = s[i]
        BY <2>3, <3>1, <3>2
      <3> HIDE DEF c
      <3>4. c = s
        BY <3>3, SeqEqual
      <3> QED
        BY <3>4 DEF c, s
    <2>8. call' = "push" /\ ret' = TRUE /\ UNCHANGED <<slots, elem>>
      BY <1>3 DEF can_push
    <2> QED
      BY <2>1, <2>4, <2>7, <2>8 DEF Fifo!Push
  <1> QED
    BY <1>2, <1>3

LEMMA PopRefines ==
    ASSUME QueueInv, can_pop
    PROVE  Fifo!Pop \/ Fifo!PopEmpty
  <1> USE QueueAssumption DEF QueueInv
  <1>1. QueueInv'
    BY QueueStep DEF Next
  <1>2. CASE w_ptr = r_ptr
    <2>1. Count = 0
      BY <1>2 DEF Count, TypeOK, Index
    <2>2. Contents = <<>>
      BY <2>1, ContentsSeq
    <2>3. /\ Contents' = Contents
          /\ call' = "pop" /\ ret' = FALSE /\ UNCHANGED <<slots, elem>>
      BY <1>2 DEF can_pop, Contents, Count, Slot
    <2> QED
      BY <2>2, <2>3 DEF Fifo!PopEmpty
  <1>3. CASE w_ptr # r_ptr
    <2>1. /\ Count \in Nat /\ Count >= 1
          /\ Count' = Count - 1
          /\ Slot(1) = r_ptr
      BY <1>3 DEF can_pop, NextIndex, Count, Slot, TypeOK, Index
    <2>2. \A i \in 1 .. Count - 1 : Slot(i)' = Slot(i + 1)
      BY <1>3, <2>1, CountRange
         DEF can_pop, NextIndex, Slot, TypeOK, Index
    <2>3. /\ Contents' \in Seq(Packet)
          /\ Len(Contents') = Count - 1
          /\ \A i \in 1 .. Count - 1 : Contents'[i] = elems'[Slot(i)']
      <3>1. (/\ Contents \in Seq(Packet)
             /\ Len(Contents) = Count
             /\ \A i \in 1 .. Count : Contents[i] = elems[Slot(i)])'
        BY <1>1, ContentsSeq, PTL
      <3> QED
        BY <2>1, <3>1
    <2>4. /\ Contents \in Seq(Packet)
          /\ Len(Contents) = Count
          /\ \A i \in 1 .. Count : Contents[i] = elems[Slot(i)]
          /\ Contents # <<>>
      BY <2>1, ContentsSeq
    <2>5. elems' = elems /\ call' = "pop" /\ ret' = TRUE /\ UNCHANGED slots
      BY <1>3 DEF can_pop
    <2>6. elem' = Head(Contents)
      BY <1>3, <2>1, <2>4 DEF can_pop
    <2>7. Contents' = Tail(Contents)
      <3> DEFINE t == Tail(Contents)
      <3>1. /\ t \in Seq(Packet)
            /\ Len(t) = Count - 1
            /\ \A i \in 1 .. Count - 1 : t[i] = Contents[i + 1]
        BY <2>4, HeadTailProperties
      <3>2. \A i \in 1 .. Count - 1 : Contents'[i] = t[i]
        BY <2>1, <2>2, <2>3, <2>4, <2>5, <3>1
      <3> HIDE DEF t
      <3> DEFINE c == Contents'
      <3>3. /\ c \in Seq(Packet) /\ t \in Seq(Packet) /\ Len(c) = Len(t)
            /\ \A i \in 1 .. Len(c) : c[i] = t[i]
        BY <2>3, <3>1, <3>2
      <3> HIDE DEF c
      <3>4. c = t
        BY <3>3, SeqEqual
      <3> QED
        BY <3>4 DEF c, t
    <2> QED
      BY <2>4, <2>5, <2>6, <2>7 DEF Fifo!Pop
  <1> QED
    BY <1>2, <1>3

LEMMA NextRefines == QueueInv /\ [Next]_vars => [Fifo!Next]_Fifo!vars
  <1> SUFFICES ASSUME QueueInv, [Next]_vars PROVE [Fifo!Next]_Fifo!vars
    OBVIOUS
  <1>1. ASSUME NEW p \in Packet, can_push(p) PROVE Fifo!Next
    BY <1>1, PushRefines DEF Fifo!Next
  <1>2. CASE can_pop
    BY <1>2, PopRefines DEF Fifo!Next
  <1>3. CASE can_slots_empty
    BY <1>3, CountRange, ContentsSeq, QueueAssumption
       DEF QueueInv, can_slots_empty, Fifo!Next, Fifo!SlotsEmpty, Contents, Count,
           Slot
  <1>4. CASE can_clear
    <2>1. Contents' = <<>>
      BY <1>4 DEF can_clear, Contents, Count
    <2> QED
      BY <1>4, <2>1 DEF can_clear, Fifo!Next, Fifo!Clear
  <1>5. CASE UNCHANGED vars
    BY <1>5 DEF vars, Fifo!vars, Contents, Count, Slot
  <1> QED
    BY <1>1, <1>2, <1>3, <1>4, <1>5 DEF Next

\* The ring implements the bounded FIFO: whatever the order in which the USB,
\* SPI and CAN handlers push, pop and clear, packets come out once, in the
\* order they went in, and a push is refused only by a full queue.
THEOREM Refinement == Spec => RefinesFifo
  <1>1. Init => Fifo!Init
    BY QueueAssumption DEF Init, Fifo!Init, Contents, Count
  <1>2. QueueInv /\ [Next]_vars => [Fifo!Next]_Fifo!vars
    BY NextRefines
  <1>3. Spec => []QueueInv
    BY QueueInvariance DEF QueueInv
  <1> QED
    BY <1>1, <1>2, <1>3, PTL DEF Spec, Fifo!Spec, RefinesFifo

-----------------------------------------------------------------------------
(* Bootkick: a reset that was triggered uses up the one there is *)

\* While the wait runs, it runs since the kick, out of a reset and before one.
WaitRuns == waiting_to_boot_countdown > 0 =>
                /\ waiting_to_boot_countdown < WaitTicks
                /\ boot_state = "BOOTKICK"
                /\ ~bootkick_reset_triggered
                /\ quiet = WaitTicks - waiting_to_boot_countdown

\* What is left of the one reset, and what it was used for.
ResetIsUsedUp ==
    IF bootkick_reset_triggered
    THEN /\ held = ResetTicks - boot_reset_countdown
         /\ boot_state # "RESET" => boot_reset_countdown = 0
    ELSE /\ held = 0
         /\ boot_reset_countdown = 0
         /\ boot_state # "RESET"

BootInv == BootTypeOK /\ WaitRuns /\ ResetIsUsedUp

\* The countdowns of a tick.
LEMMA WaitingIs ==
    ASSUME BootInv, NEW alive \in BOOLEAN, NEW wanted \in {"STANDBY", "BOOTKICK", "RESET"}
    PROVE  /\ Waiting(wanted, alive) \in 0 .. WaitTicks
           /\ Waiting(wanted, alive) > 0 =>
                /\ ~alive /\ wanted = "BOOTKICK" /\ ~bootkick_reset_triggered
                /\ \/ /\ boot_state = "STANDBY"
                      /\ Waiting(wanted, alive) = WaitTicks
                   \/ /\ boot_state = "BOOTKICK"
                      /\ Waiting(wanted, alive) = waiting_to_boot_countdown
                      /\ quiet = WaitTicks - waiting_to_boot_countdown
                      /\ waiting_to_boot_countdown < WaitTicks
BY BootkickAssumption DEF BootkickAssumption, BootInv, BootTypeOK, BootState, WaitRuns, Waiting, Armed

LEMMA BootkickInit == BootInit => BootInv
<1> SUFFICES ASSUME BootInit PROVE BootInv
  OBVIOUS
<1>1. WaitTicks \in Nat /\ ResetTicks \in Nat
  BY BootkickAssumption DEF BootkickAssumption
<1>2. BootTypeOK
  <2>1. /\ boot_state \in BootState
        /\ bootkick_ign_prev \in BOOLEAN
        /\ bootkick_harness_status_prev \in Harness
        /\ bootkick_reset_triggered \in BOOLEAN
    BY DEF BootInit, BootState, Harness
  <2>2. /\ waiting_to_boot_countdown \in 0 .. WaitTicks
        /\ boot_reset_countdown \in 0 .. ResetTicks
        /\ quiet \in 0 .. WaitTicks
        /\ held \in 0 .. ResetTicks + 1
    BY <1>1 DEF BootInit
  <2> QED BY <2>1, <2>2 DEF BootTypeOK
<1>3. WaitRuns /\ ResetIsUsedUp
  BY <1>1 DEF BootInit, WaitRuns, ResetIsUsedUp
<1> QED BY <1>2, <1>3 DEF BootInv

LEMMA BootkickStep == BootInv /\ [BootNext]_bootVars => BootInv'
<1> SUFFICES ASSUME BootInv, [BootNext]_bootVars PROVE BootInv'
  OBVIOUS
<1>1. CASE UNCHANGED bootVars
  BY <1>1 DEF bootVars, BootInv, BootTypeOK, WaitRuns, ResetIsUsedUp
<1>2. ASSUME NEW ignition \in BOOLEAN, NEW recent_heartbeat \in BOOLEAN,
             NEW alive \in BOOLEAN, NEW harness \in Harness,
             bootkick_tick(ignition, harness, recent_heartbeat, alive)
      PROVE  BootInv'
  <2> DEFINE wanted == Wanted(ignition, harness, recent_heartbeat)
             waiting == Waiting(wanted, alive)
             resetting == IF waiting = 1 THEN ResetTicks ELSE boot_reset_countdown
  <2>1. wanted \in BootState
    BY DEF Wanted, BootInv, BootTypeOK, BootState
  <2>2. /\ waiting \in 0 .. WaitTicks
        /\ waiting > 0 =>
             /\ ~alive /\ wanted = "BOOTKICK" /\ ~bootkick_reset_triggered
             /\ \/ /\ boot_state = "STANDBY"
                   /\ waiting = WaitTicks
                \/ /\ boot_state = "BOOTKICK"
                   /\ waiting = waiting_to_boot_countdown
                   /\ quiet = WaitTicks - waiting_to_boot_countdown
                   /\ waiting_to_boot_countdown < WaitTicks
    BY <2>1, WaitingIs DEF BootState
  <2>3. /\ boot_state' = Obeyed(wanted, resetting)
        /\ bootkick_reset_triggered' = (bootkick_reset_triggered \/ resetting > 0)
        /\ bootkick_ign_prev' = ignition
        /\ bootkick_harness_status_prev' = harness
        /\ waiting_to_boot_countdown' = Down(waiting)
        /\ boot_reset_countdown' = Down(resetting)
        /\ quiet' = IF alive \/ wanted # "BOOTKICK" THEN 0
                    ELSE IF boot_state = "STANDBY" THEN 1
                    ELSE IF quiet \in 1 .. WaitTicks - 1 THEN quiet + 1 ELSE quiet
        /\ held' = IF boot_state' = "RESET" /\ held <= ResetTicks
                   THEN held + 1 ELSE held
    BY <1>2 DEF bootkick_tick
  <2> HIDE DEF wanted, waiting
  <2>4. ResetIsUsedUp'
    <3>1. WaitTicks \in Nat /\ ResetTicks \in Nat \ {0} /\ boot_reset_countdown \in 0 .. ResetTicks
          /\ held \in 0 .. ResetTicks + 1
      BY BootkickAssumption DEF BootkickAssumption, BootInv, BootTypeOK
    <3>2. boot_state' = "RESET" <=> resetting > 0
      BY <2>1, <2>3 DEF Obeyed, BootState
    <3>3. bootkick_reset_triggered' <=> bootkick_reset_triggered \/ resetting > 0
      BY <2>3
    <3>4. /\ boot_reset_countdown' = IF resetting > 0 THEN resetting - 1 ELSE 0
          /\ held' = IF boot_state' = "RESET" /\ held <= ResetTicks
                     THEN held + 1 ELSE held
      BY <2>3 DEF Down
    <3>5. CASE bootkick_reset_triggered
      <4>1. /\ held = ResetTicks - boot_reset_countdown
            /\ resetting = boot_reset_countdown
        BY <2>2, <3>1, <3>5 DEF BootInv, ResetIsUsedUp
      <4> HIDE DEF resetting
      <4>2. held' = ResetTicks - boot_reset_countdown'
        BY <3>1, <3>2, <3>4, <4>1
      <4>3. boot_state' # "RESET" => boot_reset_countdown' = 0
        BY <3>2, <3>4
      <4> QED BY <4>2, <4>3, <3>3, <3>5 DEF ResetIsUsedUp
    <3>6. CASE ~bootkick_reset_triggered
      <4>1. held = 0 /\ resetting \in {0, ResetTicks}
        BY <3>6 DEF BootInv, ResetIsUsedUp
      <4> HIDE DEF resetting
      <4>2. CASE resetting = 0
        BY <3>1, <3>2, <3>6, <3>3, <3>4, <4>1, <4>2 DEF ResetIsUsedUp
      <4>3. CASE resetting = ResetTicks
        BY <3>1, <3>2, <3>6, <3>3, <3>4, <4>1, <4>3 DEF ResetIsUsedUp
      <4> QED BY <4>1, <4>2, <4>3
    <3> QED BY <3>5, <3>6
  <2>5. BootTypeOK'
    <3>1. /\ boot_state' \in BootState
          /\ bootkick_reset_triggered' \in BOOLEAN
      BY <2>1, <2>3 DEF BootInv, BootTypeOK, BootState, Obeyed
    <3>2. /\ waiting_to_boot_countdown' \in 0 .. WaitTicks
          /\ boot_reset_countdown' \in 0 .. ResetTicks
      BY <2>2, <2>3, BootkickAssumption
         DEF BootkickAssumption, BootInv, BootTypeOK, Down
    <3>3. quiet' \in 0 .. WaitTicks /\ held' \in 0 .. ResetTicks + 1
      BY <2>3, BootkickAssumption DEF BootkickAssumption, BootInv, BootTypeOK
    <3>4. bootkick_ign_prev' \in BOOLEAN /\ bootkick_harness_status_prev' \in Harness
      BY <2>3
    <3> QED BY <3>1, <3>2, <3>3, <3>4 DEF BootTypeOK
  <2>6. WaitRuns'
    BY <2>1, <2>2, <2>3, BootkickAssumption
       DEF BootkickAssumption, BootInv, BootTypeOK, BootState, WaitRuns, ResetIsUsedUp,
           Obeyed, Down
  <2> QED BY <2>4, <2>5, <2>6 DEF BootInv
<1> QED BY <1>1, <1>2 DEF BootNext

\* A reset starts at the end of a wait only.
LEMMA ResetStarts ==
    ASSUME BootInv, BootNext, boot_state # "RESET", boot_state' = "RESET"
    PROVE  quiet' = WaitTicks
<1>1. PICK ignition \in BOOLEAN, recent_heartbeat \in BOOLEAN, alive \in BOOLEAN,
           harness \in Harness :
        bootkick_tick(ignition, harness, recent_heartbeat, alive)
  BY DEF BootNext
<1> DEFINE wanted == Wanted(ignition, harness, recent_heartbeat)
           waiting == Waiting(wanted, alive)
<1>2. wanted \in BootState
  BY DEF Wanted, BootInv, BootTypeOK, BootState
<1>3. boot_reset_countdown = 0
  BY DEF BootInv, ResetIsUsedUp
<1>4. waiting = 1
  BY <1>1, <1>2, <1>3 DEF bootkick_tick, Obeyed, BootState
<1>5. /\ ~alive /\ wanted = "BOOTKICK"
      /\ \/ boot_state = "STANDBY" /\ WaitTicks = 1
         \/ /\ boot_state = "BOOTKICK"
            /\ quiet = WaitTicks - 1 /\ 1 < WaitTicks
  BY <1>2, <1>4, WaitingIs DEF BootState
<1> HIDE DEF wanted, waiting
<1>6. quiet' = IF alive \/ wanted # "BOOTKICK" THEN 0
               ELSE IF boot_state = "STANDBY" THEN 1
               ELSE IF quiet \in 1 .. WaitTicks - 1 THEN quiet + 1 ELSE quiet
  BY <1>1 DEF bootkick_tick, wanted, waiting
<1> QED BY <1>5, <1>6, BootkickAssumption
           DEF BootkickAssumption, BootInv, BootTypeOK

\* The globals of bootkick.h keep their ranges, whatever ignition, harness,
\* heartbeats and SOM do (bootkick_tick).
THEOREM BootkickTypes == BootSpec => []BootTypeOK
<1>1. BootInv => BootTypeOK
  BY DEF BootInv
<1> QED BY <1>1, BootkickInit, BootkickStep, PTL DEF BootSpec

\* In all the time the panda runs it resets the SOM once, for exactly as long
\* as a reset takes, and only after a whole wait without a sign of life
\* (bootkick_tick: "only try once per panda boot").
THEOREM OneReset == BootSpec => ResetsWhenDue
<1>1. BootInv => ResetsOnce
  BY BootkickAssumption DEF BootkickAssumption, BootInv, BootTypeOK, BootState,
                            ResetIsUsedUp, ResetsOnce
<1>2. BootInv' => ResetsOnce'
  BY <1>1, PTL
<1>3. BootInv /\ [BootNext]_bootVars => [ResetIsDue]_bootVars
  BY ResetStarts DEF ResetIsDue
<1>4. BootInv /\ BootInv' /\ [BootNext]_bootVars => [ResetsOnce' /\ ResetIsDue]_bootVars
  BY <1>2, <1>3
<1> QED BY <1>4, BootkickInit, BootkickStep, PTL DEF BootSpec, ResetsWhenDue

-----------------------------------------------------------------------------
(* Uart: indices and the interrupt *)

LEMMA AfterIs ==
    ASSUME NEW i \in RingIndex
    PROVE  /\ After(i) = IF i = FIFO_SIZE_INT - 1 THEN 0 ELSE i + 1
           /\ After(i) \in RingIndex
BY UartAssumption DEF UartAssumption, After, RingIndex

LEMMA RingSteps ==
    ASSUME NEW q \in Ring, NEW c \in Byte
    PROVE  Stored(q, c) \in Ring /\ Popped(q) \in Ring
BY AfterIs DEF Ring, Stored, Popped

LEMMA TxRingStep ==
    ASSUME NEW q \in Ring, uart_tx_ring(q), UartTypeOK
    PROVE  /\ tx' \in Ring
           /\ TXE' \in BOOLEAN /\ TXEIE' \in BOOLEAN
           /\ sent' \in Byte \cup {NoByte}
           /\ Pending(tx') => TXEIE'
<1>1. Popped(q) \in Ring
  BY AfterIs DEF Ring, Popped
<1>2. q.elems[q.r_ptr] \in Byte \cup {NoByte}
  BY DEF Ring
<1>3. tx' \in Ring /\ sent' \in Byte \cup {NoByte}
  BY <1>1, <1>2 DEF uart_tx_ring, UartTypeOK
<1>4. TXE' \in BOOLEAN /\ TXEIE' \in BOOLEAN
  BY DEF uart_tx_ring, UartTypeOK, Pending, SendsOn
<1>5. Pending(tx') => TXEIE'
  BY DEF uart_tx_ring, Pending, SendsOn
<1> QED BY <1>3, <1>4, <1>5

UartInv == UartTypeOK /\ NothingWaits

LEMMA UartStarts == UartInit => UartInv
<1> SUFFICES ASSUME UartInit PROVE UartInv
  OBVIOUS
<1>1. EmptyRing \in Ring
  BY UartAssumption DEF UartAssumption, EmptyRing, Ring, RingIndex
<1>2. ~Pending(tx)
  BY DEF UartInit, EmptyRing, Pending
<1> QED BY <1>1, <1>2 DEF UartInit, UartInv, UartTypeOK, NothingWaits

LEMMA UartStep == UartInv /\ [UartNext]_uartVars => UartInv'
<1> SUFFICES ASSUME UartTypeOK, NothingWaits, [UartNext]_uartVars
             PROVE  UartTypeOK' /\ NothingWaits'
  BY DEF UartInv
<1>1. ASSUME NEW c \in Byte, uart_tx_ring(Stored(tx, c)), did' = "put_char",
             UNCHANGED <<rx, RDR, got>>
      PROVE  UartTypeOK' /\ NothingWaits'
  <2>1. Stored(tx, c) \in Ring
    BY RingSteps DEF UartTypeOK
  <2> QED BY <1>1, <2>1, TxRingStep DEF UartTypeOK, NothingWaits
<1>2. CASE GetChar
  <2>1. Popped(rx) \in Ring /\ rx.elems[rx.r_ptr] \in Byte \cup {NoByte}
    BY AfterIs DEF UartTypeOK, Ring, Popped
  <2> QED BY <1>2, <2>1 DEF GetChar, UartTypeOK, NothingWaits
<1>3. CASE clear_uart_buff
  <2>1. 0 \in RingIndex
    BY UartAssumption DEF UartAssumption, RingIndex
  <2>2. tx' \in Ring /\ rx' \in Ring /\ ~Pending(tx')
    BY <1>3, <2>1 DEF clear_uart_buff, UartTypeOK, Ring, Pending
  <2> QED BY <1>3, <2>2 DEF clear_uart_buff, UartTypeOK, NothingWaits
<1>4. CASE Received
  BY <1>4 DEF Received, UartTypeOK, NothingWaits
<1>5. CASE ByteSent
  BY <1>5 DEF ByteSent, UartTypeOK, NothingWaits
<1>6. CASE uart_interrupt_handler
  <2>1. rx' \in Ring /\ RDR' \in Byte \cup {NoByte}
    BY <1>6, RingSteps DEF uart_interrupt_handler, UartTypeOK
  <2>2. did' \in {"read", "send"} /\ got' = got /\ uart_tx_ring(tx)
    BY <1>6 DEF uart_interrupt_handler
  <2>3. tx \in Ring
    BY DEF UartTypeOK
  <2> QED BY <2>1, <2>2, <2>3, TxRingStep DEF UartTypeOK, NothingWaits
<1>7. CASE UNCHANGED uartVars
  BY <1>7 DEF uartVars, UartTypeOK, NothingWaits
<1> QED BY <1>1, <1>2, <1>3, <1>4, <1>5, <1>6, <1>7 DEF UartNext, PutChar

\* The indices stay inside the rings, of any size (put_char, injectc, get_char
\* and clear_uart_buff of uart.h).
THEOREM UartTypes == UartSpec => []UartTypeOK
<1>1. UartInv => UartTypeOK
  BY DEF UartInv
<1> QED BY <1>1, UartStarts, UartStep, PTL DEF UartSpec

\* Bytes never wait with the interrupt off, in rings of any size
\* (uart_tx_ring: "Enable TXE interrupt if there is still data to be sent").
THEOREM Sending == UartSpec => []NothingWaits
<1>1. UartInv => NothingWaits
  BY DEF UartInv
<1> QED BY <1>1, UartStarts, UartStep, PTL DEF UartSpec

-----------------------------------------------------------------------------
(* Uart: the rings implement Recent *)

\* The element i places behind the oldest.
Place(q, i) == (q.r_ptr + i - 1) % FIFO_SIZE_INT

LEMMA Modulo ==
    ASSUME NEW n \in Int
    PROVE  /\ 0 <= n /\ n < FIFO_SIZE_INT => n % FIFO_SIZE_INT = n
           /\ FIFO_SIZE_INT <= n /\ n < 2 * FIFO_SIZE_INT =>
                  n % FIFO_SIZE_INT = n - FIFO_SIZE_INT
           /\ -FIFO_SIZE_INT <= n /\ n < 0 =>
                  n % FIFO_SIZE_INT = n + FIFO_SIZE_INT
BY UartAssumption DEF UartAssumption

LEMMA BytesIs ==
    ASSUME NEW q \in Ring
    PROVE  /\ Bytes(q) = IF q.w_ptr >= q.r_ptr THEN q.w_ptr - q.r_ptr
                         ELSE q.w_ptr - q.r_ptr + FIFO_SIZE_INT
           /\ Bytes(q) \in 0 .. FIFO_SIZE_INT - 1
           /\ Pending(q) <=> Bytes(q) > 0
<1>1. q.w_ptr \in RingIndex /\ q.r_ptr \in RingIndex
  BY DEF Ring
<1>2. q.w_ptr - q.r_ptr \in Int
  BY <1>1 DEF RingIndex
<1>3. Bytes(q) = IF q.w_ptr >= q.r_ptr THEN q.w_ptr - q.r_ptr
                 ELSE q.w_ptr - q.r_ptr + FIFO_SIZE_INT
  BY <1>1, <1>2, Modulo, UartAssumption DEF UartAssumption, Bytes, RingIndex
<1> QED BY <1>1, <1>3, UartAssumption DEF UartAssumption, RingIndex, Pending

LEMMA PlaceIs ==
    ASSUME NEW q \in Ring, NEW i \in 1 .. FIFO_SIZE_INT
    PROVE  /\ Place(q, i) = IF q.r_ptr + i - 1 < FIFO_SIZE_INT THEN q.r_ptr + i - 1
                            ELSE q.r_ptr + i - 1 - FIFO_SIZE_INT
           /\ Place(q, i) \in RingIndex
<1>1. q.r_ptr \in RingIndex
  BY DEF Ring
<1>2. q.r_ptr + i - 1 \in Int
  BY <1>1, UartAssumption DEF UartAssumption, RingIndex
<1>3. Place(q, i) = IF q.r_ptr + i - 1 < FIFO_SIZE_INT THEN q.r_ptr + i - 1
                    ELSE q.r_ptr + i - 1 - FIFO_SIZE_INT
  BY <1>1, <1>2, Modulo, UartAssumption DEF UartAssumption, Place, RingIndex
<1> QED BY <1>1, <1>3, UartAssumption DEF UartAssumption, RingIndex

LEMMA ContentsIs ==
    ASSUME NEW q \in Ring
    PROVE  /\ RingContents(q) \in Seq(Byte \cup {NoByte})
           /\ Len(RingContents(q)) = Bytes(q)
           /\ \A i \in 1 .. Bytes(q) : RingContents(q)[i] = q.elems[Place(q, i)]
<1>1. Bytes(q) \in Nat /\ Bytes(q) <= FIFO_SIZE_INT
  BY BytesIs, UartAssumption DEF UartAssumption
<1>2. \A i \in 1 .. Bytes(q) : q.elems[Place(q, i)] \in Byte \cup {NoByte}
  <2> SUFFICES ASSUME NEW i \in 1 .. Bytes(q)
               PROVE  q.elems[Place(q, i)] \in Byte \cup {NoByte}
    OBVIOUS
  <2>1. i \in 1 .. FIFO_SIZE_INT
    BY <1>1, UartAssumption DEF UartAssumption
  <2> QED BY <2>1, PlaceIs DEF Ring
<1>3. RingContents(q) = [i \in 1 .. Bytes(q) |-> q.elems[Place(q, i)]]
  BY DEF RingContents, Place
<1> QED BY <1>1, <1>2, <1>3

\* A byte is taken from the front.
LEMMA PoppedIs ==
    ASSUME NEW q \in Ring, Pending(q)
    PROVE  /\ RingContents(q) # <<>>
           /\ Head(RingContents(q)) = q.elems[q.r_ptr]
           /\ RingContents(Popped(q)) = Tail(RingContents(q))
<1> DEFINE s == RingContents(q)
           t == RingContents(Popped(q))
<1>1. Popped(q) \in Ring
  BY AfterIs DEF Ring, Popped
<1>2. q.w_ptr \in RingIndex /\ q.r_ptr \in RingIndex /\ q.w_ptr # q.r_ptr
  BY DEF Ring, Pending
<1>3. /\ Popped(q).elems = q.elems /\ Popped(q).w_ptr = q.w_ptr
      /\ Popped(q).r_ptr = IF q.r_ptr = FIFO_SIZE_INT - 1 THEN 0 ELSE q.r_ptr + 1
  BY <1>2, AfterIs DEF Ring, Popped
<1>4. /\ Bytes(q) \in 1 .. FIFO_SIZE_INT - 1
      /\ Bytes(Popped(q)) = Bytes(q) - 1
  BY <1>1, <1>2, <1>3, BytesIs, UartAssumption DEF UartAssumption, RingIndex
<1>5. /\ s \in Seq(Byte \cup {NoByte}) /\ Len(s) = Bytes(q)
      /\ \A i \in 1 .. Bytes(q) : s[i] = q.elems[Place(q, i)]
  BY ContentsIs
<1>6. /\ t \in Seq(Byte \cup {NoByte}) /\ Len(t) = Bytes(q) - 1
      /\ \A i \in 1 .. Bytes(q) - 1 : t[i] = q.elems[Place(Popped(q), i)]
  BY <1>1, <1>3, <1>4, ContentsIs
<1>7. \A i \in 1 .. Bytes(q) - 1 : Place(Popped(q), i) = Place(q, i + 1)
  <2> SUFFICES ASSUME NEW i \in 1 .. Bytes(q) - 1
               PROVE  Place(Popped(q), i) = Place(q, i + 1)
    OBVIOUS
  <2>1. i \in 1 .. FIFO_SIZE_INT /\ i + 1 \in 1 .. FIFO_SIZE_INT
    BY <1>4, UartAssumption DEF UartAssumption
  <2> QED BY <1>1, <1>2, <1>3, <2>1, PlaceIs, UartAssumption
             DEF UartAssumption, RingIndex
<1>8. Place(q, 1) = q.r_ptr
  BY <1>2, PlaceIs, UartAssumption DEF UartAssumption, RingIndex
<1> HIDE DEF s, t
<1>9. s # <<>> /\ Head(s) = q.elems[q.r_ptr]
  BY <1>4, <1>5, <1>8
<1>10. /\ Tail(s) \in Seq(Byte \cup {NoByte}) /\ Len(Tail(s)) = Bytes(q) - 1
       /\ \A i \in 1 .. Bytes(q) - 1 : Tail(s)[i] = s[i + 1]
  BY <1>4, <1>5, <1>9, HeadTailProperties
<1>11. \A i \in 1 .. Bytes(q) - 1 : t[i] = Tail(s)[i]
  BY <1>4, <1>5, <1>6, <1>7, <1>10, SMTT(30)
<1>12. t = Tail(s)
  <2> DEFINE u == Tail(s)
  <2>1. /\ t \in Seq(Byte \cup {NoByte}) /\ u \in Seq(Byte \cup {NoByte})
        /\ Len(t) = Len(u) /\ \A i \in 1 .. Len(t) : t[i] = u[i]
    BY <1>6, <1>10, <1>11
  <2> HIDE DEF u
  <2>2. t = u
    BY <2>1, SeqEqual
  <2> QED BY <2>2 DEF u
<1> QED BY <1>9, <1>12 DEF s, t

\* A byte is put at the end; when the ring is full, the oldest makes room.
LEMMA StoredIs ==
    ASSUME NEW q \in Ring, NEW c \in Byte
    PROVE  RingContents(Stored(q, c)) =
             IF Len(RingContents(q)) < FIFO_SIZE_INT - 1
             THEN Append(RingContents(q), c)
             ELSE Append(Tail(RingContents(q)), c)
<1> DEFINE s == RingContents(q)
           p == Stored(q, c)
           t == RingContents(p)
<1>1. p \in Ring
  BY RingSteps
<1>2. q.w_ptr \in RingIndex /\ q.r_ptr \in RingIndex /\ q.elems \in [RingIndex -> Byte \cup {NoByte}]
  BY DEF Ring
<1>3. /\ p.elems = [q.elems EXCEPT ![q.w_ptr] = c]
      /\ p.w_ptr = After(q.w_ptr)
      /\ p.r_ptr = IF After(q.w_ptr) = q.r_ptr THEN After(q.r_ptr) ELSE q.r_ptr
  BY DEF Stored, Ring
<1> HIDE DEF p
<1>4. FIFO_SIZE_INT \in Nat /\ FIFO_SIZE_INT > 1
  BY UartAssumption DEF UartAssumption
<1>5. /\ After(q.w_ptr) = IF q.w_ptr = FIFO_SIZE_INT - 1 THEN 0 ELSE q.w_ptr + 1
      /\ After(q.r_ptr) = IF q.r_ptr = FIFO_SIZE_INT - 1 THEN 0 ELSE q.r_ptr + 1
  BY <1>2, AfterIs
<1>6. /\ Bytes(q) = IF q.w_ptr >= q.r_ptr THEN q.w_ptr - q.r_ptr
                    ELSE q.w_ptr - q.r_ptr + FIFO_SIZE_INT
      /\ Bytes(q) \in 0 .. FIFO_SIZE_INT - 1
  BY BytesIs
<1>7. Bytes(p) = IF p.w_ptr >= p.r_ptr THEN p.w_ptr - p.r_ptr
                 ELSE p.w_ptr - p.r_ptr + FIFO_SIZE_INT
  BY <1>1, BytesIs
<1>8. /\ s \in Seq(Byte \cup {NoByte}) /\ Len(s) = Bytes(q)
      /\ \A i \in 1 .. Bytes(q) : s[i] = q.elems[Place(q, i)]
  BY ContentsIs
<1>9. /\ t \in Seq(Byte \cup {NoByte}) /\ Len(t) = Bytes(p)
      /\ \A i \in 1 .. Bytes(p) : t[i] = p.elems[Place(p, i)]
  BY <1>1, ContentsIs
<1>10. \A i \in 1 .. FIFO_SIZE_INT :
         /\ Place(q, i) = IF q.r_ptr + i - 1 < FIFO_SIZE_INT THEN q.r_ptr + i - 1
                          ELSE q.r_ptr + i - 1 - FIFO_SIZE_INT
         /\ Place(p, i) = IF p.r_ptr + i - 1 < FIFO_SIZE_INT THEN p.r_ptr + i - 1
                          ELSE p.r_ptr + i - 1 - FIFO_SIZE_INT
         /\ Place(q, i) \in RingIndex /\ Place(p, i) \in RingIndex
  BY <1>1, PlaceIs
<1>11. \A j \in RingIndex : p.elems[j] = IF j = q.w_ptr THEN c ELSE q.elems[j]
  BY <1>2, <1>3
<1> HIDE DEF s, t
<1>12. p.w_ptr = IF q.w_ptr = FIFO_SIZE_INT - 1 THEN 0 ELSE q.w_ptr + 1
  BY <1>3, <1>5
<1>13. p.r_ptr = IF p.w_ptr # q.r_ptr THEN q.r_ptr
                 ELSE IF q.r_ptr = FIFO_SIZE_INT - 1 THEN 0 ELSE q.r_ptr + 1
  BY <1>3, <1>5
<1>14. CASE Bytes(q) < FIFO_SIZE_INT - 1
  <2> DEFINE u == Append(s, c)
  <2>1. p.r_ptr = q.r_ptr
    BY <1>2, <1>4, <1>6, <1>14, <1>12, <1>13 DEF RingIndex
  <2>2. Bytes(p) = Bytes(q) + 1
    BY <1>2, <1>4, <1>6, <1>7, <1>14, <1>12, <2>1 DEF RingIndex
  <2>3. \A i \in 1 .. Bytes(q) : t[i] = s[i]
    <3> SUFFICES ASSUME NEW i \in 1 .. Bytes(q) PROVE t[i] = s[i]
      OBVIOUS
    <3>1. Place(p, i) = Place(q, i) /\ Place(q, i) \in RingIndex /\ Place(q, i) # q.w_ptr
      <4>1. i \in 1 .. FIFO_SIZE_INT
        BY <1>4, <1>6
      <4>2. Place(p, i) = Place(q, i)
        BY <2>1 DEF Place
      <4>3. /\ Place(q, i) = IF q.r_ptr + i - 1 < FIFO_SIZE_INT THEN q.r_ptr + i - 1
                             ELSE q.r_ptr + i - 1 - FIFO_SIZE_INT
            /\ Place(q, i) \in RingIndex
        BY <1>10, <4>1
      <4> QED BY <1>2, <1>4, <1>6, <4>2, <4>3 DEF RingIndex
    <3>2. t[i] = p.elems[Place(p, i)] /\ s[i] = q.elems[Place(q, i)]
      <4>1. i \in 1 .. Bytes(p)
        BY <1>6, <2>2
      <4>2. t[i] = p.elems[Place(p, i)]
        BY <1>9, <4>1
      <4>3. s[i] = q.elems[Place(q, i)]
        BY <1>8
      <4> QED BY <4>2, <4>3
    <3> QED BY <1>11, <3>1, <3>2
  <2>4. t[Bytes(q) + 1] = c
    <3>1. Place(p, Bytes(q) + 1) = q.w_ptr
      <4> DEFINE k == Bytes(q) + 1
      <4>1. k \in 1 .. FIFO_SIZE_INT
        BY <1>4, <1>6, <1>14
      <4>2. Place(p, k) = IF p.r_ptr + k - 1 < FIFO_SIZE_INT THEN p.r_ptr + k - 1
                          ELSE p.r_ptr + k - 1 - FIFO_SIZE_INT
        BY <1>10, <4>1
      <4> QED BY <1>2, <1>4, <1>6, <1>14, <2>1, <4>2, SMTT(30) DEF RingIndex
    <3> QED BY <1>2, <1>6, <1>9, <1>11, <2>2, <3>1
  <2>5. /\ u \in Seq(Byte \cup {NoByte}) /\ Len(u) = Bytes(q) + 1
        /\ \A i \in 1 .. Bytes(q) : u[i] = s[i]
        /\ u[Bytes(q) + 1] = c
    BY <1>8, <1>6
  <2> HIDE DEF u
  <2>6. \A i \in 1 .. Len(t) : t[i] = u[i]
    BY <1>6, <1>9, <2>2, <2>3, <2>4, <2>5
  <2>7. t = u
    BY <1>9, <2>2, <2>5, <2>6, SeqEqual
  <2> QED BY <1>8, <1>14, <2>7 DEF u, s, t, p
<1>15. CASE Bytes(q) = FIFO_SIZE_INT - 1
  <2> DEFINE v == Tail(s)
             u == Append(v, c)
  <2>1. p.r_ptr = After(q.r_ptr)
    BY <1>2, <1>3, <1>4, <1>5, <1>6, <1>15, SMTT(30) DEF RingIndex
  <2>2. Bytes(p) = Bytes(q)
    BY <1>2, <1>3, <1>4, <1>5, <1>6, <1>7, <1>15, <2>1, SMTT(30) DEF RingIndex
  <2>3. s # <<>>
    BY <1>4, <1>8, <1>15
  <2>4. /\ v \in Seq(Byte \cup {NoByte}) /\ Len(v) = Bytes(q) - 1
        /\ \A i \in 1 .. Bytes(q) - 1 : v[i] = s[i + 1]
    BY <1>8, <2>3, HeadTailProperties
  <2> HIDE DEF v
  <2>5. \A i \in 1 .. Bytes(q) - 1 : t[i] = v[i]
    <3> SUFFICES ASSUME NEW i \in 1 .. Bytes(q) - 1 PROVE t[i] = v[i]
      OBVIOUS
    <3>1. /\ Place(p, i) = Place(q, i + 1)
          /\ Place(q, i + 1) \in RingIndex /\ Place(q, i + 1) # q.w_ptr
      <4>1. i \in 1 .. FIFO_SIZE_INT /\ i + 1 \in 1 .. FIFO_SIZE_INT
        BY <1>4, <1>6
      <4>2. Place(p, i) = IF p.r_ptr + i - 1 < FIFO_SIZE_INT THEN p.r_ptr + i - 1
                          ELSE p.r_ptr + i - 1 - FIFO_SIZE_INT
        BY <1>10, <4>1
      <4>3. /\ Place(q, i + 1) = IF q.r_ptr + i < FIFO_SIZE_INT THEN q.r_ptr + i
                                 ELSE q.r_ptr + i - FIFO_SIZE_INT
            /\ Place(q, i + 1) \in RingIndex
        BY <1>2, <1>10, <4>1 DEF RingIndex
      <4>4. p.r_ptr = IF q.r_ptr = FIFO_SIZE_INT - 1 THEN 0 ELSE q.r_ptr + 1
        BY <1>5, <2>1
      <4> HIDE DEF Place
      <4>5. /\ i \in 1 .. FIFO_SIZE_INT - 2
            /\ q.r_ptr \in 0 .. FIFO_SIZE_INT - 1 /\ q.w_ptr \in 0 .. FIFO_SIZE_INT - 1
        BY <1>2, <1>4, <1>15 DEF RingIndex
      <4>6. Place(p, i) = Place(q, i + 1)
        <5>1. CASE q.r_ptr = FIFO_SIZE_INT - 1
          <6>1. Place(p, i) = i - 1
            BY <1>4, <4>2, <4>4, <4>5, <5>1
          <6>2. Place(q, i + 1) = i - 1
            BY <1>4, <4>3, <4>5, <5>1
          <6> QED BY <6>1, <6>2
        <5>2. CASE q.r_ptr # FIFO_SIZE_INT - 1
          <6>1. p.r_ptr + i - 1 = q.r_ptr + i
            BY <4>4, <4>5, <5>2
          <6> QED BY <1>4, <4>2, <4>3, <4>4, <4>5, <5>2, <6>1, SMTT(30)
        <5> QED BY <5>1, <5>2
      <4>7. q.w_ptr = IF q.r_ptr = 0 THEN FIFO_SIZE_INT - 1 ELSE q.r_ptr - 1
        BY <1>4, <1>6, <1>15, <4>5, SMTT(30)
      <4>8. Place(q, i + 1) # q.w_ptr
        BY <1>4, <4>3, <4>5, <4>7, SMTT(30)
      <4> QED BY <4>3, <4>6, <4>8
    <3>2. t[i] = p.elems[Place(p, i)] /\ v[i] = q.elems[Place(q, i + 1)]
      BY <1>6, <1>8, <1>9, <2>2, <2>4
    <3> QED BY <1>11, <3>1, <3>2
  <2>6. t[Bytes(q)] = c
    <3>1. Place(p, Bytes(q)) = q.w_ptr
      <4> DEFINE k == Bytes(q)
      <4>1. k \in 1 .. FIFO_SIZE_INT
        BY <1>4, <1>6, <1>15
      <4>2. Place(p, k) = IF p.r_ptr + k - 1 < FIFO_SIZE_INT THEN p.r_ptr + k - 1
                          ELSE p.r_ptr + k - 1 - FIFO_SIZE_INT
        BY <1>10, <4>1
      <4> QED BY <1>2, <1>4, <1>5, <1>6, <1>15, <2>1, <4>2, SMTT(30) DEF RingIndex
    <3> QED BY <1>2, <1>4, <1>6, <1>9, <1>11, <1>15, <2>2, <3>1
  <2>7. /\ u \in Seq(Byte \cup {NoByte}) /\ Len(u) = Bytes(q)
        /\ \A i \in 1 .. Bytes(q) - 1 : u[i] = v[i]
        /\ u[Bytes(q)] = c
    BY <1>4, <1>6, <1>15, <2>4
  <2> HIDE DEF u
  <2>8. \A i \in 1 .. Len(t) : t[i] = u[i]
    BY <1>4, <1>6, <1>9, <1>15, <2>2, <2>5, <2>6, <2>7
  <2>9. t = u
    BY <1>9, <2>2, <2>7, <2>8, SeqEqual
  <2> QED BY <1>8, <1>15, <2>9 DEF u, v, s, t, p
<1> QED BY <1>4, <1>6, <1>14, <1>15

LEMMA StoredPends ==
    ASSUME NEW q \in Ring, NEW c \in Byte
    PROVE  Pending(Stored(q, c))
<1>1. q.w_ptr \in RingIndex /\ q.r_ptr \in RingIndex
  BY DEF Ring
<1>2. /\ Stored(q, c).w_ptr = After(q.w_ptr)
      /\ Stored(q, c).r_ptr = IF After(q.w_ptr) = q.r_ptr THEN After(q.r_ptr) ELSE q.r_ptr
  BY DEF Stored, Ring
<1> QED BY <1>1, <1>2, AfterIs, UartAssumption DEF UartAssumption, RingIndex, Pending

LEMMA EmptyIsEmpty ==
    ASSUME NEW q \in Ring, q.w_ptr = q.r_ptr
    PROVE  RingContents(q) = <<>>
<1>1. Bytes(q) = 0
  <2>1. q.w_ptr \in Int
    BY DEF Ring, RingIndex
  <2> QED BY <2>1, BytesIs
<1>2. RingContents(q) \in Seq(Byte \cup {NoByte}) /\ Len(RingContents(q)) = 0
  BY <1>1, ContentsIs
<1> QED BY <1>2, EmptySeq

LEMMA ClearedIsEmpty ==
    ASSUME NEW q \in Ring
    PROVE  RingContents([q EXCEPT !.w_ptr = 0, !.r_ptr = 0]) = <<>>
<1> DEFINE p == [q EXCEPT !.w_ptr = 0, !.r_ptr = 0]
<1>1. 0 \in RingIndex
  BY UartAssumption DEF UartAssumption, RingIndex
<1>2. p \in Ring /\ p.w_ptr = p.r_ptr
  BY <1>1 DEF Ring
<1> HIDE DEF p
<1>3. RingContents(p) = <<>>
  BY <1>2, EmptyIsEmpty
<1> QED BY <1>3 DEF p

LEMMA RingsStart == UartInit => Tx!Init /\ Rx!Init
<1> SUFFICES ASSUME UartInit PROVE Tx!Init /\ Rx!Init
  OBVIOUS
<1>1. EmptyRing \in Ring
  BY UartAssumption DEF UartAssumption, EmptyRing, Ring, RingIndex
<1>2. EmptyRing.w_ptr = 0 /\ EmptyRing.r_ptr = 0
  BY DEF EmptyRing
<1>3. RingContents(EmptyRing) = <<>>
  BY <1>1, <1>2, EmptyIsEmpty
<1> QED BY <1>3 DEF UartInit, Tx!Init, Rx!Init

\* What uart_tx_ring does is to send the oldest byte, or nothing.
LEMMA Sends ==
    ASSUME NEW q \in Ring, uart_tx_ring(q)
    PROVE  \/ tx' = q /\ sent' = sent
           \/ /\ RingContents(q) # <<>>
              /\ RingContents(tx') = Tail(RingContents(q))
              /\ sent' = Head(RingContents(q))
<1>1. CASE Pending(q) /\ TXE
  <2>1. tx' = Popped(q) /\ sent' = q.elems[q.r_ptr]
    BY <1>1 DEF uart_tx_ring
  <2> QED BY <1>1, <2>1, PoppedIs
<1>2. CASE ~(Pending(q) /\ TXE)
  BY <1>2 DEF uart_tx_ring
<1> QED BY <1>1, <1>2

LEMMA TxRefines == UartInv /\ [UartNext]_uartVars => [Tx!Next]_(Tx!vars)
<1> SUFFICES ASSUME UartTypeOK, [UartNext]_uartVars
             PROVE  Tx!Next \/ UNCHANGED Tx!vars
  BY DEF UartInv
<1>1. tx \in Ring
  BY DEF UartTypeOK
<1>2. ASSUME NEW c \in Byte, uart_tx_ring(Stored(tx, c)), did' = "put_char"
      PROVE  Tx!Next
  <2>1. Stored(tx, c) \in Ring
    BY <1>1, RingSteps
  <2>2. RingContents(Stored(tx, c)) = Tx!With(c)
    BY <1>1, StoredIs DEF Tx!With
  <2>3. CASE tx' = Stored(tx, c) /\ sent' = sent
    BY <1>2, <2>2, <2>3 DEF Tx!Next, Tx!Put
  <2>4. CASE /\ RingContents(tx') = Tail(RingContents(Stored(tx, c)))
             /\ sent' = Head(RingContents(Stored(tx, c)))
    BY <1>2, <2>2, <2>4 DEF Tx!Next, Tx!PutAndTake
  <2> QED BY <1>2, <2>1, <2>3, <2>4, Sends
<1>3. CASE GetChar
  BY <1>3 DEF GetChar, Tx!Next, Tx!Other
<1>4. CASE clear_uart_buff
  BY <1>1, <1>4, ClearedIsEmpty DEF clear_uart_buff, Tx!Next, Tx!Clear
<1>5. CASE Received \/ ByteSent \/ UNCHANGED uartVars
  BY <1>5 DEF Received, ByteSent, uartVars, Tx!vars
<1>6. CASE uart_interrupt_handler
  <2>1. did' \in {"read", "send"} /\ uart_tx_ring(tx)
    BY <1>6 DEF uart_interrupt_handler
  <2>2. CASE tx' = tx /\ sent' = sent
    BY <2>1, <2>2 DEF Tx!Next, Tx!Other
  <2>3. CASE /\ RingContents(tx) # <<>>
             /\ RingContents(tx') = Tail(RingContents(tx))
             /\ sent' = Head(RingContents(tx))
    BY <2>1, <2>3 DEF Tx!Next, Tx!Take
  <2> QED BY <1>1, <2>1, <2>2, <2>3, Sends
<1> QED BY <1>2, <1>3, <1>4, <1>5, <1>6 DEF UartNext, PutChar

LEMMA RxRefines == UartInv /\ [UartNext]_uartVars => [Rx!Next]_(Rx!vars)
<1> SUFFICES ASSUME UartTypeOK, [UartNext]_uartVars
             PROVE  Rx!Next \/ UNCHANGED Rx!vars
  BY DEF UartInv
<1>1. rx \in Ring
  BY DEF UartTypeOK
<1>2. CASE PutChar
  BY <1>2 DEF PutChar, Rx!Next, Rx!Other
<1>3. CASE GetChar
  BY <1>1, <1>3, PoppedIs DEF GetChar, Rx!Next, Rx!Take
<1>4. CASE clear_uart_buff
  BY <1>1, <1>4, ClearedIsEmpty DEF clear_uart_buff, Rx!Next, Rx!Clear
<1>5. CASE Received \/ ByteSent \/ UNCHANGED uartVars
  BY <1>5 DEF Received, ByteSent, uartVars, Rx!vars
<1>6. CASE uart_interrupt_handler /\ RDR # NoByte
  <2>1. RDR \in Byte /\ rx' = Stored(rx, RDR) /\ did' = "read" /\ got' = got
    BY <1>6 DEF uart_interrupt_handler, UartTypeOK
  <2>2. RingContents(rx') = Rx!With(RDR)
    BY <1>1, <2>1, StoredIs DEF Rx!With
  <2> QED BY <2>1, <2>2 DEF Rx!Next, Rx!Put
<1>7. CASE uart_interrupt_handler /\ RDR = NoByte
  BY <1>7 DEF uart_interrupt_handler, Rx!Next, Rx!Other
<1> QED BY <1>2, <1>3, <1>4, <1>5, <1>6, <1>7 DEF UartNext

\* The rings of uart.h implement Recent, for every size: the latest bytes are
\* kept and handed out in order (injectc, put_char, uart_tx_ring and
\* uart_rx_ring overwrite the oldest byte).
THEOREM RingsRefine == UartSpec => RingsAreRecent
<1>1. UartSpec => Tx!Spec
  BY UartStarts, UartStep, RingsStart, TxRefines, PTL DEF UartSpec, Tx!Spec
<1>2. UartSpec => Rx!Spec
  BY UartStarts, UartStep, RingsStart, RxRefines, PTL DEF UartSpec, Rx!Spec
<1> QED BY <1>1, <1>2 DEF RingsAreRecent

-----------------------------------------------------------------------------
(* Flash: what a step does to the panda *)

LEMMA Numbers ==
    /\ Sectors * SectorWords \in Nat
    /\ 1 \in Word
    /\ Word \subseteq Nat
    /\ Size["new"] \in Word /\ Size["old"] \in Word
    /\ Size["new"] < Sectors * SectorWords
<1>1. Sectors * SectorWords \in Nat
  BY FlashAssumption DEF FlashAssumption
<1>2. Size["new"] \in Word /\ Size["old"] \in Word
  BY FlashAssumption DEF FlashAssumption, Version
<1>3. Size["new"] < Sectors * SectorWords
  BY FlashAssumption DEF FlashAssumption
<1>4. 1 \in Word /\ Word \subseteq Nat
  BY <1>1, <1>2 DEF Word
<1> QED BY <1>1, <1>2, <1>3, <1>4

\* Words are not damaged: each is as it was, erased, spoilt, or programmed.
Worn(p, q) == \A w \in Word :
                 \/ q.flash[w] = p.flash[w]
                 \/ q.flash[w] \in {Erased, Spoilt}
                 \/ p.flash[w] = Erased /\ q.flash[w] \in [of : {"new"}, nr : Word]

LEMMA Constants ==
    /\ Erased \in Content /\ Spoilt \in Content
    /\ \A n \in Word : [of |-> "new", nr |-> n] \in Content
BY DEF Content, Erased, Spoilt, Version

LEMMA ResetIs ==
    ASSUME NEW p \in Panda, NEW m \in {"NORMAL", "SOFTLOADER", "BOOTLOADER", "other"}
    PROVE  LET q == SystemReset(p, m)
           IN  q \in Panda /\ q.runs = "reset" /\ q.stub = p.stub
               /\ q.flash = p.flash /\ q.mode = m
<1>1. 0 \in 0 .. Sectors * SectorWords + 1
  BY Numbers
<1> QED BY <1>1 DEF SystemReset, Panda

LEMMA EraseIs ==
    ASSUME NEW p \in Panda, NEW s \in Nat
    PROVE  LET q == EraseSector(p, s)
           IN  /\ q \in Panda /\ q.runs = p.runs /\ q.stub = p.stub
               /\ \A w \in Word : q.flash[w] \in {p.flash[w], Erased}
BY Constants DEF EraseSector, Panda

LEMMA WriteIs ==
    ASSUME NEW p \in Panda, NEW n \in Word
    PROVE  LET q == WriteWord(p, [of |-> "new", nr |-> n])
           IN  /\ q \in Panda /\ q.runs = p.runs /\ q.stub = p.stub
               /\ \A w \in Word :
                    \/ q.flash[w] \in {p.flash[w], Spoilt}
                    \/ p.flash[w] = Erased /\ q.flash[w] \in [of : {"new"}, nr : Word]
<1> DEFINE data == [of |-> "new", nr |-> n]
<1>1. data \in Content /\ data \in [of : {"new"}, nr : Word]
  BY Constants
<1> HIDE DEF data
<1>2. CASE ~p.unlocked \/ p.prog_ptr \notin Word
  BY <1>2 DEF WriteWord, data
<1>3. CASE p.unlocked /\ p.prog_ptr \in Word
  <2>1. WriteWord(p, data) =
          [p EXCEPT !.flash = [p.flash EXCEPT ![p.prog_ptr] =
                                 IF p.flash[p.prog_ptr] = Erased THEN data ELSE Spoilt],
                    !.prog_ptr = p.prog_ptr + 1]
    BY <1>3 DEF WriteWord, Panda
  <2>2. p.prog_ptr + 1 \in 0 .. Sectors * SectorWords + 1
    BY <1>3, Numbers DEF Word
  <2> DEFINE q == WriteWord(p, data)
             put == IF p.flash[p.prog_ptr] = Erased THEN data ELSE Spoilt
             content == [p.flash EXCEPT ![p.prog_ptr] = put]
  <2>3. put \in Content /\ content \in [Word -> Content]
    BY <1>1, <1>3, Constants DEF Panda
  <2>4. \A w \in Word : content[w] = IF w = p.prog_ptr THEN put ELSE p.flash[w]
    BY <1>3 DEF Panda
  <2>5. q = [p EXCEPT !.flash = content, !.prog_ptr = p.prog_ptr + 1]
    BY <2>1
  <2> HIDE DEF content, q
  <2>6. q \in Panda /\ q.runs = p.runs /\ q.stub = p.stub /\ q.flash = content
    BY <2>2, <2>3, <2>5 DEF Panda
  <2> QED BY <1>1, <2>4, <2>6 DEF q, data
<1> QED BY <1>2, <1>3

LEMMA ServeIs ==
    ASSUME NEW p \in Panda, NEW op, pos \in Nat, op = "write" => pos \in Word
    PROVE  LET q == Serve(p, op)
           IN  /\ q \in Panda /\ q.runs \in {p.runs, "reset"} /\ q.stub = p.stub
               /\ p.runs # "flasher" \/ op \notin {"erase", "write"} => q.flash = p.flash
               /\ op = "erase" => \A w \in Word : q.flash[w] \in {p.flash[w], Erased}
               /\ op = "write" => \A w \in Word :
                    \/ q.flash[w] \in {p.flash[w], Spoilt}
                    \/ p.flash[w] = Erased /\ q.flash[w] \in [of : {"new"}, nr : Word]
<1>1. CASE op = "to_flasher"
  BY <1>1, ResetIs DEF Serve
<1>2. CASE op = "to_dfu"
  BY <1>2, ResetIs DEF Serve
<1>3. CASE op = "restart"
  <2>1. p.mode \in {"NORMAL", "SOFTLOADER", "BOOTLOADER", "other"}
    BY DEF Panda
  <2> QED BY <1>3, <2>1, ResetIs DEF Serve
<1>4. CASE op = "unlock"
  <2>1. /\ Unlock(p) \in Panda /\ Unlock(p).runs = p.runs
        /\ Unlock(p).stub = p.stub /\ Unlock(p).flash = p.flash
    <3>1. 1 \in 0 .. Sectors * SectorWords + 1
      BY Numbers
    <3> QED BY <3>1 DEF Unlock, Panda
  <2> QED BY <1>4, <2>1 DEF Serve
<1>5. CASE op = "erase"
  BY <1>5, EraseIs DEF Serve
<1>6. CASE op = "write"
  BY <1>6, WriteIs DEF Serve
<1>7. CASE op \notin {"to_flasher", "to_dfu", "restart", "unlock", "erase", "write"}
  BY <1>7 DEF Serve
<1> QED BY <1>1, <1>2, <1>3, <1>4, <1>5, <1>6, <1>7

\* The requests of the host, carried out once, or twice over SPI.
Ops == {"compare", "to_flasher", "present", "unlock", "erase", "write", "restart", "to_dfu"}

Served(op) == /\ panda.runs \in {"flasher", "app"}
              /\ \/ panda' = Serve(panda, op)
                 \/ /\ Serve(panda, op).runs # "reset"
                    /\ panda' = Serve(Serve(panda, op), op)

\* What is done to a panda in the ROM bootloader.
DfuErased(s) == IF s = 0 THEN [panda EXCEPT !.stub = "erased"]
                ELSE [panda EXCEPT !.flash = [w \in Word |-> IF w \in InSector(s) THEN Erased
                                                             ELSE panda.flash[w]]]

DfuDone == /\ panda.runs = "dfu"
           /\ \/ at = "dfu_erase" /\ panda' = DfuErased(pos)
              \/ at = "dfu_program" /\ panda' = [panda EXCEPT !.stub = "whole"]
              \/ at = "dfu_jump" /\ panda' = SystemReset(panda, "other")

LEMMA RequestSteps ==
    ASSUME NEW op, Answered(op) \/ Failed(op)
    PROVE  panda' = panda \/ Served(op)
BY DEF Answered, Failed, Reachable, Served

LEMMA DfuSteps ==
    ASSUME NEW effect, NEW step, NEW p, DfuRequest(effect, step, p)
    PROVE  panda' = panda \/ (panda.runs = "dfu" /\ panda' = effect)
BY DEF DfuRequest

LEMMA HostSteps ==
    ASSUME HostStep
    PROVE  \/ panda' = panda
           \/ \E op \in Ops : Served(op) /\ (op = "write" => at = "write")
           \/ DfuDone
<1> USE RequestSteps DEF Ops
<1>1. CASE Begin
  BY <1>1 DEF Begin
<1>2. CASE Compare
  BY <1>2 DEF Compare
<1>3. CASE Enter
  BY <1>3 DEF Enter, ResetRequest
<1>4. CASE Reconnect
  BY <1>4 DEF Reconnect, Connect, ReconnectFails
<1>5. CASE Present
  BY <1>5 DEF Present, Request
<1>6. CASE UnlockFlash
  BY <1>6 DEF UnlockFlash, Request
<1>7. CASE Erase
  BY <1>7 DEF Erase, Request
<1>8. CASE Write
  BY <1>8 DEF Write, Request
<1>9. CASE Restart
  BY <1>9 DEF Restart, ResetRequest
<1>10. CASE Return
  BY <1>10 DEF Return, Connect, ReconnectFails
<1>11. CASE ToFlasher
  BY <1>11 DEF ToFlasher, ResetRequest
<1>12. CASE Again
  BY <1>12 DEF Again, Connect, ReconnectFails
<1>13. CASE ToDfu
  BY <1>13 DEF ToDfu, ResetRequest
<1>14. CASE WaitDfu
  BY <1>14 DEF WaitDfu
<1>15. CASE DfuErase
  <2>1. \E step, p : DfuRequest(DfuErased(pos), step, p)
    <3> DEFINE erased == [w \in Word |-> IF w \in InSector(pos) THEN Erased
                                         ELSE panda.flash[w]]
               effect == IF pos = 0 THEN [panda EXCEPT !.stub = "erased"]
                         ELSE [panda EXCEPT !.flash = erased]
    <3>1. effect = DfuErased(pos)
      BY DEF DfuErased
    <3>2. \/ DfuRequest(effect, "dfu_erase", pos + 1)
          \/ DfuRequest(effect, "dfu_program", 0)
      BY <1>15 DEF DfuErase
    <3> QED BY <3>1, <3>2
  <2> QED BY <1>15, <2>1, DfuSteps DEF DfuErase, DfuDone
<1>16. CASE DfuProgram
  BY <1>16, DfuSteps DEF DfuProgram, DfuDone
<1>17. CASE DfuJump
  BY <1>17, DfuSteps DEF DfuJump, DfuDone
<1>18. CASE Reflash
  BY <1>18 DEF Reflash, Connect
<1> QED BY <1>1, <1>2, <1>3, <1>4, <1>5, <1>6, <1>7, <1>8, <1>9, <1>10, <1>11, <1>12,
           <1>13, <1>14, <1>15, <1>16, <1>17, <1>18 DEF HostStep

-----------------------------------------------------------------------------
(* Types *)

FlashInv == FlashTypeOK /\ (at = "write" => pos \in Word)

LEMMA ServedIs ==
    ASSUME FlashInv, NEW op, Served(op), op = "write" => at = "write"
    PROVE  /\ panda' \in Panda
           /\ panda'.runs \in {panda.runs, "reset"}
           /\ panda'.stub = panda.stub
           /\ panda.runs # "flasher" => panda'.flash = panda.flash
           /\ Worn(panda, panda')
<1> DEFINE p == panda
           q == Serve(panda, op)
           r == Serve(q, op)
<1>1. panda \in Panda /\ pos \in Nat /\ (op = "write" => pos \in Word)
  BY DEF FlashInv, FlashTypeOK
<1>2. /\ q \in Panda /\ q.runs \in {p.runs, "reset"} /\ q.stub = p.stub
      /\ p.runs # "flasher" \/ op \notin {"erase", "write"} => q.flash = p.flash
      /\ op = "erase" => \A w \in Word : q.flash[w] \in {p.flash[w], Erased}
      /\ op = "write" => \A w \in Word :
           \/ q.flash[w] \in {p.flash[w], Spoilt}
           \/ p.flash[w] = Erased /\ q.flash[w] \in [of : {"new"}, nr : Word]
  BY <1>1, ServeIs
<1>3. /\ r \in Panda /\ r.runs \in {q.runs, "reset"} /\ r.stub = q.stub
      /\ q.runs # "flasher" \/ op \notin {"erase", "write"} => r.flash = q.flash
      /\ op = "erase" => \A w \in Word : r.flash[w] \in {q.flash[w], Erased}
      /\ op = "write" => \A w \in Word :
           \/ r.flash[w] \in {q.flash[w], Spoilt}
           \/ q.flash[w] = Erased /\ r.flash[w] \in [of : {"new"}, nr : Word]
  BY <1>1, <1>2, ServeIs
<1>4. \/ panda' = q
      \/ q.runs # "reset" /\ panda' = r
  BY DEF Served
<1> HIDE DEF q, r
<1>5. CASE panda' = q
  BY <1>2, <1>5 DEF Worn
<1>6. CASE q.runs = p.runs /\ panda' = r
  <2>1. Worn(panda, panda')
    <3>1. CASE op \notin {"erase", "write"}
      BY <1>2, <1>3, <1>6, <3>1 DEF Worn
    <3>2. CASE op = "erase"
      BY <1>2, <1>3, <1>6, <3>2 DEF Worn
    <3>3. CASE op = "write"
      <4> SUFFICES ASSUME NEW w \in Word
                   PROVE  \/ r.flash[w] = p.flash[w]
                          \/ r.flash[w] \in {Erased, Spoilt}
                          \/ p.flash[w] = Erased /\ r.flash[w] \in [of : {"new"}, nr : Word]
        BY <1>6 DEF Worn
      <4>1. Erased # Spoilt /\ Erased \notin [of : {"new"}, nr : Word]
        BY DEF Erased, Spoilt
      <4> QED BY <1>2, <1>3, <3>3, <4>1
    <3> QED BY <3>1, <3>2, <3>3
  <2> QED BY <1>2, <1>3, <1>6, <2>1
<1> QED BY <1>2, <1>4, <1>5, <1>6

LEMMA DfuDoneIs ==
    ASSUME FlashInv, DfuDone
    PROVE  /\ panda' \in Panda
           /\ panda'.runs \in {"dfu", "reset"}
           /\ Worn(panda, panda')
           /\ panda'.runs = "reset" => at = "dfu_jump" /\ panda'.stub = panda.stub
<1>1. panda \in Panda
  BY DEF FlashInv, FlashTypeOK
<1>2. CASE panda' = DfuErased(pos)
  BY <1>1, <1>2, Constants DEF DfuDone, DfuErased, Panda, Worn
<1>3. CASE panda' = [panda EXCEPT !.stub = "whole"]
  BY <1>1, <1>3 DEF DfuDone, Panda, Worn
<1>4. CASE at = "dfu_jump" /\ panda' = SystemReset(panda, "other")
  BY <1>1, <1>4, ResetIs DEF DfuDone, Worn
<1> QED BY <1>2, <1>3, <1>4 DEF DfuDone

LEMMA BootIs ==
    ASSUME FlashInv, Boot
    PROVE  /\ panda' \in Panda
           /\ panda'.runs \in {"reset", "dfu", "flasher", "app", "dead"}
           /\ panda'.runs = "dead" => panda.stub = "erased"
           /\ panda'.runs = "app" => Verified(panda)
           /\ panda'.flash = panda.flash /\ panda'.stub = panda.stub
           /\ panda'.runs = "dfu" => panda.mode = "BOOTLOADER"
<1>1. panda \in Panda
  BY DEF FlashInv, FlashTypeOK
<1>2. CASE panda.stub = "erased"
  BY <1>1, <1>2 DEF Boot, Panda
<1>3. CASE panda.stub = "whole"
  <2>1. panda' = Started(panda)
    BY <1>3 DEF Boot
  <2>2. CASE panda.mode = "other"
    BY <1>1, <2>1, <2>2, ResetIs DEF Started
  <2>3. CASE panda.mode = "BOOTLOADER"
    BY <1>1, <2>1, <2>3 DEF Started, Panda
  <2>4. CASE panda.mode = "SOFTLOADER"
    BY <1>1, <2>1, <2>4 DEF Started, SoftFlasher, Panda
  <2>5. CASE panda.mode = "NORMAL"
    BY <1>1, <2>1, <2>5 DEF Started, SoftFlasher, Panda
  <2> QED BY <1>1, <2>2, <2>3, <2>4, <2>5 DEF Panda
<1> QED BY <1>1, <1>2, <1>3 DEF Panda

LEMMA PowerIs ==
    ASSUME FlashInv, PowerCut \/ PowerOn
    PROVE  /\ panda' \in Panda
           /\ panda'.runs = IF PowerCut THEN "off" ELSE "reset"
           /\ panda'.flash = panda.flash /\ panda'.stub = panda.stub
<1>1. panda \in Panda
  BY DEF FlashInv, FlashTypeOK
<1>2. CASE PowerCut
  <2>1. PICK m \in {panda.mode, "other"} :
          panda' = [SystemReset(panda, m) EXCEPT !.runs = "off"]
    BY <1>2 DEF PowerCut
  <2>2. m \in {"NORMAL", "SOFTLOADER", "BOOTLOADER", "other"}
    BY <1>1 DEF Panda
  <2> DEFINE q == SystemReset(panda, m)
  <2>3. q \in Panda /\ q.flash = panda.flash /\ q.stub = panda.stub
    BY <1>1, <2>2, ResetIs
  <2> HIDE DEF q
  <2>4. panda' = [q EXCEPT !.runs = "off"]
    BY <2>1 DEF q
  <2> QED BY <1>2, <2>3, <2>4 DEF Panda
<1>3. CASE PowerOn /\ ~PowerCut
  BY <1>1, <1>3 DEF PowerOn, Panda
<1> QED BY <1>2, <1>3

LEMMA PandaIsPanda ==
    ASSUME FlashInv, FlashNext
    PROVE  panda' \in Panda
<1>1. panda \in Panda
  BY DEF FlashInv, FlashTypeOK
<1> QED BY <1>1, HostSteps, ServedIs, DfuDoneIs, BootIs, PowerIs DEF FlashNext

\* The variables that only the host changes.
HostTypes == /\ at' \in Step /\ pos' \in Nat /\ (at' = "write" => pos' \in Word)
             /\ bootstub' \in BOOLEAN /\ handle' \in BOOLEAN
             /\ recovers' \in 0 .. MaxRecovers
             /\ faults' \in 0 .. MaxFaults
             /\ clean' \in BOOLEAN /\ returned' \in BOOLEAN /\ dfu_cut' \in BOOLEAN

LEMMA RequestTypes ==
    ASSUME FlashInv, NEW op, Answered(op) \/ Failed(op)
    PROVE  handle' \in BOOLEAN /\ faults' \in 0 .. MaxFaults /\ clean' \in BOOLEAN
<1>1. /\ handle \in BOOLEAN /\ faults \in 0 .. MaxFaults /\ clean \in BOOLEAN
      /\ MaxFaults \in Nat
  BY FlashAssumption DEF FlashAssumption, FlashInv, FlashTypeOK
<1>2. handle' \in BOOLEAN
  <2>1. \/ handle' = handle
        \/ handle' = (handle /\ Serve(panda, op).runs # "reset")
        \/ handle' = (handle /\ panda'.runs # "reset")
    BY DEF Answered, Failed
  <2> QED BY <1>1, <2>1
<1>3. Fault \/ NoFault
  BY DEF Answered, Failed
<1>4. faults' \in 0 .. MaxFaults
  BY <1>1, <1>3 DEF Fault, NoFault
<1>5. clean' \in BOOLEAN
  BY <1>1, <1>3 DEF Fault, NoFault
<1> QED BY <1>2, <1>4, <1>5

LEMMA DfuTypes ==
    ASSUME FlashInv, NEW effect, NEW step, NEW p, DfuRequest(effect, step, p)
    PROVE  /\ handle' \in BOOLEAN /\ faults' \in 0 .. MaxFaults /\ clean' \in BOOLEAN
           /\ UNCHANGED <<bootstub, recovers, returned, dfu_cut>>
           /\ (at' = step /\ pos' = p) \/ (at' = "idle" /\ pos' = pos)
<1>1. /\ handle \in BOOLEAN /\ faults \in 0 .. MaxFaults /\ clean \in BOOLEAN
      /\ MaxFaults \in Nat
  BY FlashAssumption DEF FlashAssumption, FlashInv, FlashTypeOK
<1>2. Fault \/ NoFault
  BY DEF DfuRequest
<1>3. faults' \in 0 .. MaxFaults
  BY <1>1, <1>2 DEF Fault, NoFault
<1>4. clean' \in BOOLEAN
  BY <1>1, <1>2 DEF Fault, NoFault
<1>5. (at' = step /\ pos' = p) \/ (at' = "idle" /\ pos' = pos)
  BY DEF DfuRequest, Go, Raise
<1> QED BY <1>1, <1>3, <1>4, <1>5 DEF DfuRequest

LEMMA HostKeepsTypes ==
    ASSUME FlashInv, HostStep
    PROVE  HostTypes
<1>1. /\ at \in Step /\ pos \in Nat /\ (at = "write" => pos \in Word)
      /\ bootstub \in BOOLEAN /\ handle \in BOOLEAN
      /\ recovers \in 0 .. MaxRecovers /\ faults \in 0 .. MaxFaults
      /\ clean \in BOOLEAN /\ returned \in BOOLEAN /\ dfu_cut \in BOOLEAN
  BY DEF FlashInv, FlashTypeOK
<1>2. /\ MaxFaults \in Nat /\ MaxRecovers \in Nat
      /\ 0 \in Nat /\ 1 \in Nat /\ pos + 1 \in Nat /\ 1 \in Word
  BY <1>1, FlashAssumption, Numbers DEF FlashAssumption
<1>3. ASSUME NEW op, Answered(op) \/ Failed(op)
      PROVE  handle' \in BOOLEAN /\ faults' \in 0 .. MaxFaults /\ clean' \in BOOLEAN
  BY <1>3, RequestTypes
<1>4. CASE Begin
  <2>1. recovers' \in 0 .. MaxRecovers
    BY <1>1, <1>2, <1>4 DEF Begin
  <2> QED BY <1>1, <1>2, <1>4, <2>1 DEF Begin, Go, HostTypes, Step
<1>5. CASE \/ Compare \/ Enter \/ Present \/ UnlockFlash \/ Erase \/ Write
           \/ Restart \/ ToFlasher \/ ToDfu
  <2>1. \E op : Answered(op) \/ Failed(op)
    BY <1>5 DEF Compare, Enter, Present, UnlockFlash, Erase, Write, Restart,
               ToFlasher, ToDfu, Request, ResetRequest
  <2>2. handle' \in BOOLEAN /\ faults' \in 0 .. MaxFaults /\ clean' \in BOOLEAN
    BY <1>3, <2>1
  <2>3. /\ bootstub' = bootstub /\ recovers' = recovers /\ dfu_cut' = dfu_cut
        /\ returned' \in BOOLEAN
    BY <1>1, <1>5 DEF Compare, Enter, Present, UnlockFlash, Erase, Write, Restart,
                     ToFlasher, ToDfu
  <2>4. at' \in Step /\ pos' \in Nat /\ (at' = "write" => pos' \in Word)
    <3> USE <1>1, <1>2 DEF Go, Raise, Step
    <3>1. CASE Compare
      BY <3>1 DEF Compare
    <3>2. CASE Enter \/ Restart \/ ToFlasher \/ ToDfu
      BY <3>2 DEF Enter, Restart, ToFlasher, ToDfu, ResetRequest
    <3>3. CASE Present \/ UnlockFlash
      BY <3>3 DEF Present, UnlockFlash, Request
    <3>4. CASE Erase
      BY <3>4 DEF Erase, Request
    <3>5. CASE Write
      <4>1. pos < Size["new"] => pos + 1 \in Word
        BY Numbers, <3>5 DEF Write, Word
      <4> QED BY <3>5, <4>1 DEF Write, Request
    <3> QED BY <1>5, <3>1, <3>2, <3>3, <3>4, <3>5
  <2> QED BY <1>1, <2>2, <2>3, <2>4 DEF HostTypes
<1>6. CASE Reconnect \/ Return \/ Again \/ Reflash
  <2>1. /\ handle' \in BOOLEAN /\ faults' = faults /\ clean' = clean
        /\ recovers' = recovers /\ dfu_cut' = dfu_cut /\ returned' \in BOOLEAN
    BY <1>1, <1>6 DEF Reconnect, Return, Again, Reflash, Connect, ReconnectFails
  <2>2. bootstub' \in BOOLEAN
    <3>1. bootstub' = bootstub \/ bootstub' = (panda.runs = "flasher")
      BY <1>6 DEF Reconnect, Return, Again, Reflash, Connect, ReconnectFails
    <3> QED BY <1>1, <3>1
  <2>3. at' \in Step \ {"write"} /\ pos' \in Nat
    BY <1>1, <1>2, <1>6
       DEF Reconnect, Return, Again, Reflash, Connect, ReconnectFails, Go, Raise, Step
  <2> QED BY <1>1, <2>1, <2>2, <2>3 DEF HostTypes
<1>7. CASE WaitDfu
  BY <1>1, <1>2, <1>7 DEF WaitDfu, Go, Raise, HostTypes, Step
<1>8. CASE DfuErase \/ DfuProgram \/ DfuJump
  <2>1. PICK effect, step, p :
          /\ DfuRequest(effect, step, p)
          /\ step \in {"dfu_erase", "dfu_program", "dfu_jump", "connect"} /\ p \in Nat
    BY <1>1, <1>2, <1>8 DEF DfuErase, DfuProgram, DfuJump
  <2>2. /\ handle' \in BOOLEAN /\ faults' \in 0 .. MaxFaults /\ clean' \in BOOLEAN
        /\ UNCHANGED <<bootstub, recovers, returned, dfu_cut>>
        /\ (at' = step /\ pos' = p) \/ (at' = "idle" /\ pos' = pos)
    BY <2>1, DfuTypes
  <2> QED BY <1>1, <2>1, <2>2 DEF HostTypes, Step
<1> QED BY <1>4, <1>5, <1>6, <1>7, <1>8 DEF HostStep

LEMMA FlashStarts == FlashInit => FlashInv
<1> SUFFICES ASSUME FlashInit PROVE FlashInv
  OBVIOUS
<1>1. panda \in Panda
  <2>1. \A w \in Word : w <= Size["old"] => [of |-> "old", nr |-> w] \in Content
    BY DEF Content, Version
  <2>2. 0 \in 0 .. Sectors * SectorWords + 1
    BY Numbers
  <2> DEFINE content == [w \in Word |-> IF w <= Size["old"]
                                        THEN [of |-> "old", nr |-> w] ELSE Erased]
  <2>3. content \in [Word -> Content]
    BY <2>1, Constants
  <2>4. panda = [runs |-> "off", mode |-> "other", stub |-> "whole",
                 flash |-> content, unlocked |-> FALSE, prog_ptr |-> 0]
    BY DEF FlashInit
  <2> HIDE DEF content
  <2> QED BY <2>2, <2>3, <2>4 DEF Panda
<1>2. transport \in {"usb", "spi"} /\ MaxFaults \in Nat /\ MaxRecovers \in Nat
  BY FlashAssumption DEF FlashAssumption, FlashInit
<1>3. at \in Step /\ at # "write" /\ pos \in Nat
  BY DEF FlashInit, Step
<1>4. recovers \in 0 .. MaxRecovers /\ faults \in 0 .. MaxFaults
  BY <1>2 DEF FlashInit
<1>5. /\ bootstub \in BOOLEAN /\ handle \in BOOLEAN
      /\ clean \in BOOLEAN /\ returned \in BOOLEAN /\ dfu_cut \in BOOLEAN
  BY DEF FlashInit
<1> QED BY <1>1, <1>2, <1>3, <1>4, <1>5 DEF FlashInv, FlashTypeOK

LEMMA FlashStep == FlashInv /\ [FlashNext]_flashVars => FlashInv'
<1> SUFFICES ASSUME FlashInv, [FlashNext]_flashVars PROVE FlashInv'
  OBVIOUS
<1>1. CASE UNCHANGED flashVars
  BY <1>1 DEF flashVars, FlashInv, FlashTypeOK
<1>2. CASE FlashNext
  <2>1. panda' \in Panda /\ transport' \in {"usb", "spi"}
    BY <1>2, PandaIsPanda DEF FlashNext, FlashInv, FlashTypeOK
  <2>2. HostTypes
    <3>1. CASE HostStep
      BY <3>1, HostKeepsTypes
    <3>2. CASE Boot
      BY <3>2 DEF Boot, HostTypes, FlashInv, FlashTypeOK
    <3>3. CASE PowerCut
      <4>1. dfu_cut' = (dfu_cut \/ panda.runs = "dfu") /\ dfu_cut \in BOOLEAN
        BY <3>3 DEF PowerCut, FlashInv, FlashTypeOK
      <4>2. dfu_cut' \in BOOLEAN
        BY <4>1
      <4>3. faults' \in 0 .. MaxFaults
        BY <3>3, FlashAssumption DEF FlashAssumption, PowerCut, Fault, FlashInv, FlashTypeOK
      <4>4. /\ UNCHANGED <<at, pos, bootstub, recovers, returned>>
            /\ handle' \in BOOLEAN /\ clean' \in BOOLEAN
        BY <3>3 DEF PowerCut, Fault
      <4> QED BY <4>2, <4>3, <4>4 DEF HostTypes, FlashInv, FlashTypeOK
    <3>4. CASE PowerOn
      BY <3>4 DEF PowerOn, HostTypes, FlashInv, FlashTypeOK
    <3> QED BY <1>2, <3>1, <3>2, <3>3, <3>4 DEF FlashNext
  <2> QED BY <2>1, <2>2 DEF HostTypes, FlashInv, FlashTypeOK
<1> QED BY <1>1, <1>2

\* The flasher's write pointer stays inside the flash or one behind it, the
\* host writes words that exist, and every word and variable keeps its range
\* (flasher.h, flash_static and recover).
THEOREM FlashTypes == FlashSpec => []FlashTypeOK
<1>1. FlashInv => FlashTypeOK
  BY DEF FlashInv
<1> QED BY <1>1, FlashStarts, FlashStep, PTL DEF FlashSpec

-----------------------------------------------------------------------------
(* The bootstub is lost only with the ROM bootloader's power *)

\* As long as that has not happened, the bootstub is in place whenever
\* something else than the ROM bootloader can run.
StubKept == \/ dfu_cut
            \/ /\ panda.stub = "erased" => panda.runs = "dfu"
               /\ panda.runs # "dead"
               /\ at = "dfu_jump" => panda.stub = "whole"

LEMMA JumpAfterProgram ==
    ASSUME HostStep
    PROVE  /\ dfu_cut' = dfu_cut
           /\ at' = "dfu_jump" => panda' = [panda EXCEPT !.stub = "whole"]
<1>1. dfu_cut' = dfu_cut
  BY DEF HostStep, Begin, Compare, Enter, Reconnect, Present, UnlockFlash, Erase, Write,
         Restart, Return, ToFlasher, Again, ToDfu, WaitDfu, DfuErase, DfuProgram, DfuJump,
         DfuRequest, Reflash
<1>2. ASSUME at' = "dfu_jump" PROVE panda' = [panda EXCEPT !.stub = "whole"]
  <2> USE <1>2 DEF Go, Raise
  <2>1. ~(Begin \/ Compare \/ Enter \/ Present \/ UnlockFlash \/ Erase \/ Write)
    BY DEF Begin, Compare, Enter, Present, UnlockFlash, Erase, Write, Request, ResetRequest
  <2>2. ~(Restart \/ ToFlasher \/ ToDfu \/ WaitDfu)
    BY DEF Restart, ToFlasher, ToDfu, WaitDfu, ResetRequest
  <2>3. ~(Reconnect \/ Return \/ Again \/ Reflash)
    BY DEF Reconnect, Return, Again, Reflash, Connect, ReconnectFails
  <2>4. ~(DfuErase \/ DfuJump)
    BY DEF DfuErase, DfuJump, DfuRequest
  <2>5. DfuProgram
    BY <2>1, <2>2, <2>3, <2>4 DEF HostStep
  <2> QED BY <2>5 DEF DfuProgram, DfuRequest
<1> QED BY <1>1, <1>2

LEMMA StubStep == FlashInv /\ StubKept /\ [FlashNext]_flashVars => StubKept'
<1> SUFFICES ASSUME FlashInv, StubKept, [FlashNext]_flashVars PROVE StubKept'
  OBVIOUS
<1>1. panda \in Panda
  BY DEF FlashInv, FlashTypeOK
<1>2. CASE UNCHANGED flashVars
  BY <1>2 DEF flashVars, StubKept
<1>3. CASE HostStep
  <2>1. dfu_cut' = dfu_cut /\ (at' = "dfu_jump" => panda' = [panda EXCEPT !.stub = "whole"])
    BY <1>3, JumpAfterProgram
  <2>2. CASE dfu_cut
    BY <2>1, <2>2 DEF StubKept
  <2>3. CASE ~dfu_cut
    <3>1. /\ panda.stub = "erased" => panda.runs = "dfu"
          /\ panda.runs # "dead"
          /\ at = "dfu_jump" => panda.stub = "whole"
      BY <2>3 DEF StubKept
    <3>2. at' = "dfu_jump" => panda'.stub = "whole"
      BY <1>1, <2>1 DEF Panda
    <3>3. /\ panda'.stub = "erased" => panda'.runs = "dfu"
          /\ panda'.runs # "dead"
      <4>1. CASE panda' = panda
        BY <3>1, <4>1
      <4>2. ASSUME NEW op, Served(op), op = "write" => at = "write"
            PROVE  panda'.runs \in {panda.runs, "reset"} /\ panda'.stub = panda.stub
        BY <4>2, ServedIs
      <4>3. CASE \E op \in Ops : Served(op) /\ (op = "write" => at = "write")
        BY <3>1, <4>2, <4>3 DEF Served
      <4>4. CASE DfuDone
        BY <3>1, <4>4, DfuDoneIs
      <4> QED BY <1>3, <4>1, <4>3, <4>4, HostSteps
    <3> QED BY <3>2, <3>3 DEF StubKept
  <2> QED BY <2>2, <2>3
<1>4. CASE Boot
  <2>1. dfu_cut' = dfu_cut /\ at' = at /\ panda.runs = "reset"
    BY <1>4 DEF Boot
  <2> QED BY <1>4, <2>1, BootIs DEF StubKept
<1>5. CASE PowerCut
  <2>1. (dfu_cut' <=> dfu_cut \/ panda.runs = "dfu") /\ at' = at
    BY <1>5 DEF PowerCut
  <2>2. panda'.runs = "off" /\ panda'.stub = panda.stub
    BY <1>5, PowerIs
  <2> QED BY <2>1, <2>2 DEF StubKept
<1>6. CASE PowerOn
  <2>1. dfu_cut' = dfu_cut /\ at' = at /\ panda.runs = "off"
    BY <1>6 DEF PowerOn
  <2>2. panda'.runs \in {"off", "reset"} /\ panda'.stub = panda.stub
    BY <1>6, PowerIs
  <2> QED BY <2>1, <2>2 DEF StubKept
<1> QED BY <1>2, <1>3, <1>4, <1>5, <1>6 DEF FlashNext

\* Whatever is cut off, a panda is lost only if its power was cut while the
\* ROM bootloader replaced the bootstub: flash, for every size of images and
\* memory and any number of faults, never costs the bootstub
\* (flash_erase_sector, program_bootstub, early_initialization).
THEOREM DfuIsTheDanger == FlashSpec => []OnlyDfuIsDangerous
<1>1. FlashInit => StubKept
  BY DEF FlashInit, StubKept
<1>2. StubKept => OnlyDfuIsDangerous
  BY DEF StubKept, OnlyDfuIsDangerous
<1> QED BY <1>1, <1>2, FlashStarts, FlashStep, StubStep, PTL DEF FlashSpec

-----------------------------------------------------------------------------
(* Flash implements Update *)

LEMMA SameFlash ==
    ASSUME panda'.flash = panda.flash
    PROVE  Installed' = Installed /\ (Verified(panda) => Installed # "none")
BY DEF Installed, Whole, Verified, Version

\* What is not intact does not become the old version again, and no single
\* step turns one version into the other.
LEMMA InstalledStep ==
    ASSUME Worn(panda, panda')
    PROVE  \/ Installed' = Installed
           \/ Installed # "none" /\ Installed' = "none"
           \/ Installed = "none" /\ Installed' = "new"
<1>1. 1 \in Word /\ Word \subseteq Nat /\ Size["new"] \in Word /\ Size["old"] \in Word
  BY Numbers
<1>2. \A v \in Version : 1 .. Size[v] \subseteq Word /\ 1 \in 1 .. Size[v]
  BY <1>1, Numbers DEF Version, Word
<1>3. Whole(panda, "old")' => Whole(panda, "old")
  <2> SUFFICES ASSUME Whole(panda, "old")', NEW w \in 1 .. Size["old"]
               PROVE  panda.flash[w] = [of |-> "old", nr |-> w]
    BY DEF Whole
  <2>1. w \in Word
    BY <1>2 DEF Version
  <2>2. panda'.flash[w] = [of |-> "old", nr |-> w]
    BY DEF Whole
  <2>3. /\ panda'.flash[w] \notin {Erased, Spoilt}
        /\ panda'.flash[w] \notin [of : {"new"}, nr : Word]
    BY <2>2 DEF Erased, Spoilt
  <2> QED BY <2>1, <2>2, <2>3 DEF Worn
<1>4. ~(Whole(panda, "old") /\ Whole(panda, "new")')
  <2> SUFFICES ASSUME Whole(panda, "old"), Whole(panda, "new")'
               PROVE  FALSE
    OBVIOUS
  <2>1. panda.flash[1] = [of |-> "old", nr |-> 1] /\ panda'.flash[1] = [of |-> "new", nr |-> 1]
    BY <1>2 DEF Whole, Version
  <2>2. /\ panda'.flash[1] # panda.flash[1]
        /\ panda'.flash[1] \notin {Erased, Spoilt}
        /\ panda.flash[1] # Erased
    BY <2>1 DEF Erased, Spoilt
  <2> QED BY <1>1, <2>2 DEF Worn
<1> QED BY <1>3, <1>4 DEF Installed

AppIsWhole == panda.runs = "app" => Installed # "none"

LEMMA UpdateStep ==
    ASSUME FlashInv, AppIsWhole, [FlashNext]_flashVars
    PROVE  AppIsWhole' /\ [Firmware!Next]_(Firmware!vars)
<1>1. panda \in Panda
  BY DEF FlashInv, FlashTypeOK
<1>2. Installed \in {"old", "new", "none"}
  BY DEF Installed
<1> USE DEF AppIsWhole, Running, Firmware!Next, Firmware!vars,
            Firmware!Start, Firmware!Stop, Firmware!Remove, Firmware!Install
<1>3. CASE panda' = panda
  BY <1>3 DEF Installed, Whole
<1>4. CASE panda.runs = "app" /\ panda'.runs \in {"app", "off", "reset"}
           /\ panda'.flash = panda.flash
  BY <1>2, <1>4, SameFlash
<1>5. CASE panda.runs # "app" /\ panda'.runs # "app" /\ Worn(panda, panda')
  BY <1>2, <1>5, InstalledStep
<1>6. CASE Boot
  <2>1. panda.runs = "reset"
    BY <1>6 DEF Boot
  <2> QED BY <1>2, <1>6, <2>1, BootIs, SameFlash
<1>7. CASE PowerCut \/ PowerOn
  <2>1. panda'.flash = panda.flash /\ panda'.runs \in {"off", "reset"}
    BY <1>7, PowerIs
  <2>2. Worn(panda, panda')
    BY <2>1 DEF Worn
  <2> QED BY <1>4, <1>5, <2>1, <2>2
<1>8. ASSUME NEW op \in Ops, Served(op), op = "write" => at = "write"
      PROVE  AppIsWhole' /\ [Firmware!Next]_(Firmware!vars)
  <2>1. panda.runs \in {"flasher", "app"}
    BY <1>8 DEF Served
  <2>2. /\ panda'.runs \in {panda.runs, "reset"}
        /\ panda.runs # "flasher" => panda'.flash = panda.flash
        /\ Worn(panda, panda')
    BY <1>8, ServedIs
  <2> QED BY <1>4, <1>5, <2>1, <2>2
<1>9. CASE DfuDone
  <2>1. panda.runs = "dfu" /\ panda'.runs \in {"dfu", "reset"} /\ Worn(panda, panda')
    BY <1>9, DfuDoneIs DEF DfuDone
  <2> QED BY <1>5, <2>1
<1>10. CASE HostStep
  BY <1>3, <1>8, <1>9, <1>10, HostSteps
<1>11. CASE UNCHANGED flashVars
  BY <1>3, <1>11 DEF flashVars
<1> QED BY <1>6, <1>7, <1>10, <1>11 DEF FlashNext

LEMMA UpdateStarts == FlashInit => AppIsWhole /\ Firmware!Init
<1> SUFFICES ASSUME FlashInit PROVE AppIsWhole /\ Firmware!Init
  OBVIOUS
<1>1. panda.runs = "off"
  BY DEF FlashInit
<1>2. Whole(panda, "old")
  <2>1. \A w \in 1 .. Size["old"] : w \in Word /\ w <= Size["old"]
    BY Numbers DEF Word
  <2>2. panda.flash = [w \in Word |-> IF w <= Size["old"]
                                      THEN [of |-> "old", nr |-> w] ELSE Erased]
    BY DEF FlashInit
  <2> QED BY <2>1, <2>2 DEF Whole
<1> QED BY <1>1, <1>2 DEF AppIsWhole, Firmware!Init, Installed, Running

\* Flashing and recovering implement Update: whatever is cut off, of images of
\* any size, an application that runs is one whole version, which is replaced
\* as a whole and only while it does not run (bootstub.c, flasher.h,
\* flash_static, recover).
THEOREM FlashIsAtomic == FlashSpec => UpdateIsAtomic
<1>1. FlashInv /\ AppIsWhole /\ [FlashNext]_flashVars =>
        AppIsWhole' /\ [Firmware!Next]_(Firmware!vars)
  BY UpdateStep
<1>2. FlashSpec => Firmware!Spec
  BY <1>1, UpdateStarts, FlashStarts, FlashStep, PTL DEF FlashSpec, Firmware!Spec
<1> QED BY <1>2 DEF UpdateIsAtomic

-----------------------------------------------------------------------------
(* A flash that returns has delivered *)

\* The sectors that are erased are those the image lies in, and no others.
LEMMA Sectored ==
    /\ LastSector \in 1 .. Sectors
    /\ \A w \in 1 .. Size["new"] : w \in Word /\ \E s \in 1 .. LastSector : w \in InSector(s)
<1>1. /\ Sectors \in Nat \ {0} /\ SectorWords \in Nat \ {0}
      /\ Size["new"] \in Nat /\ Size["new"] < Sectors * SectorWords
      /\ \A w \in 1 .. Size["new"] : w \in Word
  BY Numbers, FlashAssumption DEF FlashAssumption, Word
<1>2. ASSUME NEW a \in Nat, NEW b \in Nat \ {0}
      PROVE  a \div b \in Nat /\ (a \div b) * b <= a /\ a < (a \div b) * b + b
  BY <1>2
<1>3. ASSUME NEW a \in Nat, NEW c \in Nat, NEW b \in Nat \ {0}, a <= c
      PROVE  a \div b <= c \div b
  <2>1. (a \div b) * b < (c \div b) * b + b /\ a \div b \in Nat /\ c \div b \in Nat
    BY <1>2, <1>3
  <2> DEFINE x == a \div b
             y == c \div b
  <2> HIDE DEF x, y
  <2>2. x \in Nat /\ y \in Nat /\ x * b < y * b + b
    BY <2>1 DEF x, y
  <2>3. ~(x >= y + 1)
    <3> SUFFICES ASSUME x >= y + 1 PROVE FALSE
      OBVIOUS
    <3>1. x * b >= (y + 1) * b
      BY <2>2
    <3>2. (y + 1) * b = y * b + b
      BY <2>2
    <3> QED BY <2>2, <3>1, <3>2
  <2> QED BY <2>2, <2>3 DEF x, y
<1>4. LastSector \in 1 .. Sectors
  <2> DEFINE x == Size["new"] \div SectorWords
  <2>1. x \in Nat /\ x * SectorWords <= Size["new"]
    BY <1>1, <1>2
  <2> HIDE DEF x
  <2>2. x * SectorWords < Sectors * SectorWords
    BY <1>1, <2>1
  <2>3. x < Sectors
    <3> SUFFICES ASSUME x >= Sectors PROVE FALSE
      BY <1>1, <2>1
    <3>1. x * SectorWords >= Sectors * SectorWords
      BY <1>1, <2>1
    <3> QED BY <1>1, <2>1, <2>2, <3>1
  <2> QED BY <1>1, <2>1, <2>3 DEF LastSector, x
<1>5. ASSUME NEW w \in 1 .. Size["new"]
      PROVE  w \in Word /\ \E s \in 1 .. LastSector : w \in InSector(s)
  <2> DEFINE s == (w - 1) \div SectorWords + 1
  <2>1. (w - 1) \div SectorWords \in Nat
    BY <1>1, <1>2
  <2>2. (w - 1) \div SectorWords <= Size["new"] \div SectorWords
    BY <1>1, <1>3, SMTT(30)
  <2>3. Size["new"] \div SectorWords \in Nat
    BY <1>1, <1>2
  <2>4. s \in 1 .. LastSector
    BY <2>1, <2>2, <2>3 DEF LastSector
  <2>5. w \in Word /\ w \in InSector(s)
    BY <1>1 DEF InSector
  <2> QED BY <2>4, <2>5
<1> QED BY <1>4, <1>5

\* How far the host has got, if nothing failed since it began.
Erasing == /\ panda.runs = "flasher" /\ panda.unlocked /\ panda.prog_ptr = 1
           /\ pos \in 1 .. LastSector
           /\ \A s \in 1 .. pos - 1 : \A w \in InSector(s) : panda.flash[w] = Erased

Writing == /\ panda.runs = "flasher" /\ panda.unlocked /\ panda.prog_ptr = pos
           /\ pos \in 1 .. Size["new"]
           /\ \A w \in 1 .. pos - 1 : panda.flash[w] = [of |-> "new", nr |-> w]
           /\ \A w \in pos .. Size["new"] : panda.flash[w] = Erased

Delivering ==
    clean => /\ at = "unlock" => panda.runs = "flasher"
             /\ at = "erase" => Erasing
             /\ at = "write" => Writing
             /\ at \in {"restart", "return"} => Whole(panda, "new")
             /\ returned => /\ at = "idle"
                            /\ panda.runs \in {"flasher", "app"}
                            /\ Whole(panda, "new")

LEMMA CleanRequest ==
    ASSUME NEW op, clean', Answered(op) \/ Failed(op)
    PROVE  /\ clean
           /\ \/ panda.runs \in {"flasher", "app"} /\ panda' = Serve(panda, op)
              \/ Failed(op) /\ panda' = panda
<1>1. CASE Answered(op)
  BY <1>1 DEF Answered, Reachable, Fault, NoFault
<1>2. CASE Failed(op)
  BY <1>2 DEF Failed, Fault, NoFault
<1> QED BY <1>1, <1>2

LEMMA UnlockedIs ==
    ASSUME panda \in Panda, panda' = Serve(panda, "unlock"), panda.runs = "flasher"
    PROVE  panda'.runs = "flasher" /\ panda'.unlocked /\ panda'.prog_ptr = 1
BY DEF Serve, Unlock, Panda

LEMMA ErasedIs ==
    ASSUME panda \in Panda, panda' = Serve(panda, "erase"), Erasing
    PROVE  /\ panda'.runs = "flasher" /\ panda'.unlocked /\ panda'.prog_ptr = 1
           /\ \A s \in 1 .. pos : \A w \in InSector(s) : panda'.flash[w] = Erased
<1>1. pos \in 1 .. Sectors /\ pos \in Nat /\ panda.runs = "flasher"
  BY Sectored, FlashAssumption DEF FlashAssumption, Erasing
<1>2. panda' = [panda EXCEPT !.flash = [w \in Word |-> IF w \in InSector(pos) THEN Erased
                                                       ELSE panda.flash[w]]]
  BY <1>1 DEF Serve, EraseSector, Erasing
<1>3. \A w \in Word : panda'.flash[w] = IF w \in InSector(pos) THEN Erased
                                         ELSE panda.flash[w]
  BY <1>2 DEF Panda
<1>4. ASSUME NEW s \in 1 .. pos, NEW w \in InSector(s)
      PROVE  panda'.flash[w] = Erased
  <2>1. w \in Word
    BY DEF InSector
  <2>2. CASE s = pos
    BY <1>3, <2>1, <2>2
  <2>3. CASE s # pos
    <3>1. s \in 1 .. pos - 1
      BY <1>1, <2>3
    <3> QED BY <1>3, <2>1, <3>1 DEF Erasing
  <2> QED BY <2>2, <2>3
<1>5. panda'.runs = "flasher" /\ panda'.unlocked /\ panda'.prog_ptr = 1
  BY <1>2 DEF Panda, Erasing
<1> QED BY <1>4, <1>5

LEMMA WrittenIs ==
    ASSUME panda \in Panda, panda' = Serve(panda, "write"), Writing
    PROVE  /\ panda'.runs = "flasher" /\ panda'.unlocked /\ panda'.prog_ptr = pos + 1
           /\ \A w \in 1 .. pos : panda'.flash[w] = [of |-> "new", nr |-> w]
           /\ \A w \in pos + 1 .. Size["new"] : panda'.flash[w] = Erased
<1>1. pos \in Nat /\ \A w \in 1 .. Size["new"] : w \in Word
  BY Sectored, Numbers DEF Writing
<1>2. panda.prog_ptr = pos /\ pos \in Word /\ panda.flash[pos] = Erased
      /\ panda.unlocked /\ panda.runs = "flasher"
  BY <1>1, Numbers DEF Writing
<1> DEFINE data == [of |-> "new", nr |-> pos]
<1>3. panda' = [panda EXCEPT !.flash = [panda.flash EXCEPT ![pos] = data],
                             !.prog_ptr = pos + 1]
  BY <1>2 DEF Serve, WriteWord, Panda
<1> HIDE DEF data
<1> DEFINE content == [panda.flash EXCEPT ![pos] = data]
<1>4. \A w \in Word : panda'.flash[w] = IF w = pos THEN data ELSE panda.flash[w]
  <2>1. \A w \in Word : content[w] = IF w = pos THEN data ELSE panda.flash[w]
    BY <1>2 DEF Panda
  <2> HIDE DEF content
  <2>2. panda' = [panda EXCEPT !.flash = content, !.prog_ptr = pos + 1]
    BY <1>3 DEF content
  <2>3. panda'.flash = content
    BY <2>2 DEF Panda
  <2> QED BY <2>1, <2>3
<1>5. panda'.runs = "flasher" /\ panda'.unlocked /\ panda'.prog_ptr = pos + 1
  <2> HIDE DEF content
  <2>1. panda' = [panda EXCEPT !.flash = content, !.prog_ptr = pos + 1]
    BY <1>3 DEF content
  <2> QED BY <1>2, <2>1 DEF Panda
<1>6. \A w \in 1 .. pos : panda'.flash[w] = [of |-> "new", nr |-> w]
  <2> SUFFICES ASSUME NEW w \in 1 .. pos
               PROVE  panda'.flash[w] = [of |-> "new", nr |-> w]
    OBVIOUS
  <2>1. w \in Word
    BY <1>2, Numbers DEF Word
  <2>2. CASE w = pos
    BY <1>4, <2>1, <2>2 DEF data
  <2>3. CASE w # pos
    <3>1. w \in 1 .. pos - 1
      BY <1>1, <2>3
    <3> QED BY <1>4, <2>1, <2>3, <3>1 DEF Writing
  <2> QED BY <2>2, <2>3
<1>7. \A w \in pos + 1 .. Size["new"] : panda'.flash[w] = Erased
  BY <1>1, <1>4, Numbers DEF Writing, Word
<1> QED BY <1>5, <1>6, <1>7

LEMMA DeliveringStep ==
    ASSUME FlashInv, Delivering, [FlashNext]_flashVars
    PROVE  Delivering'
<1> SUFFICES ASSUME clean'
             PROVE  /\ at' = "unlock" => panda'.runs = "flasher"
                    /\ at' = "erase" => Erasing'
                    /\ at' = "write" => Writing'
                    /\ at' \in {"restart", "return"} => Whole(panda, "new")'
                    /\ returned' => /\ at' = "idle"
                                    /\ panda'.runs \in {"flasher", "app"}
                                    /\ Whole(panda, "new")'
  BY DEF Delivering
<1> DEFINE Goal == /\ at' = "unlock" => panda'.runs = "flasher"
                   /\ at' = "erase" => Erasing'
                   /\ at' = "write" => Writing'
                   /\ at' \in {"restart", "return"} => Whole(panda, "new")'
                   /\ returned' => /\ at' = "idle"
                                   /\ panda'.runs \in {"flasher", "app"}
                                   /\ Whole(panda, "new")'
<1>1. panda \in Panda /\ pos \in Nat
  BY DEF FlashInv, FlashTypeOK
<1>2. Whole(panda, "new")' <=> \A w \in 1 .. Size["new"] :
                                  panda'.flash[w] = [of |-> "new", nr |-> w]
  BY DEF Whole
<1>3. CASE UNCHANGED flashVars
  BY <1>3 DEF flashVars, Delivering, Erasing, Writing, Whole
<1>4. CASE Begin
  <2>1. at' \in {"compare", "to_flasher"}
    BY <1>4 DEF Begin, Go
  <2>2. ~returned'
    BY <1>4 DEF Begin
  <2> QED BY <2>1, <2>2
<1>5. CASE Compare
  <2>1. ~returned
    BY <1>5 DEF Delivering, Compare, Answered, Failed, Fault, NoFault
  <2>2. CASE returned'
    <3>1. at' = "idle" /\ UpToDate /\ Answered("compare")
      BY <1>5, <2>1, <2>2 DEF Compare, Go
    <3>2. panda' = panda
      BY <3>1 DEF Answered, Serve, Fault, NoFault
    <3> QED BY <1>2, <3>1, <3>2 DEF UpToDate, Installed, Whole
  <2>3. CASE ~returned'
    BY <1>5, <2>3 DEF Compare, Go, Raise
  <2> QED BY <2>2, <2>3
<1>6. CASE Enter \/ ToFlasher \/ ToDfu
  <2>1. at' \in {"reconnect", "again", "wait_dfu"} /\ returned' = returned
    BY <1>6 DEF Enter, ToFlasher, ToDfu, ResetRequest, Go
  <2>2. clean /\ at # "idle"
    BY <1>6, CleanRequest DEF Enter, ToFlasher, ToDfu, ResetRequest
  <2> QED BY <2>1, <2>2 DEF Delivering
<1>7. CASE Reconnect \/ Again \/ Reflash
  <2>1. clean /\ returned' = returned /\ at # "idle"
    BY <1>7 DEF Reconnect, Again, Reflash, Connect, ReconnectFails
  <2>2. at' \in {"present", "idle", "to_dfu", "compare"}
    BY <1>7 DEF Reconnect, Again, Reflash, Connect, ReconnectFails, Go, Raise
  <2> QED BY <2>1, <2>2 DEF Delivering
<1>8. CASE Present
  <2>1. clean /\ returned' = returned /\ at = "present"
    BY <1>8, CleanRequest DEF Present, Request
  <2>2. CASE at' = "unlock"
    <3>1. Answered("present") /\ panda.runs = "flasher"
      BY <1>8, <2>2 DEF Present, Request, Go, Raise
    <3>2. panda' = panda
      BY <3>1 DEF Answered, Serve, Fault, NoFault
    <3> QED BY <2>1, <2>2, <3>1, <3>2 DEF Delivering
  <2>3. CASE at' = "idle"
    BY <2>1, <2>3 DEF Delivering
  <2> QED BY <1>8, <2>2, <2>3 DEF Present, Request, Go, Raise
<1>9. CASE UnlockFlash
  <2>1. clean /\ returned' = returned /\ at = "unlock"
    BY <1>9, CleanRequest DEF UnlockFlash, Request
  <2>2. CASE at' = "erase"
    <3>1. Answered("unlock") /\ pos' = 1 /\ panda.runs = "flasher"
      BY <1>9, <2>1, <2>2 DEF UnlockFlash, Request, Go, Raise, Delivering
    <3>2. panda' = Serve(panda, "unlock")
      BY <3>1 DEF Answered, Fault, NoFault
    <3>3. Erasing'
      BY <1>1, <3>1, <3>2, UnlockedIs, Sectored, FlashAssumption
         DEF FlashAssumption, Erasing, LastSector
    <3> QED BY <2>1, <2>2, <3>3 DEF Delivering
  <2>3. CASE at' = "idle"
    BY <2>1, <2>3 DEF Delivering
  <2> QED BY <1>9, <2>2, <2>3 DEF UnlockFlash, Request, Go, Raise
<1>10. CASE Erase
  <2>1. clean /\ returned' = returned /\ at = "erase" /\ Erasing
    BY <1>10, CleanRequest DEF Erase, Request, Delivering
  <2>2. CASE at' = "idle"
    BY <2>1, <2>2 DEF Delivering
  <2>3. CASE at' # "idle"
    <3>1. /\ Answered("erase")
          /\ \/ at' = "erase" /\ pos < LastSector /\ pos' = pos + 1
             \/ at' = "write" /\ ~(pos < LastSector) /\ pos' = 1
      BY <1>10, <2>3 DEF Erase, Request, Go, Raise
    <3>2. panda' = Serve(panda, "erase")
      BY <3>1 DEF Answered, Fault, NoFault
    <3>3. /\ panda'.runs = "flasher" /\ panda'.unlocked /\ panda'.prog_ptr = 1
          /\ \A s \in 1 .. pos : \A w \in InSector(s) : panda'.flash[w] = Erased
      BY <1>1, <2>1, <3>2, ErasedIs
    <3>4. LastSector \in Nat /\ LastSector' = LastSector /\ pos \in 1 .. LastSector
      BY <2>1, Sectored, FlashAssumption DEF FlashAssumption, LastSector, Erasing
    <3>5. CASE at' = "erase"
      <4>1. Erasing'
        <5>1. pos' \in 1 .. LastSector /\ pos' - 1 = pos
          BY <3>1, <3>4, <3>5
        <5>2. \A s \in 1 .. pos' - 1 : \A w \in InSector(s) : panda'.flash[w] = Erased
          BY <3>3, <5>1
        <5> QED BY <3>3, <3>4, <5>1, <5>2 DEF Erasing, InSector
      <4> QED BY <2>1, <3>5, <4>1 DEF Delivering
    <3>6. CASE at' = "write"
      <4>1. pos = LastSector /\ pos' = 1
        BY <3>1, <3>4, <3>6
      <4>2. \A w \in 1 .. Size["new"] : panda'.flash[w] = Erased
        BY <3>3, <4>1, Sectored
      <4>3. Writing'
        BY <3>3, <4>1, <4>2, Numbers DEF Writing, Word
      <4> QED BY <2>1, <3>6, <4>3 DEF Delivering
    <3> QED BY <3>1, <3>5, <3>6
  <2> QED BY <2>2, <2>3
<1>11. CASE Write
  <2>1. clean /\ returned' = returned /\ at = "write" /\ Writing
    BY <1>11, CleanRequest DEF Write, Request, Delivering
  <2>2. CASE at' = "idle"
    BY <2>1, <2>2 DEF Delivering
  <2>3. CASE at' # "idle"
    <3>1. /\ Answered("write")
          /\ \/ at' = "write" /\ pos < Size["new"] /\ pos' = pos + 1
             \/ at' = "restart" /\ ~(pos < Size["new"])
      BY <1>11, <2>3 DEF Write, Request, Go, Raise
    <3>2. panda' = Serve(panda, "write")
      BY <3>1 DEF Answered, Fault, NoFault
    <3>3. /\ panda'.runs = "flasher" /\ panda'.unlocked /\ panda'.prog_ptr = pos + 1
          /\ \A w \in 1 .. pos : panda'.flash[w] = [of |-> "new", nr |-> w]
          /\ \A w \in pos + 1 .. Size["new"] : panda'.flash[w] = Erased
      BY <1>1, <2>1, <3>2, WrittenIs
    <3>4. pos \in 1 .. Size["new"] /\ Size["new"] \in Nat
      BY <2>1, Numbers DEF Writing
    <3>5. CASE at' = "write"
      <4>1. pos' = pos + 1 /\ pos' - 1 = pos /\ pos' \in 1 .. Size["new"]
        BY <3>1, <3>4, <3>5
      <4>2. Writing'
        BY <3>3, <4>1 DEF Writing
      <4> QED BY <2>1, <3>5, <4>2 DEF Delivering
    <3>6. CASE at' = "restart"
      <4>1. pos = Size["new"]
        BY <3>1, <3>4, <3>6
      <4> QED BY <1>2, <2>1, <3>3, <3>6, <4>1 DEF Delivering
    <3> QED BY <3>1, <3>5, <3>6
  <2> QED BY <2>2, <2>3
<1>12. CASE Restart
  <2>1. clean /\ returned' = returned /\ at = "restart" /\ at' = "return"
    BY <1>12, CleanRequest DEF Restart, ResetRequest, Go
  <2>2. panda' = panda \/ panda' = Serve(panda, "restart")
    BY <1>12, CleanRequest DEF Restart, ResetRequest
  <2>3. panda'.flash = panda.flash
    <3>1. panda.mode \in {"NORMAL", "SOFTLOADER", "BOOTLOADER", "other"}
      BY <1>1 DEF Panda
    <3> QED BY <1>1, <2>2, <3>1, ResetIs DEF Serve
  <2> QED BY <1>2, <2>1, <2>3 DEF Delivering, Whole
<1>13. CASE Return
  <2>1. clean /\ panda' = panda /\ at = "return" /\ at' = "idle"
    BY <1>13 DEF Return, Connect, ReconnectFails, Go, Raise
  <2>2. returned' => panda.runs \in {"flasher", "app"}
    BY <1>13, <2>1 DEF Return, Connect, ReconnectFails, Delivering
  <2> QED BY <1>2, <2>1, <2>2 DEF Delivering, Whole
<1>14. CASE WaitDfu
  <2>1. clean /\ panda' = panda /\ returned' = returned /\ at' \in {"dfu_erase", "idle"}
    BY <1>14 DEF WaitDfu, Go, Raise
  <2>2. at = "wait_dfu" \/ panda.runs = "dfu"
    BY <1>14 DEF WaitDfu
  <2> QED BY <2>1, <2>2 DEF Delivering
<1>15. CASE DfuErase \/ DfuProgram \/ DfuJump
  <2>1. /\ returned' = returned /\ at # "idle"
        /\ at' \in {"idle", "dfu_erase", "dfu_program", "dfu_jump", "connect"}
    BY <1>15 DEF DfuErase, DfuProgram, DfuJump, DfuRequest, Go, Raise
  <2>2. clean
    BY <1>15 DEF DfuErase, DfuProgram, DfuJump, DfuRequest, Fault, NoFault
  <2> QED BY <2>1, <2>2 DEF Delivering
<1>16. CASE Boot
  <2>1. clean /\ returned' = returned /\ at' = at /\ panda.runs = "reset"
    BY <1>16 DEF Boot
  <2>2. panda'.flash = panda.flash
    BY <1>16, BootIs
  <2> QED BY <1>2, <2>1, <2>2 DEF Delivering, Erasing, Writing, Whole
<1>17. ~PowerCut
  BY DEF PowerCut, Fault
<1>18. CASE PowerOn
  <2>1. /\ clean /\ returned' = returned /\ at' = at /\ panda.runs = "off"
        /\ panda' = [panda EXCEPT !.runs = "reset"]
    BY <1>18 DEF PowerOn
  <2>2. panda'.flash = panda.flash
    BY <1>1, <2>1 DEF Panda
  <2> QED BY <1>2, <2>1, <2>2 DEF Delivering, Erasing, Writing, Whole
<1> QED BY <1>3, <1>4, <1>5, <1>6, <1>7, <1>8, <1>9, <1>10, <1>11, <1>12, <1>13, <1>14,
           <1>15, <1>16, <1>17, <1>18 DEF FlashNext, HostStep

\* A flash that returned with nothing failing since it began has installed the
\* new version, of any size: the sectors it erases are enough, and every word
\* is written once, in its place (flash_static, flash_write_word).
THEOREM FlashDoesDeliver == FlashSpec => []FlashDelivers
<1>1. FlashInit => Delivering
  BY DEF FlashInit, Delivering
<1>2. Delivering => FlashDelivers
  <2> SUFFICES ASSUME Delivering, returned, clean PROVE Installed = "new"
    BY DEF FlashDelivers
  <2>1. Whole(panda, "new")
    BY DEF Delivering
  <2>2. ~Whole(panda, "old")
    <3>1. 1 \in 1 .. Size["new"] /\ 1 \in 1 .. Size["old"]
      BY Numbers DEF Word
    <3>2. panda.flash[1] = [of |-> "new", nr |-> 1]
      BY <2>1, <3>1 DEF Whole
    <3>3. [of |-> "new", nr |-> 1].of # [of |-> "old", nr |-> 1].of
      OBVIOUS
    <3>4. panda.flash[1] # [of |-> "old", nr |-> 1]
      BY <3>2, <3>3
    <3> QED BY <3>1, <3>4 DEF Whole
  <2> QED BY <2>1, <2>2 DEF Installed
<1>3. FlashInv /\ Delivering /\ [FlashNext]_flashVars => Delivering'
  BY DeliveringStep
<1> QED BY <1>1, <1>2, <1>3, FlashStarts, FlashStep, PTL DEF FlashSpec
=============================================================================
