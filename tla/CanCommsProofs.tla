--------------------------- MODULE CanCommsProofs --------------------------
(* Proofs about CanComms: for every stream of packets and every way to cut *)
(* it into chunks.  What the host holds is in order as long as a host that *)
(* connects starts with an empty buffer of its own.                        *)
EXTENDS CanComms, SequenceTheorems, TLAPS

-----------------------------------------------------------------------------
(* Runs of consecutive bytes *)

LEMMA RunLen ==
    ASSUME NEW a \in Nat, NEW n \in Nat
    PROVE  /\ Run(a, n) \in Seq(Nat)
           /\ Len(Run(a, n)) = n
           /\ \A i \in 1 .. n : Run(a, n)[i] = a + i - 1
<1>1. \A i \in 1 .. n : a + i - 1 \in Nat
  OBVIOUS
<1>2. Run(a, n) \in [1 .. n -> Nat]
  BY <1>1 DEF Run
<1>. QED
  BY <1>2 DEF Run

LEMMA RunType ==
    ASSUME NEW a \in Nat, NEW n \in Nat, a + n <= Total, Total \in Nat
    PROVE  Run(a, n) \in Seq(Position)
<1>1. \A i \in 1 .. n : a + i - 1 \in Position
  BY DEF Position
<1>. QED
  BY <1>1 DEF Run

LEMMA RunEmpty ==
    ASSUME NEW a \in Nat, NEW n \in Nat
    PROVE  Run(a, n) = <<>> <=> n = 0
<1>1. Run(a, n) \in Seq(Nat) /\ Len(Run(a, n)) = n
  BY RunLen
<1>. HIDE DEF Run
<1>. QED
  BY <1>1

LEMMA RunJoin ==
    ASSUME NEW a \in Nat, NEW n \in Nat, NEW k \in Nat
    PROVE  Run(a, n) \o Run(a + n, k) = Run(a, n + k)
<1>. DEFINE s == Run(a, n)  t == Run(a + n, k)  u == Run(a, n + k)
<1>1. a + n \in Nat /\ n + k \in Nat
  OBVIOUS
<1>2. /\ s \in Seq(Nat) /\ Len(s) = n
      /\ \A i \in 1 .. n : s[i] = a + i - 1
  BY RunLen
<1>3. /\ t \in Seq(Nat) /\ Len(t) = k
      /\ \A i \in 1 .. k : t[i] = (a + n) + i - 1
  BY <1>1, RunLen
<1>4. /\ u \in Seq(Nat) /\ Len(u) = n + k
      /\ \A i \in 1 .. n + k : u[i] = a + i - 1
  BY <1>1, RunLen
<1>. HIDE DEF s, t, u
<1>5. /\ s \o t \in Seq(Nat) /\ Len(s \o t) = n + k
      /\ \A i \in 1 .. n + k :
           (s \o t)[i] = IF i <= n THEN s[i] ELSE t[i - n]
  BY <1>2, <1>3, ConcatProperties
<1>. DEFINE w == s \o t
<1>. HIDE DEF w
<1>6. /\ w \in Seq(Nat) /\ Len(w) = n + k
      /\ \A i \in 1 .. n + k : w[i] = IF i <= n THEN s[i] ELSE t[i - n]
  BY <1>5 DEF w
<1>7. ASSUME NEW i \in 1 .. n + k PROVE w[i] = u[i]
  <2>1. CASE i <= n
    BY <1>2, <1>4, <1>6, <2>1
  <2>2. CASE i > n
    <3>1. w[i] = t[i - n] /\ i - n \in 1 .. k
      BY <1>6, <2>2
    <3>2. t[i - n] = (a + n) + (i - n) - 1
      BY <1>3, <3>1
    <3>. QED
      BY <1>4, <3>1, <3>2
  <2>. QED
    BY <2>1, <2>2
<1>8. w = u
  BY <1>4, <1>6, <1>7, SeqEqual
<1>. QED
  BY <1>8 DEF s, t, u, w

LEMMA RunTake ==
    ASSUME NEW a \in Nat, NEW n \in Nat, NEW k \in 0 .. n
    PROVE  Take(Run(a, n), k) = Run(a, k)
<1>. DEFINE s == Run(a, n)  t == Run(a, k)  u == SubSeq(s, 1, k)
<1>1. /\ s \in Seq(Nat) /\ Len(s) = n /\ t \in Seq(Nat) /\ Len(t) = k
      /\ \A i \in 1 .. n : s[i] = a + i - 1
      /\ \A i \in 1 .. k : t[i] = a + i - 1
  BY RunLen
<1>. HIDE DEF s, t
<1>2. u \in Seq(Nat) /\ Len(u) = k /\ \A i \in 1 .. k : u[i] = s[i]
  BY <1>1
<1>3. u = t
  BY <1>1, <1>2
<1>. QED
  BY <1>3 DEF s, t, Take

LEMMA RunDrop ==
    ASSUME NEW a \in Nat, NEW n \in Nat, NEW k \in 0 .. n
    PROVE  Drop(Run(a, n), k) = Run(a + k, n - k)
<1>. DEFINE s == Run(a, n)  t == Run(a + k, n - k)
            u == SubSeq(s, k + 1, n)
<1>0. a + k \in Nat /\ n - k \in Nat
  OBVIOUS
<1>1. /\ s \in Seq(Nat) /\ Len(s) = n /\ t \in Seq(Nat) /\ Len(t) = n - k
      /\ \A i \in 1 .. n : s[i] = a + i - 1
      /\ \A i \in 1 .. n - k : t[i] = (a + k) + i - 1
  BY <1>0, RunLen
<1>. HIDE DEF s, t
<1>2. /\ u \in Seq(Nat) /\ Len(u) = n - k
      /\ \A i \in 1 .. n - k : u[i] = s[k + i]
  BY <1>1, SMTT(30)
<1>3. u = t
  BY <1>1, <1>2, SMTT(30)
<1>. QED
  BY <1>1, <1>3 DEF s, t, Drop

-----------------------------------------------------------------------------
(* The inductive invariant: each buffer holds a run of consecutive bytes,  *)
(* and the runs follow one another.                                        *)

\* Where the panda is in the stream the host writes.
Here == next_out - Len(chunk)

\* can_write_buffer holds what came of the packet that is due.
WriteInv ==
    /\ next_out \in 0 .. Total
    /\ due \in Boundary
    /\ due <= Here
    /\ Len(chunk) \in Nat
    /\ chunk = Run(Here, Len(chunk))
    /\ write_buffer = Run(due, Here - due)
    /\ tail_size \in Nat
    /\ due = Here => tail_size = 0
    /\ due # Here => tail_size > 0 /\ Length[due] = Here - due + tail_size
    /\ handed \in Seq(Position)

\* Up to where the bytes that were popped have been put into chunks, and up
\* to where the host has them.
Sent == next_in - Len(read_buffer)
Got == Sent - Len(data)

\* can_read_buffer and the chunk in the making hold the end of what was popped.
ReadInv ==
    /\ next_in \in Boundary
    /\ arrived \in Boundary
    /\ next_in <= arrived
    /\ max_len \in {0, ReadSize}
    /\ Len(data) \in 0 .. max_len
    /\ Len(read_buffer) \in Nat
    /\ Len(read_buffer) = 0 \/ Len(read_buffer) < MaxLength
    /\ Got \in Nat
    /\ read_buffer = Run(Sent, Len(read_buffer))
    /\ data = Run(Got, Len(data))
    /\ max_len > 0 => read_buffer = <<>> \/ Len(data) = max_len
    /\ reads \in 0 .. BulkReads
    /\ reads = 0 => max_len = 0

HostType ==
    /\ dat \in Seq(Position)
    /\ overflow \in Seq(Position)
    /\ unpacking \in BOOLEAN
    /\ unpacking => reads = 0
    /\ wanted \in 0 .. Total
    /\ bad \in BOOLEAN

\* The host holds the bytes from the packet to be unpacked next on.
HostInv ==
    /\ wanted \in Boundary
    /\ unpacking => /\ dat = Run(wanted, Len(dat))
                    /\ wanted + Len(dat) = Got
    /\ ~unpacking => /\ overflow = Run(wanted, Len(overflow))
                     /\ dat = Run(wanted + Len(overflow), Len(dat))
                     /\ wanted + Len(overflow) + Len(dat) = Got
                     /\ reads = 0 => dat = <<>>
    /\ ~bad

-----------------------------------------------------------------------------
(* The host writes *)

LEMMA WriteTypes ==
    ASSUME WriteInv
    PROVE  /\ chunk \in Seq(Position)
           /\ write_buffer \in Seq(Position)
           /\ Here \in Nat /\ due \in Nat /\ Here - due \in Nat
           /\ Len(write_buffer) = Here - due
           /\ write_buffer = <<>> <=> due = Here
           /\ chunk = <<>> <=> Len(chunk) = 0
           /\ due # Here => due \in Position
           /\ chunk # <<>> => Here \in Position /\ chunk[1] = Here
<1>1. due \in Nat /\ due <= Total /\ Total \in Nat
  BY CommsAssumption DEF WriteInv
<1>2. Here \in Nat /\ Here - due \in Nat /\ Here <= next_out
  BY <1>1 DEF WriteInv, Here
<1>3. chunk \in Seq(Position) /\ Len(chunk) \in Nat
  <2>1. Here + Len(chunk) <= Total
    BY <1>1 DEF WriteInv, Here
  <2>2. Run(Here, Len(chunk)) \in Seq(Position) /\ Len(chunk) \in Nat
    BY <1>1, <1>2, <2>1, RunType DEF WriteInv
  <2>. QED
    BY <2>2 DEF WriteInv
<1>4. /\ write_buffer \in Seq(Position)
      /\ Len(write_buffer) = Here - due
      /\ write_buffer = <<>> <=> due = Here
  <2>1. due + (Here - due) <= Total
    BY <1>1, <1>2 DEF WriteInv
  <2>2. write_buffer = <<>> <=> Here - due = 0
    BY <1>1, <1>2, RunEmpty DEF WriteInv
  <2>3. Run(due, Here - due) \in Seq(Position)
    BY <1>1, <1>2, <2>1, RunType
  <2>4. Len(Run(due, Here - due)) = Here - due
    BY <1>1, <1>2, RunLen
  <2>. QED
    BY <1>1, <1>2, <2>2, <2>3, <2>4 DEF WriteInv
<1>5. chunk = <<>> <=> Len(chunk) = 0
  BY <1>3
<1>6. due # Here => due \in Position
  BY <1>1, <1>2 DEF WriteInv, Position
<1>7. ASSUME chunk # <<>> PROVE Here \in Position /\ chunk[1] = Here
  <2>1. Len(chunk) >= 1
    BY <1>3, <1>7
  <2>. DEFINE n == Len(chunk)
  <2>. HIDE DEF n
  <2>0. n \in Nat /\ 1 \in 1 .. n
    BY <1>3, <2>1 DEF n
  <2>2. Run(Here, n)[1] = Here + 1 - 1
    BY <1>2, <2>0, RunLen
  <2>3. chunk[1] = Here
    BY <1>2, <2>2 DEF WriteInv, n
  <2>4. Here < next_out /\ next_out <= Total
    BY <1>1, <1>3, <2>1 DEF WriteInv, Here
  <2>. QED
    BY <1>1, <1>2, <2>3, <2>4 DEF WriteInv, Position
<1>. QED
  BY <1>2, <1>3, <1>4, <1>5, <1>6, <1>7, <1>1

\* What Length is at the start of a packet.
LEMMA LengthAt ==
    ASSUME NEW b \in Boundary, b # Total
    PROVE  /\ b \in Position
           /\ Length[b] \in 1 .. MaxLength
           /\ b + Length[b] \in Boundary
           /\ \A c \in Boundary : c > b => c >= b + Length[b]
<1>1. b \in Position
  BY CommsAssumption DEF Position
<1>. QED
  BY <1>1, CommsAssumption

LEMMA WriteInit == Init => WriteInv
<1>. SUFFICES ASSUME Init PROVE WriteInv
  OBVIOUS
<1>1. Run(0, 0) = <<>> /\ Total \in Nat
  BY RunEmpty, CommsAssumption
<1>2. Len(chunk) = 0 /\ next_out = 0
  BY DEF Init
<1>3. Here = 0
  BY <1>2 DEF Here
<1>. QED
  BY <1>1, <1>2, <1>3, CommsAssumption DEF Init, WriteInv

LEMMA HostWriteKeeps == WriteInv /\ HostWrite => WriteInv'
<1>. SUFFICES ASSUME WriteInv, HostWrite PROVE WriteInv'
  OBVIOUS
<1>. USE WriteTypes
<1>1. PICK n \in Chunks : /\ next_out + n <= Total
                          /\ chunk' = Run(next_out, n)
                          /\ next_out' = next_out + n
  BY DEF HostWrite
<1>2. n \in Nat /\ next_out \in Nat /\ Total \in Nat
  BY CommsAssumption DEF WriteInv
<1>3. Len(chunk') = n
  BY <1>1, <1>2, RunLen
<1>4. Here = next_out
  BY <1>2 DEF HostWrite, Here
<1>5. Here' = Here
  BY <1>1, <1>2, <1>3, <1>4 DEF Here
<1>6. chunk' = Run(Here', Len(chunk'))
  BY <1>1, <1>3, <1>4, <1>5
<1>7. next_out' \in 0 .. Total
  BY <1>1, <1>2
<1>. QED
  BY <1>2, <1>3, <1>5, <1>6, <1>7 DEF WriteInv, HostWrite

\* The bytes taken from the chunk complete the packet that is due.
LEMMA Completes ==
    ASSUME WriteInv, Complete
    PROVE  /\ handed' = Run(due, Length[due])
           /\ WriteInv'
<1>. DEFINE k == tail_size
<1>1. /\ due # Here /\ Here \in Nat /\ due \in Nat /\ Here - due \in Nat
      /\ Len(chunk) \in Nat /\ k \in 0 .. Len(chunk)
      /\ Length[due] = Here - due + k
      /\ due \in Position
  BY WriteTypes DEF WriteInv, Complete
<1>2. Take(chunk, k) = Run(Here, k)
  BY <1>1, RunTake DEF WriteInv
<1>3. Drop(chunk, k) = Run(Here + k, Len(chunk) - k)
  BY <1>1, RunDrop DEF WriteInv
<1>4. Run(due, Here - due) \o Run(Here, k) = Run(due, Length[due])
  <2>. DEFINE n == Here - due
  <2>1. n \in Nat /\ k \in Nat /\ due + n = Here /\ n + k = Length[due]
    BY <1>1
  <2>. HIDE DEF n
  <2>2. Run(due, n) \o Run(due + n, k) = Run(due, n + k)
    BY <1>1, <2>1, RunJoin, ZenonT(60)
  <2>. QED
    BY <2>1, <2>2 DEF n
<1>5. handed' = Run(due, Length[due]) /\ due' = due + Length[due]
  BY <1>2, <1>4 DEF Complete, Hand, WriteInv
<1>6. Len(chunk') = Len(chunk) - k
  <2>1. Here + k \in Nat /\ Len(chunk) - k \in Nat
    BY <1>1
  <2>. QED
    BY <1>3, <2>1, RunLen DEF Complete
<1>7. Here' = Here + k
  BY <1>1, <1>6 DEF Complete, Here, WriteInv
<1>8. due' = Here'
  BY <1>1, <1>5, <1>7
<1>9. due # Total
  BY <1>1, CommsAssumption DEF Position
<1>10. due' \in Boundary /\ due + Length[due] <= Total
  BY <1>5, <1>9, LengthAt, CommsAssumption DEF WriteInv
<1>11. handed' \in Seq(Position)
  BY <1>1, <1>5, <1>10, RunType, CommsAssumption
<1>12. write_buffer' = Run(due', Here' - due')
  BY <1>1, <1>8, <1>7, RunEmpty DEF Complete
<1>13. chunk' = Run(Here', Len(chunk'))
  BY <1>3, <1>6, <1>7 DEF Complete
<1>. QED
  BY <1>1, <1>5, <1>6, <1>7, <1>8, <1>10, <1>11, <1>12, <1>13
     DEF WriteInv, Complete

LEMMA LaterKeeps == WriteInv /\ Later => WriteInv'
<1>. SUFFICES ASSUME WriteInv, Later PROVE WriteInv'
  OBVIOUS
<1>. DEFINE n == Len(chunk)  k == Here - due
<1>1. /\ due # Here /\ Here \in Nat /\ due \in Nat /\ k \in Nat
      /\ n \in Nat /\ next_out = Here + n
  BY WriteTypes DEF WriteInv, Later, Here
<1>2. due + k = Here
  BY <1>1
<1>. HIDE DEF n, k
<1>3. Run(due, k) \o Run(due + k, n) = Run(due, k + n)
  BY <1>1, RunJoin
<1>4. write_buffer' = Run(due, k + n)
  BY <1>2, <1>3 DEF WriteInv, Later, n, k
<1>5. chunk' = <<>> /\ Len(chunk') = 0 /\ next_out' = next_out /\ due' = due
  BY DEF Later
<1>6. Here' = next_out
  BY <1>1, <1>5 DEF Here
<1>7. k + n = Here' - due' /\ Here' # due'
  BY <1>1, <1>5, <1>6, <1>2
<1>8. tail_size' \in Nat /\ tail_size' > 0
      /\ Length[due] = (k + n) + tail_size'
  BY <1>1 DEF WriteInv, Later, n, k
<1>9. chunk' = Run(Here', Len(chunk'))
  BY <1>1, <1>5, <1>6, RunEmpty
<1>10. write_buffer' = Run(due', Here' - due')
  BY <1>4, <1>5, <1>7
<1>11. due' <= Here' /\ Length[due'] = Here' - due' + tail_size'
  BY <1>1, <1>2, <1>5, <1>6, <1>7, <1>8
<1>12. /\ next_out' \in 0 .. Total /\ due' \in Boundary
       /\ handed' \in Seq(Position)
  BY <1>5 DEF WriteInv, Later
<1>. QED
  BY <1>5, <1>7, <1>8, <1>9, <1>10, <1>11, <1>12 DEF WriteInv

\* A whole packet in the chunk is the one that is due.
LEMMA WholeCompletes ==
    ASSUME WriteInv, Whole
    PROVE  /\ handed' = Run(due, Length[due])
           /\ WriteInv'
<1>. DEFINE n == Len(chunk)  k == Length[due]
<1>1. /\ due = Here /\ Here \in Position /\ chunk[1] = Here
      /\ n \in Nat /\ next_out = Here + n
  BY WriteTypes DEF WriteInv, Whole, Here
<1>2. due # Total /\ Total \in Nat /\ due \in Nat
  BY <1>1, CommsAssumption DEF Position
<1>3. /\ k \in 1 .. MaxLength /\ due + k \in Boundary /\ due + k <= Total
      /\ MaxLength \in Nat
  BY <1>2, LengthAt, CommsAssumption DEF WriteInv
<1>4. k \in 0 .. n
  BY <1>1, <1>3 DEF Whole
<1>. HIDE DEF n, k
<1>5. chunk = Run(due, n)
  BY <1>1 DEF WriteInv, n
<1>6. Take(chunk, k) = Run(due, k)
  BY <1>1, <1>2, <1>4, <1>5, RunTake
<1>7. Drop(chunk, k) = Run(due + k, n - k)
  BY <1>1, <1>2, <1>4, <1>5, RunDrop
<1>8. /\ handed' = Run(due, k) /\ due' = due + k
      /\ chunk' = Run(due + k, n - k)
      /\ write_buffer' = <<>> /\ next_out' = next_out
      /\ tail_size' = tail_size
  BY <1>1, <1>6, <1>7 DEF Whole, Hand, k
<1>9. due + k \in Nat /\ n - k \in Nat
  BY <1>1, <1>2, <1>4
<1>10. Len(chunk') = n - k
  BY <1>8, <1>9, RunLen
<1>11. Here' = due + k
  BY <1>1, <1>2, <1>4, <1>8, <1>10 DEF Here
<1>12. Run(due', Here' - due') = <<>>
  BY <1>8, <1>9, <1>11, RunEmpty
<1>13. handed' \in Seq(Position)
  BY <1>2, <1>3, <1>4, <1>8, RunType
<1>14. tail_size = 0
  BY <1>1 DEF WriteInv
<1>15. WriteInv'
  BY <1>3, <1>8, <1>9, <1>10, <1>11, <1>12, <1>13, <1>14 DEF WriteInv
<1>. QED
  BY <1>8, <1>15 DEF k

LEMMA StashKeeps == WriteInv /\ Stash => WriteInv'
<1>. SUFFICES ASSUME WriteInv, Stash PROVE WriteInv'
  OBVIOUS
<1>1. /\ due = Here /\ Here \in Position /\ chunk[1] = Here
      /\ Len(chunk) \in Nat /\ next_out = Here + Len(chunk)
      /\ Len(chunk) # 0
  BY WriteTypes DEF WriteInv, Stash, Here
<1>2. due # Total /\ due \in Nat /\ next_out \in Nat
  BY <1>1, CommsAssumption DEF Position, WriteInv
<1>3. Length[due] \in Nat
  BY <1>2, LengthAt, CommsAssumption DEF WriteInv
<1>4. /\ chunk' = <<>> /\ Len(chunk') = 0 /\ next_out' = next_out
      /\ due' = due /\ write_buffer' = chunk /\ handed' = handed
  BY DEF Stash
<1>5. Here' = next_out
  BY <1>2, <1>4 DEF Here
<1>6. write_buffer' = Run(due', Here' - due')
  BY <1>1, <1>2, <1>4, <1>5 DEF WriteInv
<1>7. /\ tail_size' \in Nat /\ tail_size' > 0
      /\ Length[due] = Here' - due' + tail_size'
  BY <1>1, <1>2, <1>3, <1>4, <1>5 DEF Stash
<1>8. chunk' = Run(Here', Len(chunk'))
  BY <1>2, <1>4, <1>5, RunEmpty
<1>9. due' < Here' /\ Length[due'] = Here' - due' + tail_size'
  BY <1>1, <1>2, <1>4, <1>5, <1>7
<1>10. /\ next_out' \in 0 .. Total /\ due' \in Boundary
       /\ handed' \in Seq(Position)
  BY <1>4 DEF WriteInv
<1>. QED
  BY <1>2, <1>4, <1>5, <1>6, <1>7, <1>8, <1>9, <1>10 DEF WriteInv

\* A new host and the panda start at the same place.
LEMMA ConnectKeepsWrite == WriteInv /\ Connect => WriteInv'
<1>. SUFFICES ASSUME WriteInv, Connect PROVE WriteInv'
  OBVIOUS
<1>1. PICK b \in Boundary : next_out' = b /\ due' = b
  BY DEF Connect
<1>2. b \in 0 .. Total /\ b \in Nat
  BY CommsAssumption
<1>3. /\ chunk' = <<>> /\ Len(chunk') = 0 /\ handed' = handed
      /\ write_buffer' = <<>> /\ tail_size' = 0
  BY DEF Connect, comms_can_reset
<1>4. Here' = b
  BY <1>1, <1>2, <1>3 DEF Here
<1>5. Run(b, 0) = <<>>
  BY <1>2, RunEmpty
<1>. QED
  BY <1>1, <1>2, <1>3, <1>4, <1>5 DEF WriteInv

LEMMA WriteFrame == WriteInv /\ UNCHANGED writing => WriteInv'
  BY DEF WriteInv, Here, writing

LEMMA WriteNext == WriteInv /\ [Next]_vars => WriteInv'
<1>. SUFFICES ASSUME WriteInv, [Next]_vars PROVE WriteInv'
  OBVIOUS
<1>1. CASE Write
  BY <1>1, HostWriteKeeps, Completes, LaterKeeps, WholeCompletes, StashKeeps
     DEF Write
<1>2. CASE Read \/ Recv \/ UNCHANGED vars
  BY <1>2, WriteFrame DEF Read, Recv, vars, Push, ReadBegin, ReadPacket,
     ReadEnd, HostRead, Unpack, UnpackEnd
<1>3. CASE Connect
  BY <1>3, ConnectKeepsWrite
<1>. QED
  BY <1>1, <1>2, <1>3 DEF Next

\* Every packet given to can_send is the one that is due (comms_can_write).
THEOREM Sending == Spec => SentInOrder
<1>1. Init => WriteInv
  BY WriteInit
<1>2. WriteInv /\ [Next]_vars => WriteInv'
  BY WriteNext
<1>3. WriteInv /\ [Next]_vars
        => [handed' # handed => handed' = Run(due, Length[due])]_vars
  <2>. SUFFICES ASSUME WriteInv, [Next]_vars, handed' # handed
                PROVE  handed' = Run(due, Length[due])
    OBVIOUS
  <2>1. CASE Write
    BY <2>1, Completes, WholeCompletes DEF Write, HostWrite, Later, Stash
  <2>2. CASE Read \/ Recv \/ Connect \/ UNCHANGED vars
    BY <2>2 DEF Read, Recv, vars, writing, Push, ReadBegin, ReadPacket,
       ReadEnd, HostRead, Unpack, UnpackEnd, Connect
  <2>. QED
    BY <2>1, <2>2 DEF Next
<1>. QED
  BY <1>1, <1>2, <1>3, PTL DEF Spec, SentInOrder

\* No whole packet waits for bytes of a later one (comms_can_write).
THEOREM Handing == Spec => []NothingHeldBack
<1>1. Init => WriteInv
  BY WriteInit
<1>2. WriteInv /\ [Next]_vars => WriteInv'
  BY WriteNext
<1>3. WriteInv => NothingHeldBack
  <2>. SUFFICES ASSUME WriteInv, chunk = <<>>, next_out \in Boundary,
                       due # next_out
                PROVE  FALSE
    BY DEF NothingHeldBack
  <2>1. Len(chunk) = 0 /\ next_out \in Nat
    BY DEF WriteInv
  <2>2. Here = next_out
    BY <2>1 DEF Here
  <2>3. due \in Nat /\ due < Here /\ Here <= Total /\ Total \in Nat
    BY <2>2, WriteTypes, CommsAssumption DEF WriteInv
  <2>4. next_out >= due + Length[due]
    BY <2>2, <2>3, LengthAt DEF WriteInv
  <2>5. Length[due] = Here - due + tail_size /\ tail_size > 0
        /\ tail_size \in Nat
    BY <2>3 DEF WriteInv
  <2>. QED
    BY <2>1, <2>2, <2>3, <2>4, <2>5
<1>. QED
  BY <1>1, <1>2, <1>3, PTL DEF Spec

-----------------------------------------------------------------------------
(* The panda fills the chunks the host reads *)

LEMMA ReadTypes ==
    ASSUME ReadInv
    PROVE  /\ next_in \in Nat /\ arrived \in Nat /\ next_in <= arrived
           /\ Sent \in Nat /\ Got \in Nat
           /\ Sent = Got + Len(data)
           /\ next_in = Sent + Len(read_buffer)
           /\ Len(data) \in Nat /\ Len(read_buffer) \in Nat
           /\ next_in <= Total /\ arrived <= Total /\ Total \in Nat
           /\ max_len \in Nat
           /\ read_buffer = <<>> <=> Len(read_buffer) = 0
           /\ read_buffer \in Seq(Position)
           /\ data \in Seq(Position)
<1>1. /\ next_in \in Nat /\ arrived \in Nat /\ next_in <= arrived
      /\ next_in <= Total /\ arrived <= Total /\ Total \in Nat
  BY CommsAssumption DEF ReadInv
<1>2. max_len \in Nat /\ Len(data) \in Nat /\ Len(read_buffer) \in Nat
  BY CommsAssumption DEF ReadInv
<1>3. /\ Sent \in Nat /\ Got \in Nat /\ Sent = Got + Len(data)
      /\ next_in = Sent + Len(read_buffer)
  BY <1>1, <1>2 DEF ReadInv, Got, Sent
<1>4. read_buffer \in Seq(Position)
  <2>1. Run(Sent, Len(read_buffer)) \in Seq(Position)
    BY <1>1, <1>2, <1>3, RunType
  <2>. QED
    BY <2>1 DEF ReadInv
<1>5. data \in Seq(Position)
  <2>0. Got + Len(data) <= Total
    BY <1>1, <1>2, <1>3
  <2>1. Run(Got, Len(data)) \in Seq(Position)
    BY <1>1, <1>2, <1>3, <2>0, RunType
  <2>. QED
    BY <2>1 DEF ReadInv
<1>6. read_buffer = <<>> <=> Len(read_buffer) = 0
  BY <1>4
<1>. QED
  BY <1>1, <1>2, <1>3, <1>4, <1>5, <1>6

LEMMA ReadInit == Init => ReadInv
<1>. SUFFICES ASSUME Init PROVE ReadInv
  OBVIOUS
<1>1. /\ read_buffer = <<>> /\ data = <<>> /\ next_in = 0 /\ arrived = 0
      /\ max_len = 0 /\ reads = 0
  BY DEF Init
<1>2. next_in = 0 /\ Len(read_buffer) = 0 /\ Len(data) = 0
  BY <1>1
<1>3. Sent = 0 /\ Got = 0
  BY <1>2 DEF Sent, Got
<1>4. Run(0, 0) = <<>>
  BY RunEmpty
<1>. QED
  BY <1>1, <1>2, <1>3, <1>4, CommsAssumption DEF ReadInv

LEMMA ReadFrame == ReadInv /\ UNCHANGED <<panda_reading, reads>> => ReadInv'
  BY DEF ReadInv, Sent, Got, panda_reading

LEMMA PushKeeps == ReadInv /\ Push => ReadInv'
<1>. SUFFICES ASSUME ReadInv, Push PROVE ReadInv'
  OBVIOUS
<1>1. arrived # Total /\ arrived \in Nat /\ next_in \in Nat
  BY ReadTypes DEF Push
<1>2. arrived' \in Boundary /\ next_in <= arrived'
  BY <1>1, LengthAt, CommsAssumption DEF Push, ReadInv
<1>3. UNCHANGED <<next_in, read_buffer, max_len, data, reads>>
  BY DEF Push, host_reading
<1>. QED
  BY <1>2, <1>3 DEF ReadInv, Sent, Got

LEMMA ReadBeginKeeps ==
    ASSUME ReadInv, ReadBegin
    PROVE  ReadInv' /\ Got' = Got
<1>. DEFINE n == Len(read_buffer)  k == MIN(ReadSize, n)
<1>1. /\ n \in Nat /\ Sent \in Nat /\ next_in = Sent + n
      /\ Len(data) = 0 /\ Sent = Got /\ max_len = 0
  BY ReadTypes DEF ReadBegin, ReadInv
<1>2. ReadSize \in Nat /\ ReadSize > 0
  BY CommsAssumption
<1>3. k \in 0 .. n /\ k <= ReadSize /\ (k = ReadSize \/ k = n)
  BY <1>1, <1>2 DEF MIN
<1>4. read_buffer = Run(Sent, n)
  BY DEF ReadInv
<1>5. /\ data' = Take(read_buffer, k) /\ read_buffer' = Drop(read_buffer, k)
      /\ max_len' = ReadSize
      /\ UNCHANGED <<arrived, next_in, reads>> /\ reads > 0
  BY DEF ReadBegin, host_reading
<1>6. n = 0 \/ n < MaxLength
  BY DEF ReadInv
<1>. HIDE DEF n, k
<1>7. data' = Run(Sent, k)
  BY <1>1, <1>3, <1>4, <1>5, RunTake
<1>8. read_buffer' = Run(Sent + k, n - k)
  BY <1>1, <1>3, <1>4, <1>5, RunDrop
<1>9. Sent + k \in Nat /\ n - k \in Nat /\ k \in Nat
  BY <1>1, <1>3
<1>10. Len(data') = k
  BY <1>1, <1>7, <1>9, RunLen
<1>11. Len(read_buffer') = n - k
  BY <1>8, <1>9, RunLen
<1>12. Sent' = Sent + k
  BY <1>1, <1>5, <1>9, <1>11 DEF Sent
<1>13. Got' = Sent
  BY <1>1, <1>9, <1>10, <1>12 DEF Got
<1>14. read_buffer' = <<>> \/ Len(data') = max_len'
  BY <1>3, <1>5, <1>8, <1>9, <1>10, RunEmpty
<1>15. Len(read_buffer') = 0 \/ Len(read_buffer') < MaxLength
  BY <1>1, <1>3, <1>6, <1>11, CommsAssumption
<1>16. Len(data') \in 0 .. max_len'
  BY <1>2, <1>3, <1>5, <1>9, <1>10
<1>17. /\ read_buffer' = Run(Sent', Len(read_buffer'))
       /\ data' = Run(Got', Len(data'))
  BY <1>7, <1>8, <1>10, <1>11, <1>12, <1>13
<1>18. /\ next_in' \in Boundary /\ arrived' \in Boundary
       /\ next_in' <= arrived' /\ reads' \in 0 .. BulkReads
  BY <1>5 DEF ReadInv
<1>19. ReadInv'
  BY <1>1, <1>5, <1>9, <1>11, <1>13, <1>14, <1>15, <1>16, <1>17, <1>18
     DEF ReadInv
<1>. QED
  BY <1>1, <1>13, <1>19

LEMMA ReadPacketKeeps ==
    ASSUME ReadInv, ReadPacket
    PROVE  ReadInv' /\ Got' = Got
<1>. DEFINE m == Len(data)  n == Length[next_in]  k == MIN(n, max_len - m)
<1>1. /\ Len(read_buffer) = 0 /\ Sent = next_in /\ next_in \in Nat
      /\ Got \in Nat /\ m \in Nat /\ max_len \in Nat /\ m < max_len
      /\ next_in = Got + m /\ next_in < arrived /\ arrived <= Total
      /\ Total \in Nat
  BY ReadTypes DEF ReadPacket, More
<1>2. /\ n \in 1 .. MaxLength /\ next_in + n \in Boundary
      /\ next_in + n <= arrived
  BY <1>1, LengthAt DEF ReadInv
<1>3. MaxLength \in Nat /\ n \in Nat
  BY <1>2, CommsAssumption
<1>4. /\ k \in 0 .. n /\ k \in Nat /\ k > 0
      /\ m + k <= max_len /\ (k = n \/ m + k = max_len)
  BY <1>1, <1>2, <1>3 DEF MIN
<1>5. Len(Run(next_in, n)) = n
  BY <1>1, <1>3, RunLen, ZenonT(60)
<1>6. /\ data' = data \o Take(Run(next_in, n), k)
      /\ read_buffer' = Drop(Run(next_in, n), k)
      /\ next_in' = next_in + n
      /\ UNCHANGED <<arrived, max_len, reads>>
      /\ max_len > 0
  BY <1>5 DEF ReadPacket, host_reading
<1>7. data = Run(Got, m)
  BY DEF ReadInv
<1>. HIDE DEF m, n, k
<1>8. data' = Run(Got, m + k)
  <2>1. Take(Run(next_in, n), k) = Run(Got + m, k)
    BY <1>1, <1>3, <1>4, RunTake
  <2>2. Run(Got, m) \o Run(Got + m, k) = Run(Got, m + k)
    BY <1>1, <1>4, RunJoin, ZenonT(60)
  <2>. QED
    BY <1>6, <1>7, <2>1, <2>2
<1>9. read_buffer' = Run(next_in + k, n - k)
  BY <1>1, <1>3, <1>4, <1>6, RunDrop
<1>10. m + k \in Nat /\ next_in + k \in Nat /\ n - k \in Nat
  BY <1>1, <1>3, <1>4
<1>11. Len(data') = m + k
  BY <1>1, <1>8, <1>10, RunLen
<1>12. Len(read_buffer') = n - k
  BY <1>9, <1>10, RunLen
<1>13. Sent' = next_in + k
  BY <1>1, <1>3, <1>4, <1>6, <1>12 DEF Sent
<1>14. Got' = Got
  BY <1>1, <1>4, <1>11, <1>13, SMTT(30) DEF Got
<1>15. read_buffer' = <<>> \/ Len(data') = max_len'
  BY <1>3, <1>4, <1>6, <1>9, <1>10, <1>11, RunEmpty
<1>16. Len(read_buffer') < MaxLength /\ Len(data') \in 0 .. max_len'
  BY <1>1, <1>2, <1>3, <1>4, <1>6, <1>11, <1>12
<1>17. /\ read_buffer' = Run(Sent', Len(read_buffer'))
       /\ data' = Run(Got', Len(data'))
  BY <1>8, <1>9, <1>11, <1>12, <1>13, <1>14
<1>18. /\ next_in' \in Boundary /\ arrived' \in Boundary
       /\ next_in' <= arrived' /\ reads' \in 0 .. BulkReads
       /\ max_len' \in {0, ReadSize} /\ (reads' = 0 => max_len' = 0)
  BY <1>2, <1>6 DEF ReadInv
<1>19. ReadInv'
  BY <1>1, <1>10, <1>12, <1>14, <1>15, <1>16, <1>17, <1>18 DEF ReadInv
<1>. QED
  BY <1>14, <1>19

LEMMA ReadEndKeeps ==
    ASSUME ReadInv, ReadEnd
    PROVE  /\ ReadInv'
           /\ Got' = Got + Len(data)
           /\ max_len' = 0 /\ reads' \in Nat
<1>1. /\ Sent \in Nat /\ Got \in Nat /\ Sent = Got + Len(data)
  BY ReadTypes
<1>2. /\ data' = <<>> /\ Len(data') = 0 /\ max_len' = 0
      /\ UNCHANGED <<arrived, next_in, read_buffer>>
      /\ reads' = IF Len(data) < max_len THEN 0 ELSE reads - 1
  BY DEF ReadEnd
<1>3. Sent' = Sent
  BY <1>2 DEF Sent
<1>4. Got' = Sent
  BY <1>1, <1>2, <1>3 DEF Got
<1>5. data' = Run(Got', 0)
  BY <1>1, <1>2, <1>4, RunEmpty
<1>6. reads \in 0 .. BulkReads /\ reads # 0 /\ BulkReads \in Nat
  BY CommsAssumption DEF ReadInv, ReadEnd
<1>7. reads' \in 0 .. BulkReads
  BY <1>2, <1>6
<1>8. read_buffer' = Run(Sent', Len(read_buffer'))
  BY <1>2, <1>3 DEF ReadInv
<1>9. ReadInv'
  BY <1>1, <1>2, <1>4, <1>5, <1>7, <1>8 DEF ReadInv
<1>. QED
  BY <1>1, <1>2, <1>4, <1>6, <1>7, <1>9

LEMMA ConnectKeepsRead ==
    ASSUME ReadInv, Connect
    PROVE  /\ ReadInv'
           /\ Got' = next_in /\ next_in \in 0 .. Total
<1>1. /\ read_buffer' = <<>> /\ Len(read_buffer') = 0 /\ max_len' = 0
      /\ UNCHANGED <<arrived, next_in, data>> /\ reads' = 0
      /\ Len(data') = 0
  BY ReadTypes DEF Connect, comms_can_reset, ReadInv
<1>2. next_in \in Nat /\ next_in \in 0 .. Total
  BY ReadTypes
<1>3. Sent' = next_in
  BY <1>1, <1>2 DEF Sent
<1>4. Got' = next_in
  BY <1>1, <1>2, <1>3 DEF Got
<1>5. Run(next_in, 0) = <<>>
  BY <1>2, RunEmpty
<1>6. data' = <<>>
  BY <1>1, ReadTypes
<1>7. reads' \in 0 .. BulkReads
  BY <1>1, CommsAssumption
<1>8. ReadInv'
  BY <1>1, <1>2, <1>3, <1>4, <1>5, <1>6, <1>7 DEF ReadInv
<1>. QED
  BY <1>2, <1>4, <1>8

LEMMA ReadNext == ReadInv /\ [Next]_vars => ReadInv'
<1>. SUFFICES ASSUME ReadInv, [Next]_vars PROVE ReadInv'
  OBVIOUS
<1>1. CASE Write \/ Unpack \/ UnpackEnd \/ UNCHANGED vars
  BY <1>1, ReadFrame DEF Write, HostWrite, Complete, Later, Whole, Stash,
     Unpack, UnpackEnd, vars, host_reading
<1>2. CASE Push
  BY <1>2, PushKeeps
<1>3. CASE ReadBegin
  BY <1>3, ReadBeginKeeps
<1>4. CASE ReadPacket
  BY <1>4, ReadPacketKeeps
<1>5. CASE ReadEnd
  BY <1>5, ReadEndKeeps
<1>6. CASE HostRead
  <2>1. UNCHANGED panda_reading /\ reads' = BulkReads /\ reads = 0
    BY <1>6 DEF HostRead
  <2>2. BulkReads \in 0 .. BulkReads /\ BulkReads # 0
    BY CommsAssumption
  <2>. QED
    BY <2>1, <2>2 DEF ReadInv, Sent, Got, panda_reading
<1>7. CASE Connect
  BY <1>7, ConnectKeepsRead
<1>. QED
  BY <1>1, <1>2, <1>3, <1>4, <1>5, <1>6, <1>7 DEF Next, Read, Recv

\* bulkRead stops at a chunk only when nothing is left (comms_can_read).
THEOREM Chunking == Spec => ShortIsLast
<1>1. Init => ReadInv
  BY ReadInit
<1>2. ReadInv /\ [Next]_vars => ReadInv'
  BY ReadNext
<1>3. ReadInv /\ [Next]_vars
        => [max_len > 0 /\ max_len' = 0 /\ Len(data) < max_len
              => next_in = arrived /\ read_buffer = <<>>]_vars
  <2>. SUFFICES ASSUME ReadInv, [Next]_vars, max_len > 0, max_len' = 0,
                       Len(data) < max_len
                PROVE  next_in = arrived /\ read_buffer = <<>>
    OBVIOUS
  <2>0. max_len # max_len' /\ max_len \in Nat
    BY ReadTypes
  <2>1. CASE ReadEnd
    <3>1. read_buffer = <<>>
      BY <2>0, ReadTypes DEF ReadInv
    <3>2. ~(next_in < arrived)
      BY <2>1, <3>1 DEF ReadEnd, More
    <3>. QED
      BY <3>1, <3>2, ReadTypes
  <2>2. CASE Next /\ ~ReadEnd
    <3>1. ~ReadBegin
      BY CommsAssumption DEF ReadBegin
    <3>. QED
      BY <2>0, <2>2, <3>1 DEF Next, Read, Recv, Write, HostWrite, Complete,
         Later, Whole, Stash, Push, ReadPacket, HostRead, Unpack, UnpackEnd,
         Connect, panda_reading
  <2>3. CASE UNCHANGED vars
    BY <2>0, <2>3 DEF vars, panda_reading
  <2>. QED
    BY <2>1, <2>2, <2>3
<1>. QED
  BY <1>1, <1>2, <1>3, PTL DEF Spec, ShortIsLast

-----------------------------------------------------------------------------
(* The types, whatever the host keeps *)

LEMMA HostTypeInit == Init => HostType
<1>. SUFFICES ASSUME Init PROVE HostType
  OBVIOUS
<1>1. dat \in Seq(Position) /\ overflow \in Seq(Position)
  BY DEF Init
<1>2. wanted \in 0 .. Total /\ reads = 0
  BY CommsAssumption DEF Init
<1>3. unpacking \in BOOLEAN /\ bad \in BOOLEAN
  BY DEF Init
<1>. QED
  BY <1>1, <1>2, <1>3 DEF HostType

LEMMA ReadEndTypes ==
    ASSUME ReadInv, HostType, ReadEnd
    PROVE  HostType'
<1>1. dat \o data \in Seq(Position) /\ overflow \o dat \o data \in Seq(Position)
  BY ReadTypes, ConcatProperties DEF HostType
<1>2. dat' \in Seq(Position)
  BY <1>1 DEF ReadEnd
<1>3. unpacking' = (reads' = 0)
  BY DEF ReadEnd
<1>. QED
  BY <1>2, <1>3 DEF HostType, ReadEnd

LEMMA UnpackTypes ==
    ASSUME HostType, Unpack
    PROVE  HostType'
<1>1. dat # <<>> /\ Length[dat[1]] <= Len(dat) /\ dat \in Seq(Position)
  BY DEF Unpack, HasMessage, HostType
<1>2. dat[1] \in Position
  BY <1>1
<1>. DEFINE k == Length[dat[1]]
<1>3. k \in 1 .. Len(dat) /\ Len(dat) \in Nat
  BY <1>1, <1>2, CommsAssumption
<1>4. dat' \in Seq(Position)
  <2>1. Drop(dat, k) \in Seq(Position)
    BY <1>1, <1>3 DEF Drop
  <2>2. dat' = Drop(dat, k) \/ dat' = <<>>
    BY DEF Unpack
  <2>3. <<>> \in Seq(Position)
    OBVIOUS
  <2>. QED
    BY <2>1, <2>2, <2>3
<1>5. wanted' \in 0 .. Total
  <2>1. CASE IsPacket(Take(dat, k))
    <3>1. Take(dat, k)[1] = dat[1]
      BY <1>1, <1>3 DEF Take
    <3>2. dat[1] \in Boundary /\ dat[1] # Total
      BY <1>2, <2>1, <3>1, CommsAssumption DEF IsPacket, Position
    <3>3. wanted' = dat[1] + Length[dat[1]]
      BY <2>1 DEF Unpack
    <3>. QED
      BY <3>2, <3>3, LengthAt, CommsAssumption
  <2>2. CASE ~IsPacket(Take(dat, k))
    BY <2>2 DEF Unpack, HostType
  <2>. QED
    BY <2>1, <2>2
<1>6. unpacking' \in BOOLEAN /\ bad' \in BOOLEAN /\ reads' = 0
      /\ overflow' = overflow
  BY DEF Unpack, HostType
<1>. QED
  BY <1>4, <1>5, <1>6 DEF HostType

LEMMA HostTypeNext == ReadInv /\ HostType /\ [Next]_vars => HostType'
<1>. SUFFICES ASSUME ReadInv, HostType, [Next]_vars PROVE HostType'
  OBVIOUS
<1>1. CASE Write \/ Push \/ ReadBegin \/ ReadPacket \/ UNCHANGED vars
  BY <1>1 DEF Write, HostWrite, Complete, Later, Whole, Stash, Push,
     ReadBegin, ReadPacket, vars, host_reading, HostType
<1>2. CASE ReadEnd
  BY <1>2, ReadEndTypes
<1>3. CASE HostRead
  BY <1>3 DEF HostRead, HostType
<1>4. CASE Unpack
  BY <1>4, UnpackTypes
<1>5. CASE UnpackEnd
  <2>1. dat' \in Seq(Position) /\ overflow' \in Seq(Position)
    BY <1>5 DEF UnpackEnd, HostType
  <2>2. ~unpacking' /\ unpacking' \in BOOLEAN /\ UNCHANGED <<wanted, bad>>
    BY <1>5 DEF UnpackEnd
  <2>. QED
    BY <2>1, <2>2 DEF HostType
<1>6. CASE Connect
  <2>1. next_in \in 0 .. Total
    BY <1>6, ConnectKeepsRead
  <2>2. PICK kept \in Kept : overflow' = IF kept THEN overflow ELSE <<>>
    BY <1>6 DEF Connect
  <2>3. overflow' \in Seq(Position)
    BY <2>2 DEF HostType
  <2>4. /\ dat' \in Seq(Position) /\ wanted' \in 0 .. Total
        /\ reads' = 0 /\ bad' = bad
    BY <1>6, <2>1 DEF Connect
  <2>5. unpacking' \in BOOLEAN
    BY <1>6 DEF Connect
  <2>. QED
    BY <2>3, <2>4, <2>5 DEF HostType
<1>. QED
  BY <1>1, <1>2, <1>3, <1>4, <1>5, <1>6 DEF Next, Read, Recv

\* The buffers have the sizes they are given in can_comms.h.
THEOREM TypeCorrect == Spec => []TypeOK
<1>. DEFINE I == WriteInv /\ ReadInv /\ HostType
<1>1. Init => I
  BY WriteInit, ReadInit, HostTypeInit
<1>2. I /\ [Next]_vars => I'
  BY WriteNext, ReadNext, HostTypeNext
<1>3. I => TypeOK
  <2>. SUFFICES ASSUME WriteInv, ReadInv, HostType PROVE TypeOK
    OBVIOUS
  <2>1. /\ next_out \in 0 .. Total
        /\ chunk \in Seq(Position)
        /\ write_buffer \in Seq(Position)
        /\ tail_size \in Nat
        /\ handed \in Seq(Position)
        /\ due \in 0 .. Total
    BY WriteTypes, CommsAssumption DEF WriteInv
  <2>2. (write_buffer = <<>>) = (tail_size = 0)
    BY WriteTypes DEF WriteInv
  <2>3. Len(write_buffer) + tail_size <= MaxLength
    <3>1. CASE due = Here
      BY <3>1, WriteTypes, CommsAssumption DEF WriteInv
    <3>2. CASE due # Here
      BY <3>2, WriteTypes, CommsAssumption DEF WriteInv
    <3>. QED
      BY <3>1, <3>2
  <2>4. /\ arrived \in 0 .. Total
        /\ next_in \in 0 .. arrived
        /\ read_buffer \in Seq(Position)
        /\ read_buffer # <<>> => Len(read_buffer) < MaxLength
        /\ max_len \in {0, ReadSize}
        /\ data \in Seq(Position)
        /\ Len(data) <= max_len
        /\ reads \in 0 .. BulkReads
    BY ReadTypes DEF ReadInv
  <2>. QED
    BY <2>1, <2>2, <2>3, <2>4 DEF TypeOK, HostType
<1>. QED
  BY <1>1, <1>2, <1>3, PTL DEF Spec

-----------------------------------------------------------------------------
(* The host reads *)

LEMMA HostTypes ==
    ASSUME ReadInv, HostType, HostInv
    PROVE  /\ wanted \in Nat /\ Got \in Nat
           /\ Len(dat) \in Nat /\ Len(overflow) \in Nat
           /\ dat \in Seq(Position) /\ overflow \in Seq(Position)
           /\ dat # <<>> <=> Len(dat) # 0
           /\ Got <= Total
<1>1. wanted \in Nat
  BY CommsAssumption DEF HostType
<1>2. dat \in Seq(Position) /\ overflow \in Seq(Position)
  BY DEF HostType
<1>3. Len(dat) \in Nat /\ Len(overflow) \in Nat
      /\ (dat # <<>> <=> Len(dat) # 0)
  BY <1>2
<1>4. Got \in Nat /\ Got <= Total
  BY ReadTypes
<1>. QED
  BY <1>1, <1>2, <1>3, <1>4

LEMMA HostInit == Init => HostInv
<1>. SUFFICES ASSUME Init PROVE HostInv
  OBVIOUS
<1>1. /\ dat = <<>> /\ overflow = <<>> /\ wanted = 0 /\ ~unpacking /\ ~bad
      /\ next_in = 0 /\ read_buffer = <<>> /\ data = <<>>
  BY DEF Init
<1>2. /\ Len(dat) = 0 /\ Len(overflow) = 0 /\ Len(data) = 0
      /\ Len(read_buffer) = 0 /\ next_in = 0
  BY <1>1
<1>3. Sent = 0 /\ Got = 0
  BY <1>2 DEF Sent, Got
<1>4. Run(0, 0) = <<>>
  BY RunEmpty
<1>. QED
  BY <1>1, <1>2, <1>3, <1>4, CommsAssumption DEF HostInv

LEMMA HostFrame ==
    HostInv /\ UNCHANGED <<dat, overflow, unpacking, wanted, bad, reads, Got>>
      => HostInv'
  BY DEF HostInv

LEMMA ReadEndOrder ==
    ASSUME ReadInv, HostType, HostInv, ReadEnd
    PROVE  HostInv'
<1>. DEFINE v == Len(overflow)  d == Len(dat)  m == Len(data)
<1>1. /\ wanted \in Nat /\ v \in Nat /\ d \in Nat /\ m \in Nat /\ Got \in Nat
      /\ reads # 0
  BY HostTypes, ReadTypes DEF ReadEnd, ReadInv
<1>2. ~unpacking
  BY <1>1 DEF HostType
<1>3. /\ overflow = Run(wanted, v) /\ dat = Run(wanted + v, d)
      /\ wanted + v + d = Got /\ data = Run(Got, m)
  BY <1>2 DEF HostInv, ReadInv
<1>4. Got' = Got + m
  BY ReadEndKeeps
<1>5. /\ unpacking' = (reads' = 0)
      /\ dat' = IF reads' = 0 THEN overflow \o dat \o data ELSE dat \o data
      /\ UNCHANGED <<overflow, wanted, bad>>
  BY DEF ReadEnd
<1>. HIDE DEF v, d, m
<1>6. wanted + v \in Nat /\ (wanted + v) + d = Got /\ v + d \in Nat
      /\ wanted + (v + d) = Got /\ d + m \in Nat /\ (v + d) + m \in Nat
  BY <1>1, <1>3
<1>7. CASE reads' = 0
  <2>1. overflow \o dat = Run(wanted, v + d)
    BY <1>1, <1>3, RunJoin, ZenonT(60)
  <2>2. Run(wanted, v + d) \o Run(wanted + (v + d), m)
          = Run(wanted, (v + d) + m)
    <3>. DEFINE p == v + d
    <3>1. p \in Nat
      BY <1>6
    <3>. HIDE DEF p
    <3>2. Run(wanted, p) \o Run(wanted + p, m) = Run(wanted, p + m)
      BY <1>1, <3>1, RunJoin, ZenonT(60)
    <3>. QED
      BY <3>2 DEF p
  <2>3. dat' = Run(wanted, (v + d) + m)
    <3>1. overflow \o dat \o data = Run(wanted, v + d) \o Run(wanted + (v + d), m)
      BY <1>3, <1>6, <2>1
    <3>. QED
      BY <1>5, <1>7, <2>2, <3>1
  <2>4. Len(dat') = (v + d) + m
    BY <1>1, <1>6, <2>3, RunLen
  <2>5. unpacking' /\ wanted' = wanted
    BY <1>5, <1>7
  <2>7. wanted + Len(dat') = Got'
    BY <1>1, <1>4, <1>6, <2>4
  <2>6. dat' = Run(wanted', Len(dat'))
    BY <2>3, <2>4, <2>5
  <2>. QED
    BY <1>5, <2>5, <2>6, <2>7 DEF HostInv
<1>8. CASE reads' # 0
  <2>1. Run(wanted + v, d) \o Run((wanted + v) + d, m)
          = Run(wanted + v, d + m)
    <3>. DEFINE p == wanted + v
    <3>1. p \in Nat
      BY <1>6
    <3>. HIDE DEF p
    <3>2. Run(p, d) \o Run(p + d, m) = Run(p, d + m)
      BY <1>1, <3>1, RunJoin
    <3>. QED
      BY <3>2 DEF p
  <2>2. dat' = Run(wanted + v, d + m)
    BY <1>3, <1>5, <1>6, <1>8, <2>1
  <2>3. Len(dat') = d + m
    BY <1>6, <2>2, RunLen
  <2>4. Len(overflow') = v /\ overflow' = overflow
    BY <1>5 DEF v
  <2>5. ~unpacking' /\ wanted' = wanted
    BY <1>5, <1>8
  <2>8. wanted + Len(overflow') + Len(dat') = Got'
    BY <1>1, <1>3, <1>4, <2>3, <2>4
  <2>6. dat' = Run(wanted' + Len(overflow'), Len(dat'))
    BY <2>2, <2>3, <2>4, <2>5
  <2>7. overflow' = Run(wanted', Len(overflow'))
    BY <1>3, <2>4, <2>5
  <2>. QED
    BY <1>5, <1>8, <2>5, <2>6, <2>7, <2>8 DEF HostInv
<1>. QED
  BY <1>7, <1>8

\* What starts with a whole message starts with a packet.
LEMMA UnpackOrder ==
    ASSUME ReadInv, HostType, HostInv, Unpack
    PROVE  HostInv'
<1>. DEFINE d == Len(dat)  k == Length[dat[1]]
<1>1. /\ unpacking /\ dat # <<>> /\ k <= d
      /\ dat = Run(wanted, d) /\ wanted + d = Got
      /\ d \in Nat /\ d # 0 /\ wanted \in Nat /\ Got <= Total
      /\ wanted \in Boundary /\ Got \in Nat /\ Total \in Nat
  BY HostTypes, CommsAssumption DEF Unpack, HasMessage, HostInv
<1>. HIDE DEF d
<1>2. dat[1] = wanted
  <2>1. 1 \in 1 .. d
    BY <1>1
  <2>2. Run(wanted, d)[1] = wanted + 1 - 1
    BY <1>1, <2>1, RunLen
  <2>. QED
    BY <1>1, <2>2
<1>3. wanted # Total
  BY <1>1
<1>4. k = Length[wanted] /\ k \in 1 .. MaxLength /\ wanted + k \in Boundary
  BY <1>1, <1>2, <1>3, LengthAt
<1>5. k \in 0 .. d /\ k \in Nat /\ k # 0
  BY <1>1, <1>4, CommsAssumption
<1>. HIDE DEF k
<1>6. Take(dat, k) = Run(wanted, k)
  BY <1>1, <1>5, RunTake
<1>7. Drop(dat, k) = Run(wanted + k, d - k)
  BY <1>1, <1>5, RunDrop
<1>8. Take(dat, k)[1] = wanted
  <2>1. 1 \in 1 .. k
    BY <1>5
  <2>2. Run(wanted, k)[1] = wanted + 1 - 1
    BY <1>1, <1>5, <2>1, RunLen
  <2>. QED
    BY <1>1, <1>6, <2>2
<1>9. IsPacket(Take(dat, k))
  BY <1>1, <1>4, <1>6, <1>8 DEF IsPacket
<1>10. /\ dat' = Run(wanted + k, d - k) /\ wanted' = wanted + k
       /\ UNCHANGED <<unpacking, bad, data, read_buffer, next_in>>
  BY <1>2, <1>4, <1>7, <1>9 DEF Unpack, panda_reading, k
<1>11. wanted + k \in Nat /\ d - k \in Nat
  BY <1>1, <1>5
<1>12. Len(dat') = d - k
  BY <1>10, <1>11, RunLen
<1>13. Got' = Got
  BY <1>10 DEF Got, Sent
<1>14. wanted' + Len(dat') = Got'
  BY <1>1, <1>5, <1>10, <1>12, <1>13
<1>15. dat' = Run(wanted', Len(dat'))
  BY <1>10, <1>12
<1>16. unpacking' /\ wanted' \in Boundary
  BY <1>1, <1>4, <1>10
<1>. QED
  BY <1>10, <1>14, <1>15, <1>16 DEF HostInv

LEMMA UnpackEndOrder ==
    ASSUME ReadInv, HostType, HostInv, UnpackEnd
    PROVE  HostInv'
<1>. DEFINE d == Len(dat)
<1>1. /\ unpacking /\ dat = Run(wanted, d) /\ wanted + d = Got /\ d \in Nat
      /\ wanted \in Nat
  BY HostTypes DEF UnpackEnd, HostInv
<1>2. /\ overflow' = dat /\ dat' = <<>> /\ Len(dat') = 0 /\ ~unpacking'
      /\ UNCHANGED <<wanted, bad, data, read_buffer, next_in>>
  BY DEF UnpackEnd, panda_reading
<1>3. Got' = Got /\ Len(overflow') = d
  BY <1>2 DEF Got, Sent
<1>4. overflow' = Run(wanted', Len(overflow'))
  BY <1>1, <1>2, <1>3
<1>5. wanted' + Len(overflow') + Len(dat') = Got'
  BY <1>1, <1>2, <1>3
<1>6. wanted' + Len(overflow') \in Nat
  BY <1>1, <1>2, <1>3
<1>7. dat' = Run(wanted' + Len(overflow'), Len(dat'))
  BY <1>2, <1>6, RunEmpty
<1>. QED
  BY <1>2, <1>4, <1>5, <1>7 DEF HostInv

LEMMA ConnectOrder ==
    ASSUME TRUE \notin Kept, ReadInv, HostInv, Connect
    PROVE  HostInv'
<1>1. /\ overflow' = <<>> /\ dat' = <<>> /\ ~unpacking' /\ wanted' = next_in
      /\ bad' = bad
  BY CommsAssumption DEF Connect
<1>2. Len(overflow') = 0 /\ Len(dat') = 0
  BY <1>1
<1>3. Got' = next_in /\ next_in \in Nat /\ next_in \in Boundary
  BY ConnectKeepsRead, CommsAssumption DEF ReadInv
<1>4. Run(next_in, 0) = <<>>
  BY <1>3, RunEmpty
<1>5. /\ overflow' = Run(wanted', Len(overflow'))
      /\ dat' = Run(wanted' + Len(overflow'), Len(dat'))
      /\ wanted' + Len(overflow') + Len(dat') = Got'
  BY <1>1, <1>2, <1>3, <1>4
<1>. QED
  BY <1>1, <1>3, <1>5 DEF HostInv

LEMMA HostNext ==
    ASSUME TRUE \notin Kept, ReadInv, HostType, HostInv, [Next]_vars
    PROVE  HostInv'
<1>1. CASE Write \/ Push \/ UNCHANGED vars
  BY <1>1, HostFrame DEF Write, HostWrite, Complete, Later, Whole, Stash,
     Push, vars, host_reading, panda_reading, Got, Sent
<1>2. CASE ReadBegin
  BY <1>2, HostFrame, ReadBeginKeeps DEF ReadBegin, host_reading
<1>3. CASE ReadPacket
  BY <1>3, HostFrame, ReadPacketKeeps DEF ReadPacket, host_reading
<1>4. CASE ReadEnd
  BY <1>4, ReadEndOrder
<1>5. CASE HostRead
  <2>1. /\ UNCHANGED <<dat, overflow, unpacking, wanted, bad>>
        /\ reads' # 0 /\ Got' = Got
    BY <1>5, CommsAssumption DEF HostRead, panda_reading, Got, Sent
  <2>. QED
    BY <2>1 DEF HostInv
<1>6. CASE Unpack
  BY <1>6, UnpackOrder
<1>7. CASE UnpackEnd
  BY <1>7, UnpackEndOrder
<1>8. CASE Connect
  BY <1>8, ConnectOrder
<1>. QED
  BY <1>1, <1>2, <1>3, <1>4, <1>5, <1>6, <1>7, <1>8 DEF Next, Read, Recv

\* The bytes of what was popped follow one another from the host to the panda
\* (comms_can_read, can_recv), if every connection starts with a new object.
THEOREM Receiving ==
    ASSUME TRUE \notin Kept
    PROVE  Spec => []ReceivedInOrder
<1>. DEFINE I == ReadInv /\ HostType /\ HostInv
<1>1. Init => I
  BY ReadInit, HostTypeInit, HostInit
<1>2. I /\ [Next]_vars => I'
  BY ReadNext, HostTypeNext, HostNext
<1>3. I => ReceivedInOrder
  <2>. SUFFICES ASSUME ReadInv, HostType, HostInv PROVE ReceivedInOrder
    OBVIOUS
  <2>. DEFINE held == IF unpacking THEN dat ELSE overflow \o dat
              h == Got - wanted  m == Len(data)  r == Len(read_buffer)
  <2>1. /\ wanted \in Nat /\ Got \in Nat /\ m \in Nat /\ r \in Nat
        /\ Got + m = Sent /\ Sent + r = next_in
        /\ Len(dat) \in Nat /\ Len(overflow) \in Nat
    BY HostTypes, ReadTypes
  <2>2. h \in Nat /\ held = Run(wanted, h)
    <3>1. CASE unpacking
      BY <2>1, <3>1 DEF HostInv
    <3>2. CASE ~unpacking
      <4>. DEFINE v == Len(overflow)  d == Len(dat)
      <4>1. /\ overflow = Run(wanted, v) /\ dat = Run(wanted + v, d)
            /\ wanted + v + d = Got
        BY <3>2 DEF HostInv
      <4>2. v \in Nat /\ d \in Nat /\ h = v + d
        BY <2>1, <4>1
      <4>. HIDE DEF v, d
      <4>3. Run(wanted, v) \o Run(wanted + v, d) = Run(wanted, v + d)
        BY <2>1, <4>2, RunJoin, ZenonT(60)
      <4>. QED
        BY <3>2, <4>1, <4>2, <4>3
    <3>. QED
      BY <3>1, <3>2
  <2>3. data = Run(Got, m) /\ read_buffer = Run(Sent, r)
    BY DEF ReadInv
  <2>4. wanted + h = Got
    BY <2>1
  <2>. HIDE DEF held, h, m, r
  <2>5. held \o data = Run(wanted, h + m)
    BY <2>1, <2>2, <2>3, <2>4, RunJoin, ZenonT(60)
  <2>. DEFINE p == h + m
  <2>6. p \in Nat /\ wanted + p = Sent /\ p + r = next_in - wanted
    BY <2>1, <2>2, <2>4
  <2>. HIDE DEF p
  <2>7. Run(wanted, p) \o Run(wanted + p, r) = Run(wanted, p + r)
    <3>1. wanted \in Nat /\ p \in Nat /\ r \in Nat
      BY <2>1, <2>6
    <3>. QED
      BY <3>1, RunJoin
  <2>8. held \o data \o read_buffer = Run(wanted, next_in - wanted)
    BY <2>3, <2>5, <2>6, <2>7 DEF p
  <2>. QED
    BY <2>8 DEF ReceivedInOrder, held
<1>. QED
  BY <1>1, <1>2, <1>3, PTL DEF Spec

\* can_recv raises no checksum error (unpack_can_buffer), if every connection
\* starts with a new object.
THEOREM Parsing ==
    ASSUME TRUE \notin Kept
    PROVE  Spec => []HostParses
<1>. DEFINE I == ReadInv /\ HostType /\ HostInv
<1>1. Init => I
  BY ReadInit, HostTypeInit, HostInit
<1>2. I /\ [Next]_vars => I'
  BY ReadNext, HostTypeNext, HostNext
<1>3. I => HostParses
  BY DEF HostInv, HostParses
<1>. QED
  BY <1>1, <1>2, <1>3, PTL DEF Spec

\* In both directions the stream of packets is whole: nothing is held back, lost,
\* doubled or out of order, if the host starts its reads with an empty overflow
\* buffer (comms_can_write, comms_can_read, can_recv).
THEOREM WholeStreams ==
    ASSUME TRUE \notin Kept
    PROVE  Spec => []StreamsAreWhole
<1>1. Spec => []ReceivedInOrder
  BY Receiving
<1>2. Spec => []HostParses
  BY Parsing
<1>3. NothingHeldBack /\ ReceivedInOrder /\ HostParses => StreamsAreWhole
  BY DEF StreamsAreWhole
<1>. QED
  BY <1>1, <1>2, <1>3, Handing, PTL
=============================================================================
