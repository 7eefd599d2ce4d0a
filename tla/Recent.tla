------------------------------- MODULE Recent ------------------------------
(***************************************************************************)
(* What a UART ring promises: it keeps the bytes put last, as many as fit, *)
(* and hands them out in the order they were put.  A byte that does not    *)
(* fit is never refused: the oldest one makes room for it.                 *)
(***************************************************************************)
EXTENDS Integers, Sequences

CONSTANTS Byte, Capacity,
          PutBy     \* the operation that puts a byte

VARIABLES kept,  \* oldest first
          taken, \* the last one handed out
          call   \* the operation called last

vars == <<kept, taken, call>>

Init == kept = <<>> /\ call = "init"

With(c) == IF Len(kept) < Capacity THEN Append(kept, c)
                                   ELSE Append(Tail(kept), c)

Put == /\ call' = PutBy
       /\ \E c \in Byte : kept' = With(c)
       /\ UNCHANGED taken

\* Handed out in the same step.
PutAndTake == /\ call' = PutBy
              /\ \E c \in Byte : /\ taken' = Head(With(c))
                                 /\ kept' = Tail(With(c))

Take == /\ call' \notin {PutBy, "clear"}
        /\ kept # <<>>
        /\ taken' = Head(kept)
        /\ kept' = Tail(kept)

Clear == /\ call' = "clear"
         /\ kept' = <<>>
         /\ UNCHANGED taken

Other == /\ call' \notin {PutBy, "clear"}
         /\ UNCHANGED <<kept, taken>>

Next == Put \/ PutAndTake \/ Take \/ Clear \/ Other

Spec == Init /\ [][Next]_vars
=============================================================================
