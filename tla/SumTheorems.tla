----------------------------- MODULE SumTheorems ---------------------------
(***************************************************************************)
(* Facts about SumFunction, the sum of a function's values, and about the  *)
(* sum of a sequence of numbers, for the proofs of CanDriver, where what   *)
(* went to the host is a sum over the buses, and of UsbEndpoints, where a  *)
(* FIFO holds numbers of CAN packets.  They rest on induction over the     *)
(* natural numbers, stated with a set.                                     *)
(***************************************************************************)
EXTENDS Integers, Sequences, Functions, FiniteSetTheorems, SequenceTheorems,
        NaturalsInduction, WellFoundedInduction, TLAPS

-----------------------------------------------------------------------------
(* Induction over the natural numbers, stated with a set: the numbers some      *)
(* property holds of.                                                           *)

LEMMA LessIsWellFounded ==
    IsWellFoundedOn({ss \in Nat \X Nat : ss[1] < ss[2]}, Nat)
<1>1. OpToRel(<, Nat) = {ss \in Nat \X Nat : ss[1] < ss[2]}
  BY Zenon DEF OpToRel
<1> QED
  BY <1>1, NatLessThanWellFounded, Zenon

LEMMA LeastOf ==
    ASSUME NEW T \in SUBSET Nat, T # {}
    PROVE  \E n \in T : \A m \in T : n <= m
<1> DEFINE R == {ss \in Nat \X Nat : ss[1] < ss[2]}
<1>1. \E n \in T : \A m \in T : ~ (<<m, n>> \in R)
  BY LessIsWellFounded, WFMin
<1>2. ASSUME NEW n \in Nat, NEW m \in Nat, m < n
      PROVE  <<m, n>> \in R
  <2> DEFINE p == <<m, n>>
  <2>1. p \in Nat \X Nat /\ p[1] = m /\ p[2] = n
    OBVIOUS
  <2> HIDE DEF p
  <2>2. p \in R
    BY <1>2, <2>1
  <2> QED BY <2>2 DEF p
<1> HIDE DEF R
<1>3. PICK n \in T : \A m \in T : ~ (<<m, n>> \in R)
  BY <1>1
<1>4. \A m \in T : ~ (m < n)
  BY <1>2, <1>3
<1> QED
  BY <1>4

LEMMA Induction ==
    ASSUME NEW T \in SUBSET Nat, 0 \in T, \A n \in T : n + 1 \in T
    PROVE  T = Nat
<1> SUFFICES ASSUME Nat \ T # {} PROVE FALSE
  OBVIOUS
<1>1. PICK n \in Nat \ T : \A m \in Nat \ T : n <= m
  BY LeastOf
<1>2. n # 0 /\ n - 1 \in Nat
  BY <1>1
<1>3. n - 1 \in T
  BY <1>1, <1>2
<1> QED BY <1>1, <1>2, <1>3

-----------------------------------------------------------------------------
(* SumFunction *)

Pick(s) == CHOOSE x \in s : TRUE

\* g[s] is the sum of f over s, for every set s in D: one element after the
\* other is added, as MapThenFoldSet does.
Adds(g, f, D) ==
    \A s \in D : g[s] = IF s = {} THEN 0 ELSE f[Pick(s)] + g[s \ {Pick(s)}]

Upto(S, n) == {s \in SUBSET S : Cardinality(s) <= n}

LEMMA PickIn == ASSUME NEW s, s # {} PROVE Pick(s) \in s
BY DEF Pick

LEMMA Smaller ==
    ASSUME NEW S, IsFiniteSet(S), NEW s \in SUBSET S
    PROVE  /\ Cardinality(s) \in Nat
           /\ Cardinality(s) = 0 <=> s = {}
           /\ \A x \in s : /\ s \ {x} \in SUBSET S
                           /\ Cardinality(s \ {x}) = Cardinality(s) - 1
<1>1. IsFiniteSet(s)
  BY FS_Subset
<1> QED
  BY <1>1, FS_CardinalityType, FS_EmptySet, FS_RemoveElement

LEMMA PartialSums ==
    ASSUME NEW S, IsFiniteSet(S), NEW f \in [S -> Nat], NEW n \in Nat
    PROVE  \E g \in [Upto(S, n) -> Nat] : Adds(g, f, Upto(S, n))
<1> DEFINE P(k) == \E g \in [Upto(S, k) -> Nat] : Adds(g, f, Upto(S, k))
           T == {k \in Nat : P(k)}
<1>1. P(0)
  <2> DEFINE g == [s \in Upto(S, 0) |-> 0]
  <2>1. \A s \in Upto(S, 0) : s = {}
    BY Smaller DEF Upto
  <2>2. g \in [Upto(S, 0) -> Nat] /\ Adds(g, f, Upto(S, 0))
    BY <2>1 DEF Adds
  <2> QED BY <2>2
<1>2. ASSUME NEW k \in Nat, P(k) PROVE P(k + 1)
  <2>1. PICK g \in [Upto(S, k) -> Nat] : Adds(g, f, Upto(S, k))
    BY <1>2
  <2> DEFINE h == [s \in Upto(S, k + 1) |->
                     IF s = {} THEN 0 ELSE f[Pick(s)] + g[s \ {Pick(s)}]]
  <2>2. ASSUME NEW s \in Upto(S, k + 1), s # {}
        PROVE  Pick(s) \in S /\ s \ {Pick(s)} \in Upto(S, k)
    BY <2>2, Smaller, PickIn DEF Upto
  <2>3. Upto(S, k) \subseteq Upto(S, k + 1)
    BY Smaller DEF Upto
  <2>4. h \in [Upto(S, k + 1) -> Nat]
    BY <2>2
  <2>5. \A s \in Upto(S, k) : h[s] = g[s]
    BY <2>1, <2>3 DEF Adds
  <2>6. Adds(h, f, Upto(S, k + 1))
    <3> SUFFICES ASSUME NEW s \in Upto(S, k + 1)
                 PROVE  h[s] = IF s = {} THEN 0 ELSE f[Pick(s)] + h[s \ {Pick(s)}]
      BY DEF Adds
    <3>1. CASE s = {}
      BY <3>1
    <3>2. CASE s # {}
      <4>1. h[s \ {Pick(s)}] = g[s \ {Pick(s)}]
        BY <2>2, <2>5, <3>2
      <4> QED BY <3>2, <4>1
    <3> QED BY <3>1, <3>2
  <2> QED BY <2>4, <2>6
<1>3. T = Nat
  <2> HIDE DEF P
  <2>1. 0 \in T /\ \A k \in T : k + 1 \in T
    BY <1>1, <1>2
  <2> HIDE DEF T
  <2>2. T \in SUBSET Nat
    BY DEF T
  <2> QED BY <2>1, <2>2, Induction
<1> QED BY <1>3

\* Functions that agree on a set have one sum over it.
LEMMA SameSums ==
    ASSUME NEW S, IsFiniteSet(S), NEW f, NEW h, NEW g, NEW k,
           Adds(g, f, SUBSET S), Adds(k, h, SUBSET S),
           NEW s \in SUBSET S, \A x \in s : f[x] = h[x]
    PROVE  g[s] = k[s]
<1> DEFINE T == {n \in Nat : \A t \in SUBSET s : Cardinality(t) = n => g[t] = k[t]}
<1>1. 0 \in T
  <2>1. \A t \in SUBSET s : t \in SUBSET S /\ (Cardinality(t) = 0 => t = {})
    BY Smaller
  <2>2. g[{}] = 0 /\ k[{}] = 0
    BY DEF Adds
  <2> QED BY <2>1, <2>2
<1>2. ASSUME NEW n \in T PROVE n + 1 \in T
  <2> SUFFICES ASSUME NEW t \in SUBSET s, Cardinality(t) = n + 1
               PROVE  g[t] = k[t]
    OBVIOUS
  <2>1. t \in SUBSET S /\ t # {}
    BY Smaller
  <2> DEFINE u == t \ {Pick(t)}
  <2>2. Pick(t) \in s /\ u \in SUBSET s /\ Cardinality(u) = n
    BY <2>1, PickIn, Smaller
  <2>3. g[u] = k[u]
    BY <2>2
  <2>4. f[Pick(t)] = h[Pick(t)]
    BY <2>2
  <2>5. g[t] = f[Pick(t)] + g[u] /\ k[t] = h[Pick(t)] + k[u]
    BY <2>1 DEF Adds
  <2> QED BY <2>3, <2>4, <2>5
<1>3. T = Nat
  <2> HIDE DEF T
  <2>1. T \in SUBSET Nat
    BY DEF T
  <2> QED BY <1>1, <1>2, <2>1, Induction
<1> QED BY <1>3, Smaller

\* SumFunction is such a sum.
LEMMA SumAdds ==
    ASSUME NEW S, IsFiniteSet(S), NEW f \in [S -> Nat]
    PROVE  \E g \in [SUBSET S -> Nat] : Adds(g, f, SUBSET S) /\ SumFunction(f) = g[S]
<1>1. Cardinality(S) \in Nat /\ Upto(S, Cardinality(S)) = SUBSET S
  BY FS_CardinalityType, FS_Subset DEF Upto
<1>2. PICK g \in [SUBSET S -> Nat] : Adds(g, f, SUBSET S)
  <2>1. \E g \in [Upto(S, Cardinality(S)) -> Nat] : Adds(g, f, Upto(S, Cardinality(S)))
    BY <1>1, PartialSums
  <2> QED BY <1>1, <2>1
<1> DEFINE Folds(h) == h = [s \in SUBSET S |->
               IF s = {} THEN 0
               ELSE f[CHOOSE x \in s : TRUE] + h[s \ {CHOOSE x \in s : TRUE}]]
           i == CHOOSE h : Folds(h)
<1>3. SumFunction(f) = i[S]
  <2>1. SumFunction(f) = (CHOOSE h : h = [s \in SUBSET (DOMAIN f) |->
               IF s = {} THEN 0
               ELSE f[CHOOSE x \in s : TRUE] + h[s \ {CHOOSE x \in s : TRUE}]])[DOMAIN f]
    BY Zenon DEF SumFunction, SumFunctionOnSet, FoldFunctionOnSet, MapThenFoldSet
  <2>2. DOMAIN f = S
    OBVIOUS
  <2> QED BY <2>1, <2>2, Zenon
<1>4. Folds(g)
  BY <1>2 DEF Adds, Pick
<1>5. Folds(i)
  BY <1>4, Zenon
<1>6. Adds(i, f, SUBSET S)
  <2> HIDE DEF i
  <2> QED BY <1>5 DEF Adds, Pick
<1> HIDE DEF i
<1>7. i[S] = g[S]
  BY <1>2, <1>6, SameSums
<1> QED BY <1>2, <1>3, <1>7

\* The order does not matter: any element may be the last to be added.
LEMMA AnyOrder ==
    ASSUME NEW S, IsFiniteSet(S), NEW f \in [S -> Nat], NEW g \in [SUBSET S -> Nat],
           Adds(g, f, SUBSET S), NEW s \in SUBSET S, NEW x \in s
    PROVE  g[s] = f[x] + g[s \ {x}]
<1> DEFINE P(t) == \A y \in t : g[t] = f[y] + g[t \ {y}]
           T == {n \in Nat : \A t \in SUBSET S : Cardinality(t) = n => P(t)}
<1>1. 0 \in T
  BY Smaller
<1>2. ASSUME NEW n \in T PROVE n + 1 \in T
  <2> SUFFICES ASSUME NEW t \in SUBSET S, Cardinality(t) = n + 1, NEW y \in t
               PROVE  g[t] = f[y] + g[t \ {y}]
    OBVIOUS
  <2> DEFINE p == Pick(t)
  <2>1. p \in t /\ g[t] = f[p] + g[t \ {p}]
    BY PickIn DEF Adds
  <2> HIDE DEF p
  <2>2. CASE y = p
    BY <2>1, <2>2
  <2>3. CASE y # p
    <3>1. /\ t \ {p} \in SUBSET S /\ y \in t \ {p}
          /\ t \ {y} \in SUBSET S /\ p \in t \ {y}
          /\ Cardinality(t \ {p}) = n /\ Cardinality(t \ {y}) = n
      BY <2>1, <2>3, Smaller
    <3>2. /\ g[t \ {p}] = f[y] + g[(t \ {p}) \ {y}]
          /\ g[t \ {y}] = f[p] + g[(t \ {y}) \ {p}]
      BY <3>1
    <3>3. (t \ {p}) \ {y} = (t \ {y}) \ {p}
      OBVIOUS
    <3>4. f[y] \in Nat /\ f[p] \in Nat /\ g[(t \ {p}) \ {y}] \in Nat
      BY <2>1
    <3>5. g[(t \ {y}) \ {p}] = g[(t \ {p}) \ {y}]
      BY <3>3
    <3> QED BY <2>1, <3>2, <3>4, <3>5
  <2> QED BY <2>2, <2>3
<1>3. T = Nat
  <2> HIDE DEF T
  <2>1. T \in SUBSET Nat
    BY DEF T
  <2> QED BY <1>1, <1>2, <2>1, Induction
<1> QED BY <1>3, Smaller

LEMMA LastOf ==
    ASSUME NEW S, IsFiniteSet(S), NEW f \in [S -> Nat], NEW g \in [SUBSET S -> Nat],
           Adds(g, f, SUBSET S), NEW x \in S
    PROVE  g[S] = f[x] + g[S \ {x}]
<1>1. S \in SUBSET S
  OBVIOUS
<1> QED BY <1>1, AnyOrder

LEMMA SumIsNat ==
    ASSUME NEW S, IsFiniteSet(S), NEW f \in [S -> Nat]
    PROVE  SumFunction(f) \in Nat
<1>1. PICK g \in [SUBSET S -> Nat] : SumFunction(f) = g[S]
  BY SumAdds
<1>2. g[S] \in Nat
  OBVIOUS
<1> QED BY <1>1, <1>2

LEMMA SumChanges ==
    ASSUME NEW S, IsFiniteSet(S), NEW f \in [S -> Nat], NEW x \in S, NEW v \in Nat
    PROVE  SumFunction([f EXCEPT ![x] = v]) = SumFunction(f) - f[x] + v
<1> DEFINE h == [f EXCEPT ![x] = v]
<1>1. h \in [S -> Nat] /\ h[x] = v /\ \A y \in S \ {x} : f[y] = h[y]
  OBVIOUS
<1> HIDE DEF h
<1>2. PICK g \in [SUBSET S -> Nat] : Adds(g, f, SUBSET S) /\ SumFunction(f) = g[S]
  BY SumAdds
<1>3. PICK k \in [SUBSET S -> Nat] : Adds(k, h, SUBSET S) /\ SumFunction(h) = k[S]
  BY <1>1, SumAdds
<1>4. g[S] = f[x] + g[S \ {x}]
  BY <1>2, LastOf
<1>5. k[S] = h[x] + k[S \ {x}]
  BY <1>1, <1>3, LastOf
<1>6. g[S \ {x}] = k[S \ {x}]
  BY <1>1, <1>2, <1>3, SameSums
<1>7. f[x] \in Nat /\ g[S \ {x}] \in Nat
  OBVIOUS
<1>8. SumFunction(h) = SumFunction(f) - f[x] + v
  BY <1>1, <1>2, <1>3, <1>4, <1>5, <1>6, <1>7
<1> QED BY <1>8 DEF h

LEMMA SumOfZero ==
    ASSUME NEW S, IsFiniteSet(S), NEW f \in [S -> Nat], \A x \in S : f[x] = 0
    PROVE  SumFunction(f) = 0
<1>1. PICK g \in [SUBSET S -> Nat] : Adds(g, f, SUBSET S) /\ SumFunction(f) = g[S]
  BY SumAdds
<1> DEFINE k == [s \in SUBSET S |-> 0]
           h == [x \in S |-> 0]
<1>2. Adds(k, h, SUBSET S)
  BY PickIn DEF Adds
<1>3. k[S] = 0
  OBVIOUS
<1> HIDE DEF k
<1>4. \A x \in S : f[x] = h[x]
  OBVIOUS
<1> HIDE DEF h
<1>5. S \in SUBSET S
  OBVIOUS
<1>6. g[S] = k[S]
  BY <1>1, <1>2, <1>4, <1>5, SameSums
<1> QED BY <1>1, <1>3, <1>6

LEMMA SumWithout ==
    ASSUME NEW S, IsFiniteSet(S), NEW f \in [S -> Nat], NEW x \in S
    PROVE  SumFunction(f) = f[x] + SumFunction([y \in S \ {x} |-> f[y]])
<1> DEFINE R == S \ {x}
           h == [y \in R |-> f[y]]
<1>1. IsFiniteSet(R) /\ R \in SUBSET S /\ h \in [R -> Nat]
  BY FS_Subset
<1>2. PICK g \in [SUBSET S -> Nat] : Adds(g, f, SUBSET S) /\ SumFunction(f) = g[S]
  BY SumAdds
<1>3. g[S] = f[x] + g[R]
  BY <1>2, LastOf
<1> DEFINE k == [s \in SUBSET R |-> g[s]]
<1>4. k \in [SUBSET R -> Nat]
  BY <1>1
<1>5. Adds(k, h, SUBSET R)
  <2> SUFFICES ASSUME NEW s \in SUBSET R
               PROVE  k[s] = IF s = {} THEN 0 ELSE h[Pick(s)] + k[s \ {Pick(s)}]
    BY DEF Adds
  <2>1. s \in SUBSET S /\ k[s] = g[s]
    OBVIOUS
  <2>2. CASE s = {}
    BY <1>2, <2>1, <2>2 DEF Adds
  <2>3. CASE s # {}
    <3>1. Pick(s) \in s
      BY <2>3, PickIn
    <3>2. h[Pick(s)] = f[Pick(s)] /\ k[s \ {Pick(s)}] = g[s \ {Pick(s)}]
      BY <3>1
    <3>3. g[s] = f[Pick(s)] + g[s \ {Pick(s)}]
      BY <1>2, <2>1, <2>3 DEF Adds
    <3> QED BY <2>1, <2>3, <3>2, <3>3
  <2> QED BY <2>2, <2>3
<1>6. k[R] = g[R] /\ R \in SUBSET R
  OBVIOUS
<1> HIDE DEF h, k, R
<1>7. PICK m \in [SUBSET R -> Nat] : Adds(m, h, SUBSET R) /\ SumFunction(h) = m[R]
  BY <1>1, SumAdds
<1>8. \A y \in R : h[y] = h[y]
  OBVIOUS
<1>9. m[R] = k[R]
  BY <1>1, <1>4, <1>5, <1>6, <1>7, <1>8, SameSums
<1>10. SumFunction(f) = f[x] + SumFunction(h)
  BY <1>2, <1>3, <1>6, <1>7, <1>9
<1> QED BY <1>10 DEF h, R

-----------------------------------------------------------------------------
(* Sums of sequences *)

LEMMA SumOfNone == SumFunction(<<>>) = 0
<1> DEFINE f == [x \in {} |-> 0]
<1>1. IsFiniteSet({}) /\ f \in [{} -> Nat] /\ \A x \in {} : f[x] = 0
  BY FS_EmptySet
<1>2. f = <<>>
  OBVIOUS
<1> HIDE DEF f
<1>3. SumFunction(f) = 0
  BY <1>1, SumOfZero, Zenon
<1> QED BY <1>2, <1>3

LEMMA SumOfSequence ==
    ASSUME NEW q \in Seq(Nat) PROVE SumFunction(q) \in Nat
<1>1. IsFiniteSet(1 .. Len(q)) /\ q \in [1 .. Len(q) -> Nat]
  BY FS_Interval
<1> QED BY <1>1, SumIsNat, Zenon

LEMMA SumOfAppend ==
    ASSUME NEW q \in Seq(Nat), NEW e \in Nat
    PROVE  SumFunction(Append(q, e)) = SumFunction(q) + e
<1> DEFINE f == Append(q, e)
           S == 1 .. Len(q) + 1
           h == [y \in S \ {Len(q) + 1} |-> f[y]]
<1>1. /\ f \in [S -> Nat] /\ Len(q) + 1 \in S /\ f[Len(q) + 1] = e
      /\ IsFiniteSet(S)
  <2>1. Len(q) + 1 \in Int /\ Len(q) + 1 \in S /\ f[Len(q) + 1] = e
    OBVIOUS
  <2>2. IsFiniteSet(S)
    BY <2>1, FS_Interval
  <2>3. f \in Seq(Nat) /\ Len(f) = Len(q) + 1
    OBVIOUS
  <2>4. f \in [1 .. Len(f) -> Nat]
    <3> HIDE DEF f
    <3> QED BY <2>3
  <2> QED BY <2>1, <2>2, <2>3, <2>4
<1>2. h = q
  <2>1. S \ {Len(q) + 1} = 1 .. Len(q)
    OBVIOUS
  <2>2. q \in [1 .. Len(q) -> Nat]
    OBVIOUS
  <2>3. \A y \in 1 .. Len(q) : f[y] = q[y]
    OBVIOUS
  <2> HIDE DEF f, S
  <2> QED BY <2>1, <2>2, <2>3
<1> HIDE DEF f, S
<1>3. SumFunction(f) = f[Len(q) + 1] + SumFunction(h)
  BY <1>1, SumWithout, Zenon
<1> HIDE DEF h
<1>4. SumFunction(f) = e + SumFunction(q)
  BY <1>1, <1>2, <1>3
<1>5. SumFunction(f) = SumFunction(q) + e
  BY <1>4, SumOfSequence
<1> QED BY <1>5 DEF f

LEMMA SumOfTail ==
    ASSUME NEW q \in Seq(Nat), q # <<>>
    PROVE  SumFunction(q) = Head(q) + SumFunction(Tail(q))
<1> DEFINE Holds(p) == SumFunction(p) = Head(p) + SumFunction(Tail(p))
           T == {n \in Nat : \A p \in Seq(Nat) : Len(p) = n + 1 => Holds(p)}
<1>1. 0 \in T
  <2> SUFFICES ASSUME NEW p \in Seq(Nat), Len(p) = 1 PROVE Holds(p)
    OBVIOUS
  <2>1. Head(p) \in Nat /\ p = Append(<<>>, Head(p)) /\ Tail(p) = <<>>
    <3>0. p # <<>>
      <4>1. Len(p) # 0
        OBVIOUS
      <4>2. Len(<<>>) = 0
        BY EmptySeq
      <4> QED BY <4>1, <4>2
    <3>1. p # <<>> /\ Head(p) = p[1] /\ p[1] \in Nat
      BY <3>0
    <3>2. Tail(p) \in Seq(Nat) /\ Len(Tail(p)) = 0
      BY <3>1
    <3>3. Tail(p) = <<>>
      <4> DEFINE t == Tail(p)
      <4> HIDE DEF t
      <4>1. t \in Seq(Nat) /\ Len(t) = 0
        BY <3>2 DEF t
      <4>2. t = <<>>
        BY <4>1
      <4> QED BY <4>2 DEF t
    <3>4. p = Append(<<>>, Head(p))
      BY <3>1
    <3> QED BY <3>1, <3>3, <3>4
  <2>2. SumFunction(p) = 0 + Head(p)
    <3>1. <<>> \in Seq(Nat)
      OBVIOUS
    <3>2. SumFunction(Append(<<>>, Head(p))) = SumFunction(<<>>) + Head(p)
      BY <2>1, <3>1, SumOfAppend
    <3> QED BY <2>1, <3>2, SumOfNone
  <2>3. SumFunction(Tail(p)) = 0
    BY <2>1, SumOfNone
  <2>4. 0 + Head(p) = Head(p) + 0
    BY <2>1
  <2> QED BY <2>2, <2>3, <2>4
<1>2. ASSUME NEW n \in T PROVE n + 1 \in T
  <2> SUFFICES ASSUME NEW p \in Seq(Nat), Len(p) = (n + 1) + 1 PROVE Holds(p)
    OBVIOUS
  <2> DEFINE front == SubSeq(p, 1, n + 1)
             last == p[n + 2]
  <2>1. /\ front \in Seq(Nat) /\ Len(front) = n + 1 /\ last \in Nat
        /\ p = Append(front, last) /\ Head(p) = Head(front) /\ Head(front) \in Nat
        /\ Tail(p) = Append(Tail(front), last) /\ Tail(front) \in Seq(Nat)
    <3>1. n \in Nat
      OBVIOUS
    <3>2. front \in Seq(Nat) /\ Len(front) = n + 1 /\ last \in Nat
      BY <3>1
    <3>3. p = Append(front, last)
      BY <3>1, <3>2
    <3>4. Head(p) = Head(front) /\ Head(front) \in Nat
      BY <3>1, <3>2
    <3>5. Tail(front) \in Seq(Nat)
      <4> HIDE DEF front
      <4>1. front # <<>>
        BY <3>1, <3>2
      <4> QED BY <3>2, <4>1
    <3> HIDE DEF front, last
    <3>6. Tail(p) = Append(Tail(front), last)
      BY <3>1, <3>2, <3>3, <3>5
    <3> QED BY <3>2, <3>3, <3>4, <3>5, <3>6
  <2> HIDE DEF front, last
  <2>2. SumFunction(front) = Head(front) + SumFunction(Tail(front))
    BY <2>1
  <2>3. SumFunction(p) = SumFunction(front) + last
    BY <2>1, SumOfAppend
  <2>4. SumFunction(Tail(p)) = SumFunction(Tail(front)) + last
    BY <2>1, SumOfAppend
  <2>5. SumFunction(Tail(front)) \in Nat
    BY <2>1, SumOfSequence
  <2> QED BY <2>1, <2>2, <2>3, <2>4, <2>5
<1>3. T = Nat
  <2> HIDE DEF T
  <2>1. T \in SUBSET Nat
    BY DEF T
  <2> QED BY <1>1, <1>2, <2>1, Induction
<1>4. Len(q) - 1 \in Nat /\ Len(q) = (Len(q) - 1) + 1
  OBVIOUS
<1>5. Len(q) - 1 \in T
  BY <1>3, <1>4
<1> QED BY <1>4, <1>5
=============================================================================
