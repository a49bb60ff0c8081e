-------------------------- MODULE FastAllocator_proofs --------------------------
EXTENDS FastAllocator, FiniteSetTheorems, FunctionTheorems, SequenceTheorems, TLAPS
(****************************************************************************)
(* AllocatorInv is not inductive.  What the code relies on and never says   *)
(* is kept by AllocatorIndInv: each list holds its blocks once and shares   *)
(* none with another (ListsApart), what a slot uses is in the blocks in use *)
(* (HeldInUse), every piece lies in what its block has given (PiecesTaken), *)
(* and so does the part a thread allocates from (LocalsTaken).              *)
(*                                                                          *)
(* The lists of the slots meet in a FlattenSeq, a recursive function on an  *)
(* interval.  What it holds is shown by IntervalInduction: a well-founded   *)
(* order on finite sets gives each set of naturals its least element.       *)
(****************************************************************************)

------------------------------------------------------------------------------
\* Induction over the naturals, as a fact about sets

\* A set of naturals has a least element: among the intervals 1 .. n, n in the set, one is
\* minimal for strict inclusion, which is well-founded on the finite sets.
LEMMA LeastNatural ==
    ASSUME NEW T, T \subseteq Nat, T # {}
    PROVE  \E n \in T : \A m \in T : n <= m
<1> DEFINE Up == {1 .. n : n \in T}
           R == StrictSubsetOrdering(Nat)
<1>1. \A n \in T : 1 .. n \in FiniteSubsetsOf(Nat)
  BY FS_Interval DEF FiniteSubsetsOf
<1>2. Up \subseteq FiniteSubsetsOf(Nat) /\ Up # {}
  BY <1>1
<1>3. IsWellFoundedOn(R, FiniteSubsetsOf(Nat))
  BY FS_StrictSubsetOrderingWellFounded
<1>4. \E x \in Up : \A y \in Up : ~ (<<y, x>> \in R)
  <2>. HIDE DEF Up, R
  <2>. QED  BY <1>2, <1>3, WFMin
<1>5. PICK n \in T : \A m \in T : ~ (<<1 .. m, 1 .. n>> \in R)
  BY <1>4
<1>6. ASSUME NEW m \in T, m < n  PROVE  <<1 .. m, 1 .. n>> \in R
  <2>1. n \in 1 .. n /\ n \notin 1 .. m
    BY <1>6
  <2>2. 1 .. m \subseteq 1 .. n /\ 1 .. m \in SUBSET Nat /\ 1 .. n \in SUBSET Nat
    BY <1>6
  <2>. QED  BY <2>1, <2>2 DEF StrictSubsetOrdering
<1>7. \A m \in T : n <= m
  <2>1. \A m \in T : ~ (m < n)
    <3>. HIDE DEF R
    <3>. QED  BY <1>5, <1>6
  <2>2. \A m \in T : m \in Nat /\ n \in Nat
    OBVIOUS
  <2>. QED  BY <2>1, <2>2
<1>. QED  BY <1>7

\* A set that holds 1, and with i the next i + 1, holds all of 1 .. n.
LEMMA IntervalInduction ==
    ASSUME NEW n \in Nat, NEW T, 1 \in T, \A i \in 1 .. n : i < n /\ i \in T => i + 1 \in T
    PROVE  1 .. n \subseteq T
<1> DEFINE Missing == (1 .. n) \ T
<1>1. SUFFICES ASSUME Missing # {}  PROVE  FALSE
  OBVIOUS
<1>2. PICK m \in Missing : \A k \in Missing : m <= k
  <2>1. Missing \subseteq Nat
    OBVIOUS
  <2>. HIDE DEF Missing
  <2>. QED  BY <1>1, <2>1, LeastNatural
<1>3. m # 1 /\ m - 1 \in 1 .. n /\ m - 1 \notin Missing
  BY <1>2
<1>. QED  BY <1>3

------------------------------------------------------------------------------
\* FlattenSeq, of one sequence per slot

Flattens(f, n, ss) == f = [i \in 1 .. n |-> IF i = 1 THEN ss[i] ELSE f[i - 1] \o ss[i]]

\* The recursive function in FlattenSeq exists.
LEMMA FlattensExists ==
    ASSUME NEW n \in Nat \ {0}, NEW ss
    PROVE  \E f : Flattens(f, n, ss)
<1> DEFINE T == {m \in 1 .. n : \E f : Flattens(f, m, ss)}
<1>1. 1 \in T
  <2>1. Flattens([i \in 1 .. 1 |-> ss[1]], 1, ss)
    BY DEF Flattens
  <2>. QED  BY <2>1
<1>2. ASSUME NEW m \in 1 .. n, m < n, m \in T  PROVE  m + 1 \in T
  <2>1. PICK g : Flattens(g, m, ss)
    BY <1>2
  <2> DEFINE f == [i \in 1 .. m + 1 |-> IF i = m + 1 THEN g[m] \o ss[i] ELSE g[i]]
  <2>2. \A i \in 1 .. m : g[i] = IF i = 1 THEN ss[i] ELSE g[i - 1] \o ss[i]
    BY <2>1 DEF Flattens
  <2>3. \A i \in 1 .. m : f[i] = g[i]
    OBVIOUS
  <2>4. ASSUME NEW i \in 1 .. m + 1
        PROVE  f[i] = IF i = 1 THEN ss[i] ELSE f[i - 1] \o ss[i]
    <3>1. CASE i = m + 1
      <4>1. f[i] = g[m] \o ss[i]
        BY <3>1
      <4>2. i # 1 /\ i - 1 = m /\ m \in 1 .. m
        BY <3>1
      <4>3. f[i - 1] = g[m]
        BY <4>2, <2>3
      <4>. HIDE DEF f
      <4>. QED  BY <4>1, <4>2, <4>3
    <3>2. CASE i # m + 1
      <4>1. i \in 1 .. m /\ (i # 1 => i - 1 \in 1 .. m)
        BY <3>2
      <4>2. i # 1 => f[i - 1] = g[i - 1]
        BY <4>1, <2>3
      <4>. HIDE DEF f
      <4>. QED  BY <4>1, <4>2, <2>2, <2>3
    <3>. QED  BY <3>1, <3>2
  <2>5. f = [i \in 1 .. m + 1 |-> IF i = 1 THEN ss[i] ELSE f[i - 1] \o ss[i]]
    <3> DEFINE h == [i \in 1 .. m + 1 |-> IF i = 1 THEN ss[i] ELSE f[i - 1] \o ss[i]]
    <3>1. \A i \in 1 .. m + 1 : f[i] = h[i]
      <4>. HIDE DEF f
      <4>. QED  BY <2>4
    <3>2. DOMAIN f = 1 .. m + 1 /\ f = [i \in 1 .. m + 1 |-> f[i]]
      OBVIOUS
    <3>3. h = [i \in 1 .. m + 1 |-> h[i]]
      OBVIOUS
    <3>. HIDE DEF f, h
    <3>4. f = h
      BY <3>1, <3>2, <3>3
    <3>. QED  BY <3>4 DEF h
  <2>6. Flattens(f, m + 1, ss)
    <3>. HIDE DEF f
    <3>. QED  BY <2>5 DEF Flattens
  <2>7. \E h : Flattens(h, m + 1, ss)
    <3>. HIDE DEF f
    <3>. QED  BY <2>6
  <2>8. m + 1 \in 1 .. n
    BY <1>2
  <2>. QED  BY <2>7, <2>8
<1>3. 1 .. n \subseteq T
  <2>. HIDE DEF T
  <2>. QED  BY <1>1, <1>2, IntervalInduction
<1>. QED  BY <1>3

\* A function that Flattens describes, at one index after the other
LEMMA FlattensAt ==
    ASSUME NEW n \in Nat \ {0}, NEW ss, NEW f, Flattens(f, n, ss)
    PROVE  /\ f[1] = ss[1]
           /\ \A i \in 1 .. n : i < n => f[i + 1] = f[i] \o ss[i + 1]
<1>1. \A i \in 1 .. n : f[i] = IF i = 1 THEN ss[i] ELSE f[i - 1] \o ss[i]
  BY DEF Flattens
<1>2. f[1] = ss[1]
  BY <1>1
<1>3. ASSUME NEW i \in 1 .. n, i < n  PROVE  f[i + 1] = f[i] \o ss[i + 1]
  <2>1. i + 1 \in 1 .. n /\ i + 1 # 1 /\ (i + 1) - 1 = i
    BY <1>3
  <2>. QED  BY <1>1, <2>1
<1>. QED  BY <1>2, <1>3

LEMMA FlattenSeqIs ==
    ASSUME NEW S, NEW n \in Nat \ {0}, NEW ss \in [1 .. n -> S]
    PROVE  \E f : Flattens(f, n, ss) /\ FlattenSeq(ss) = f[n]
<1>1. ss \in Seq(S) /\ Len(ss) = n
  BY SeqDef
<1> DEFINE f == CHOOSE g : Flattens(g, n, ss)
<1>2. Flattens(f, n, ss)
  BY FlattensExists
<1>3. FlattenSeq(ss) = f[n]
  BY <1>1 DEF FlattenSeq, Flattens
<1>. QED  BY <1>2, <1>3

\* What FlattenSeq of the slots' lists holds
LEMMA FlattenHolds ==
    ASSUME NEW S, NEW n \in Nat, NEW ss \in [1 .. n -> Seq(S)]
    PROVE  /\ FlattenSeq(ss) \in Seq(S)
           /\ Range(FlattenSeq(ss)) = UNION {Range(ss[i]) : i \in 1 .. n}
<1>1. CASE n = 0
  <2>1. ss \in Seq(Seq(S)) /\ Len(ss) = 0
    BY <1>1, SeqDef
  <2>2. ss = <<>>
    BY <2>1, EmptySeq
  <2>3. FlattenSeq(ss) = <<>>
    BY <2>1, <2>2 DEF FlattenSeq
  <2>4. Range(<<>>) = {}
    BY DEF Range
  <2>. QED  BY <1>1, <2>3, <2>4, EmptySeq
<1>2. CASE n # 0
  <2>1. PICK f : Flattens(f, n, ss) /\ FlattenSeq(ss) = f[n]
    BY <1>2, FlattenSeqIs
  <2>2. f[1] = ss[1] /\ \A i \in 1 .. n : i < n => f[i + 1] = f[i] \o ss[i + 1]
    <3>1. n \in Nat \ {0}
      BY <1>2
    <3>. QED  BY <3>1, <2>1, FlattensAt, ZenonT(60)
  <2> DEFINE Upto(i) == UNION {Range(ss[k]) : k \in 1 .. i}
             T == {i \in 1 .. n : f[i] \in Seq(S) /\ Range(f[i]) = Upto(i)}
  <2>3. 1 \in T
    <3>1. 1 .. 1 = {1} /\ 1 \in 1 .. n
      BY <1>2
    <3>2. Upto(1) = Range(ss[1])
      BY <3>1
    <3>. QED  BY <3>1, <3>2, <2>2
  <2>4. ASSUME NEW i \in 1 .. n, i < n, i \in T  PROVE  i + 1 \in T
    <3>1. i + 1 \in 1 .. n /\ 1 .. i + 1 = (1 .. i) \cup {i + 1}
      BY <2>4
    <3>2. Upto(i + 1) = Upto(i) \cup Range(ss[i + 1])
      BY <3>1
    <3>3. f[i] \in Seq(S) /\ Range(f[i]) = Upto(i) /\ ss[i + 1] \in Seq(S)
      BY <2>4, <3>1
    <3>4. f[i + 1] \in Seq(S) /\ Range(f[i + 1]) = Range(f[i]) \cup Range(ss[i + 1])
      <4>1. f[i + 1] = f[i] \o ss[i + 1]
        BY <2>2, <2>4
      <4>. QED  BY <4>1, <3>3, ConcatProperties, RangeConcatenation
    <3>. QED  BY <3>1, <3>2, <3>3, <3>4
  <2>5. 1 .. n \subseteq T
    <3>. HIDE DEF T
    <3>. QED  BY <2>3, <2>4, IntervalInduction
  <2>6. n \in 1 .. n
    BY <1>2
  <2>7. n \in T
    <3>. HIDE DEF T
    <3>. QED  BY <2>5, <2>6
  <2>. QED  BY <2>1, <2>7
<1>. QED  BY <1>1, <1>2

LEMMA FlattenEmpty ==
    ASSUME NEW n \in Nat
    PROVE  FlattenSeq([i \in 1 .. n |-> <<>>]) = <<>>
<1> DEFINE ss == [i \in 1 .. n |-> <<>>]
<1>1. ss \in [1 .. n -> Seq({})]
  BY EmptySeq
<1>2. FlattenSeq(ss) \in Seq({})
  <2>. HIDE DEF ss
  <2>. QED  BY <1>1, FlattenHolds
<1>3. \A s \in Seq({}) : s = <<>>
  <2> TAKE s \in Seq({})
  <2>1. s # <<>> => Len(s) \in Nat \ {0}
    BY EmptySeq
  <2>2. s # <<>> => s[1] \in {}
    BY <2>1, ElementOfSeq
  <2>. QED  BY <2>2
<1>. QED  BY <1>2, <1>3

PutInFront(ss, k, b) == [ss EXCEPT ![k] = <<b>> \o @]

\* A block put at the front of one of the lists makes the whole longer by one.
LEMMA FlattenLonger ==
    ASSUME NEW S, NEW n \in Nat, NEW ss \in [1 .. n -> Seq(S)], NEW k \in 1 .. n, NEW b \in S
    PROVE  /\ PutInFront(ss, k, b) \in [1 .. n -> Seq(S)]
           /\ Len(FlattenSeq(PutInFront(ss, k, b))) = Len(FlattenSeq(ss)) + 1
           /\ Range(FlattenSeq(PutInFront(ss, k, b))) = Range(FlattenSeq(ss)) \cup {b}
<1> DEFINE tt == PutInFront(ss, k, b)
<1>1. /\ tt[k] = <<b>> \o ss[k]
      /\ \A i \in 1 .. n : i # k => tt[i] = ss[i]
  BY DEF PutInFront
<1>2. /\ <<b>> \o ss[k] \in Seq(S)
      /\ Len(<<b>> \o ss[k]) = Len(ss[k]) + 1
      /\ Range(<<b>> \o ss[k]) = Range(ss[k]) \cup {b}
  <2>1. <<b>> \in Seq(S) /\ Len(<<b>>) = 1
    OBVIOUS
  <2>2. Range(<<b>>) = {b}
    BY DEF Range
  <2>3. ss[k] \in Seq(S)
    OBVIOUS
  <2>4. <<b>> \o ss[k] \in Seq(S) /\ Len(<<b>> \o ss[k]) = 1 + Len(ss[k])
    BY <2>1, <2>3, ConcatProperties
  <2>5. Range(<<b>> \o ss[k]) = {b} \cup Range(ss[k])
    <3> DEFINE c == <<b>>
               d == ss[k]
    <3>1. c \in Seq(S) /\ d \in Seq(S) /\ Range(c) = {b}
      BY <2>1, <2>2, <2>3
    <3>. HIDE DEF c, d
    <3>2. Range(c \o d) = {b} \cup Range(d)
      BY <3>1, RangeConcatenation
    <3>. QED  BY <3>2 DEF c, d
  <2>. QED  BY <2>3, <2>4, <2>5, LenProperties
<1>3. tt \in [1 .. n -> Seq(S)]
  BY <1>2 DEF PutInFront
<1>. HIDE DEF tt
<1>n. n \in Nat \ {0}
  OBVIOUS
<1>4. Range(FlattenSeq(tt)) = Range(FlattenSeq(ss)) \cup {b}
  <2>1. \A i \in 1 .. n : Range(tt[i]) = Range(ss[i]) \cup (IF i = k THEN {b} ELSE {})
    BY <1>1, <1>2
  <2>2. UNION {Range(tt[i]) : i \in 1 .. n} = (UNION {Range(ss[i]) : i \in 1 .. n}) \cup {b}
    <3> DEFINE R(i) == Range(ss[i])
               Q(i) == Range(tt[i])
    <3>1. \A i \in 1 .. n : Q(i) = R(i) \cup (IF i = k THEN {b} ELSE {})
      BY <2>1
    <3>. HIDE DEF R, Q
    <3>2. UNION {Q(i) : i \in 1 .. n} = (UNION {R(i) : i \in 1 .. n}) \cup {b}
      BY <3>1
    <3>. QED  BY <3>2 DEF R, Q
  <2>3. /\ Range(FlattenSeq(ss)) = UNION {Range(ss[i]) : i \in 1 .. n}
        /\ Range(FlattenSeq(tt)) = UNION {Range(tt[i]) : i \in 1 .. n}
    BY <1>3, FlattenHolds
  <2>. QED  BY <2>2, <2>3
<1>5. PICK f : Flattens(f, n, ss) /\ FlattenSeq(ss) = f[n]
  BY <1>n, FlattenSeqIs
<1>6. PICK g : Flattens(g, n, tt) /\ FlattenSeq(tt) = g[n]
  BY <1>n, <1>3, FlattenSeqIs
<1>7. f[1] = ss[1] /\ \A i \in 1 .. n : i < n => f[i + 1] = f[i] \o ss[i + 1]
  BY <1>n, <1>5, FlattensAt, ZenonT(60)
<1>8. g[1] = tt[1] /\ \A i \in 1 .. n : i < n => g[i + 1] = g[i] \o tt[i + 1]
  BY <1>n, <1>6, FlattensAt, ZenonT(60)
<1> DEFINE T == {i \in 1 .. n : /\ f[i] \in Seq(S) /\ g[i] \in Seq(S)
                                /\ Len(g[i]) = Len(f[i]) + (IF k <= i THEN 1 ELSE 0)}
<1>9. 1 \in T
  <2>1. 1 \in 1 .. n /\ ss[1] \in Seq(S) /\ tt[1] \in Seq(S)
    BY <1>3
  <2>2. Len(tt[1]) = Len(ss[1]) + (IF k <= 1 THEN 1 ELSE 0)
    BY <1>1, <1>2, <2>1, LenProperties
  <2>. QED  BY <1>7, <1>8, <2>1, <2>2
<1>10. ASSUME NEW i \in 1 .. n, i < n, i \in T  PROVE  i + 1 \in T
  <2>1. i + 1 \in 1 .. n /\ ss[i + 1] \in Seq(S) /\ tt[i + 1] \in Seq(S)
    BY <1>10, <1>3
  <2>2. /\ f[i] \in Seq(S) /\ g[i] \in Seq(S)
        /\ Len(g[i]) = Len(f[i]) + (IF k <= i THEN 1 ELSE 0)
        /\ f[i + 1] = f[i] \o ss[i + 1] /\ g[i + 1] = g[i] \o tt[i + 1]
    BY <1>7, <1>8, <1>10
  <2>3. /\ f[i + 1] \in Seq(S) /\ Len(f[i + 1]) = Len(f[i]) + Len(ss[i + 1])
        /\ g[i + 1] \in Seq(S) /\ Len(g[i + 1]) = Len(g[i]) + Len(tt[i + 1])
    <3>1. f[i] \in Seq(S) /\ g[i] \in Seq(S)
      BY <2>2
    <3>2. f[i] \o ss[i + 1] \in Seq(S) /\ Len(f[i] \o ss[i + 1]) = Len(f[i]) + Len(ss[i + 1])
      BY <2>1, <3>1, ConcatProperties
    <3>3. g[i] \o tt[i + 1] \in Seq(S) /\ Len(g[i] \o tt[i + 1]) = Len(g[i]) + Len(tt[i + 1])
      BY <2>1, <3>1, ConcatProperties
    <3>. QED  BY <2>2, <3>2, <3>3
  <2>4. Len(tt[i + 1]) = Len(ss[i + 1]) + (IF k = i + 1 THEN 1 ELSE 0)
    <3>1. CASE k = i + 1
      BY <1>1, <1>2, <3>1
    <3>2. CASE k # i + 1
      BY <1>1, <2>1, <3>2, LenProperties
    <3>. QED  BY <3>1, <3>2
  <2>5. Len(f[i]) \in Nat /\ Len(ss[i + 1]) \in Nat
    BY <2>1, <2>2, LenProperties
  <2>6. Len(g[i + 1]) = Len(f[i + 1]) + (IF k <= i + 1 THEN 1 ELSE 0)
    <3>1. k \in Int /\ i \in Int
      OBVIOUS
    <3>2. Len(g[i]) = Len(f[i]) + (IF k <= i THEN 1 ELSE 0)
      BY <2>2
    <3>3. Len(f[i + 1]) = Len(f[i]) + Len(ss[i + 1]) /\ Len(g[i + 1]) = Len(g[i]) + Len(tt[i + 1])
      BY <2>3
    <3> DEFINE x == Len(f[i])
               y == Len(ss[i + 1])
    <3>4. x \in Nat /\ y \in Nat
      BY <2>5
    <3>5. Len(f[i + 1]) = x + y
      BY <3>3
    <3>6. Len(g[i + 1]) = (x + (IF k <= i THEN 1 ELSE 0)) + (y + (IF k = i + 1 THEN 1 ELSE 0))
      BY <2>4, <3>2, <3>3
    <3>. HIDE DEF x, y, T
    <3>7. (x + (IF k <= i THEN 1 ELSE 0)) + (y + (IF k = i + 1 THEN 1 ELSE 0))
          = (x + y) + (IF k <= i + 1 THEN 1 ELSE 0)
      BY <3>1, <3>4
    <3>. QED  BY <3>5, <3>6, <3>7
  <2>. QED  BY <2>1, <2>3, <2>6
<1>11. 1 .. n \subseteq T
  <2>. HIDE DEF T
  <2>. QED  BY <1>9, <1>10, IntervalInduction
<1>12. n \in 1 .. n /\ k <= n
  OBVIOUS
<1>13. Len(g[n]) = Len(f[n]) + 1
  BY <1>11, <1>12
<1>. QED  BY <1>3, <1>4, <1>5, <1>6, <1>13 DEF tt

------------------------------------------------------------------------------
\* The inductive invariant

Flat == FlattenSeq(threadBlocks)

\* The blocks that threads take pieces from
InUse == Range(usedBlocks) \cup Range(Flat)

Once(s) == Len(s) = Cardinality(Range(s))

Labels == {"idle", "malloc", "add", "grow", "lockSlot", "createInSlot", "lock", "take", "create", "threw"}

Piece == [block : Blocks, from : Nat, to : Nat]
Local == [block : Blocks \cup {Null}, ptr : Nat, cur : Nat, end : Nat]

\* The kinds of the variables that TypeOK says nothing of
MoreTypes ==
    /\ cur \in [Blocks -> Nat] /\ allocEnd \in [Blocks -> Nat] /\ reserveEnd \in [Blocks -> Nat]
    /\ pc \in [Threads -> Labels] /\ size \in [Threads -> Nat]
    /\ myUsedBlocks \in [Threads -> Blocks \cup {Null}]
    /\ slotMutex \in [Slots -> Threads \cup {Null}]
    /\ local \in [Threads -> Local] /\ handedOut \subseteq Piece

\* BlocksListed, list by list: each block that is not dropped is in one list, once.
ListsApart ==
    /\ IsFiniteSet(alive) /\ dropped \subseteq alive
    /\ InUse \cup Range(freeBlocks) = alive \ dropped
    /\ InUse \cap Range(freeBlocks) = {} /\ Range(usedBlocks) \cap Range(Flat) = {}
    /\ Once(usedBlocks) /\ Once(freeBlocks) /\ Once(Flat)

\* What a slot or a thread holds on to is in use, and a thread that takes a free block finds one.
HeldInUse ==
    /\ \A s \in Slots : threadUsedBlocks[s] \in InUse \cup {Null}
    /\ \A t \in Threads : /\ pc[t] = "add" => myUsedBlocks[t] \in InUse
                          /\ pc[t] = "take" => freeBlocks # <<>>

Apart(p, q) == p.to <= q.from \/ q.to <= p.from

\* A piece is part of what has been taken of its block, and of what the block has.
PiecesTaken ==
    /\ \A p \in handedOut : /\ p.block \in InUse /\ p.from <= p.to
                            /\ p.to <= cur[p.block] /\ p.to <= reserveEnd[p.block]
    /\ \A p, q \in handedOut : p # q /\ p.block = q.block => Apart(p, q)

\* So is the block of a thread; and what the thread has not handed out of it belongs to no other.
LocalsTaken ==
    /\ \A t \in Threads :
          LET l == local[t] IN
          \/ l.block = Null /\ l.end = 0
          \/ /\ l.block \in InUse /\ l.cur <= l.end
             /\ l.ptr + l.end <= cur[l.block] /\ l.ptr + l.end <= reserveEnd[l.block]
    /\ \A t, u \in Threads : t # u /\ local[t].block = local[u].block /\ local[t].block # Null =>
          \/ local[t].ptr + local[t].end <= local[u].ptr
          \/ local[u].ptr + local[u].end <= local[t].ptr
    /\ \A t \in Threads : \A p \in handedOut : p.block = local[t].block =>
          p.to <= local[t].ptr + local[t].cur \/ local[t].ptr + local[t].end <= p.from

------------------------------------------------------------------------------
\* Sequences that hold each element once

LEMMA RangeFinite ==
    ASSUME NEW S, NEW s \in Seq(S)
    PROVE  /\ IsFiniteSet(Range(s)) /\ Range(s) \subseteq S
           /\ Len(s) \in Nat /\ Cardinality(Range(s)) \in Nat
           /\ Cardinality(Range(s)) <= Len(s)
           /\ s = <<>> <=> Range(s) = {}
<1>1. s \in [1 .. Len(s) -> S] /\ Len(s) \in Nat
  BY LenProperties
<1>2. s \in Surjection(1 .. Len(s), Range(s))
  BY <1>1, Fun_RangeProperties
<1>3. IsFiniteSet(1 .. Len(s)) /\ Cardinality(1 .. Len(s)) = Len(s)
  <2> DEFINE n == Len(s)
  <2>1. n \in Nat
    BY <1>1
  <2>. HIDE DEF n
  <2>2. IsFiniteSet(1 .. n) /\ Cardinality(1 .. n) = IF 1 > n THEN 0 ELSE n - 1 + 1
    BY <2>1, FS_Interval
  <2>3. Cardinality(1 .. n) = n
    BY <2>1, <2>2
  <2>. QED  BY <2>2, <2>3 DEF n
<1>4. IsFiniteSet(Range(s)) /\ Cardinality(Range(s)) <= Len(s)
  BY <1>2, <1>3, FS_Surjection
<1>5. Cardinality(Range(s)) \in Nat
  BY <1>4, FS_CardinalityType
<1>6. s = <<>> <=> Range(s) = {}
  <2>1. Range(s) = {s[i] : i \in 1 .. Len(s)}
    BY RangeEquality
  <2>2. CASE s = <<>>
    BY <2>1, <2>2, EmptySeq
  <2>3. CASE s # <<>>
    <3>1. 1 \in 1 .. Len(s)
      BY <2>3, EmptySeq
    <3>. QED  BY <2>1, <2>3, <3>1
  <2>. QED  BY <2>2, <2>3
<1>. QED  BY <1>1, <1>4, <1>5, <1>6, RangeOfSeq

LEMMA EmptyOnce == Once(<<>>) /\ Range(<<>>) = {}
<1>1. <<>> \in Seq({}) /\ Len(<<>>) = 0
  BY EmptySeq
<1>2. Range(<<>>) = {}
  BY <1>1, RangeFinite
<1>. QED  BY <1>1, <1>2, FS_EmptySet DEF Once

LEMMA SingleOnce ==
    ASSUME NEW b
    PROVE  /\ <<b>> \in Seq({b}) /\ Once(<<b>>) /\ Range(<<b>>) = {b}
<1>1. <<b>> \in Seq({b}) /\ Len(<<b>>) = 1
  OBVIOUS
<1>2. Range(<<b>>) = {b}
  BY DEF Range
<1>. QED  BY <1>1, <1>2, FS_Singleton DEF Once

\* Two lists in one: each element is in the whole once when it is in one of the two, once.
LEMMA ConcatOnce ==
    ASSUME NEW S, NEW s \in Seq(S), NEW r \in Seq(S)
    PROVE  /\ s \o r \in Seq(S) /\ Range(s \o r) = Range(s) \cup Range(r)
           /\ Once(s \o r) <=> Once(s) /\ Once(r) /\ Range(s) \cap Range(r) = {}
<1>1. s \o r \in Seq(S) /\ Len(s \o r) = Len(s) + Len(r)
  BY ConcatProperties
<1>2. Range(s \o r) = Range(s) \cup Range(r)
  BY RangeConcatenation
<1> DEFINE A == Range(s)
           B == Range(r)
<1>3. /\ IsFiniteSet(A) /\ Cardinality(A) \in Nat /\ Len(s) \in Nat /\ Cardinality(A) <= Len(s)
      /\ IsFiniteSet(B) /\ Cardinality(B) \in Nat /\ Len(r) \in Nat /\ Cardinality(B) <= Len(r)
  BY RangeFinite
<1>. HIDE DEF A, B
<1>4. Cardinality(A \cup B) = Cardinality(A) + Cardinality(B) - Cardinality(A \cap B)
  BY <1>3, FS_Union
<1>5. IsFiniteSet(A \cap B)
  BY <1>3, FS_Intersection
<1>6. Cardinality(A \cap B) \in Nat /\ (Cardinality(A \cap B) = 0 <=> A \cap B = {})
  BY <1>5, FS_CardinalityType, FS_EmptySet
<1>7. (Len(s) + Len(r) = Cardinality(A \cup B))
      <=> (Len(s) = Cardinality(A) /\ Len(r) = Cardinality(B) /\ Cardinality(A \cap B) = 0)
  BY <1>3, <1>4, <1>6
<1>. QED  BY <1>1, <1>2, <1>6, <1>7 DEF Once, A, B

LEMMA ReverseOnce ==
    ASSUME NEW S, NEW s \in Seq(S)
    PROVE  /\ Reverse(s) \in Seq(S) /\ Range(Reverse(s)) = Range(s)
           /\ Once(Reverse(s)) <=> Once(s)
<1>1. Len(s) \in Nat /\ \A i \in 1 .. Len(s) : s[i] \in S /\ s[(Len(s) - i) + 1] \in S
  <2>1. Len(s) \in Nat
    BY LenProperties
  <2>2. \A i \in 1 .. Len(s) : (Len(s) - i) + 1 \in 1 .. Len(s)
    BY <2>1
  <2>. QED  BY <2>1, <2>2, ElementOfSeq
<1>2. Reverse(s) \in [1 .. Len(s) -> S]
  BY <1>1 DEF Reverse
<1>3. Reverse(s) \in Seq(S) /\ Len(Reverse(s)) = Len(s)
  BY <1>1, <1>2, SeqDef
<1>4. Range(Reverse(s)) = Range(s)
  <2>1. Range(s) = {s[i] : i \in 1 .. Len(s)}
    BY RangeEquality
  <2>2. Range(Reverse(s)) = {Reverse(s)[i] : i \in 1 .. Len(s)}
    BY <1>3, RangeEquality
  <2>3. \A i \in 1 .. Len(s) : Reverse(s)[i] = s[(Len(s) - i) + 1]
    BY DEF Reverse
  <2>4. \A i \in 1 .. Len(s) : /\ (Len(s) - i) + 1 \in 1 .. Len(s)
                               /\ Reverse(s)[(Len(s) - i) + 1] = s[i]
    <3> TAKE i \in 1 .. Len(s)
    <3>1. (Len(s) - i) + 1 \in 1 .. Len(s) /\ (Len(s) - ((Len(s) - i) + 1)) + 1 = i
      BY <1>1
    <3>. QED  BY <2>3, <3>1
  <2>. QED  BY <2>1, <2>2, <2>3, <2>4
<1>. QED  BY <1>3, <1>4 DEF Once

\* The first of a list taken from it
LEMMA TailOnce ==
    ASSUME NEW S, NEW s \in Seq(S), s # <<>>
    PROVE  /\ Head(s) \in Range(s) /\ Tail(s) \in Seq(S)
           /\ Range(s) = {Head(s)} \cup Range(Tail(s))
           /\ Once(s) => Once(Tail(s)) /\ Head(s) \notin Range(Tail(s))
<1>1. Head(s) \in S /\ Tail(s) \in Seq(S)
  BY HeadTailProperties
<1>2. s = <<Head(s)>> \o Tail(s)
  BY HeadTailProperties
<1>3. <<Head(s)>> \in Seq(S) /\ Range(<<Head(s)>>) = {Head(s)}
  BY <1>1, SingleOnce
<1> DEFINE h == <<Head(s)>>
           r == Tail(s)
<1>4. h \in Seq(S) /\ r \in Seq(S) /\ s = h \o r /\ Range(h) = {Head(s)}
  BY <1>1, <1>2, <1>3
<1>. HIDE DEF h, r
<1>5. Range(s) = Range(h) \cup Range(r) /\ (Once(s) => Once(r) /\ Range(h) \cap Range(r) = {})
  BY <1>4, ConcatOnce
<1>. QED  BY <1>1, <1>4, <1>5 DEF r

LEMMA MaxMinOfTwo ==
    ASSUME NEW a \in Nat, NEW b \in Nat
    PROVE  /\ Max({a, b}) = IF a >= b THEN a ELSE b
           /\ Min({a, b}) = IF a <= b THEN a ELSE b
<1>1. \A y \in {a, b} : (IF a >= b THEN a ELSE b) >= y
  OBVIOUS
<1>2. \A y \in {a, b} : (IF a <= b THEN a ELSE b) <= y
  OBVIOUS
<1>3. Max({a, b}) \in {a, b} /\ \A y \in {a, b} : Max({a, b}) >= y
  BY <1>1 DEF Max
<1>4. Min({a, b}) \in {a, b} /\ \A y \in {a, b} : Min({a, b}) <= y
  BY <1>2 DEF Min
<1>. QED  BY <1>3, <1>4

------------------------------------------------------------------------------
\* Parts of a step

\* The kinds of the lists, apart from the owners of the locks
ListTypes ==
    /\ alive \subseteq Blocks /\ usedBlocks \in Seq(alive) /\ freeBlocks \in Seq(alive)
    /\ threadBlocks \in [Slots -> Seq(alive)] /\ threadUsedBlocks \in [Slots -> Blocks \union {Null}]
    /\ growSize \in allocBlockSize .. Max({maxAllocationSize, bytesReserve})

Owners ==
    \A t \in Threads : /\ pc[t] \in {"take", "create"} <=> mutex = t
                       /\ pc[t] = "createInSlot" <=> slotMutex[slotOf[t]] = t

LEMMA TypeParts == TypeOK <=> ListTypes /\ Owners
BY DEF TypeOK, ListTypes, Owners

AllocatorIndInv ==
    ListTypes /\ Owners /\ MoreTypes /\ ListsApart /\ HeldInUse /\ PiecesTaken /\ LocalsTaken

LEMMA FlatType ==
    ASSUME ListTypes
    PROVE  Flat \in Seq(alive) /\ Range(Flat) \subseteq alive
<1>1. Flat \in Seq(alive)
  BY AllocatorAssumption, FlattenHolds DEF ListTypes, Flat, Slots
<1>. QED  BY <1>1, RangeOfSeq

LEMMA InUseAlive ==
    ASSUME ListTypes
    PROVE  InUse \subseteq alive /\ Range(usedBlocks) \subseteq alive /\ Range(freeBlocks) \subseteq alive
BY FlatType, RangeOfSeq DEF ListTypes, InUse

\* BlocksListed and ListsApart are the same.
LEMMA ListedFromApart ==
    ASSUME ListTypes, ListsApart
    PROVE  BlocksListed
<1> DEFINE u == usedBlocks
           f == freeBlocks
           a == Flat
<1>1. u \in Seq(alive) /\ f \in Seq(alive) /\ a \in Seq(alive)
  BY FlatType DEF ListTypes
<1>2. /\ Range(u) \cup Range(f) \cup Range(a) = alive \ dropped
      /\ Range(u) \cap Range(f) = {} /\ Range(u) \cap Range(a) = {} /\ Range(f) \cap Range(a) = {}
      /\ Once(u) /\ Once(f) /\ Once(a)
  BY DEF ListsApart, InUse
<1>. HIDE DEF u, f, a
<1>3. /\ u \o f \in Seq(alive) /\ Range(u \o f) = Range(u) \cup Range(f) /\ Once(u \o f)
  BY <1>1, <1>2, ConcatOnce
<1>4. /\ Range(u \o f \o a) = Range(u \o f) \cup Range(a) /\ Once(u \o f \o a)
  <2>1. Range(u \o f) \cap Range(a) = {}
    BY <1>2, <1>3
  <2>. QED  BY <1>1, <1>2, <1>3, <2>1, ConcatOnce
<1>5. Range(u \o f \o a) = alive \ dropped
  BY <1>2, <1>3, <1>4
<1>. QED  BY <1>4, <1>5 DEF BlocksListed, Once, u, f, a, Flat

\* The lists stay as they are.
LEMMA ListsKept ==
    ASSUME ListTypes, ListsApart, UNCHANGED listVars, UNCHANGED dropped
    PROVE  /\ ListTypes' /\ ListsApart' /\ InUse' = InUse
<1>1. UNCHANGED <<usedBlocks, freeBlocks, threadBlocks, threadUsedBlocks, growSize, alive, dropped>>
  BY DEF listVars
<1>2. ListTypes'
  BY <1>1 DEF ListTypes
<1>3. Flat' = Flat
  BY <1>1 DEF Flat
<1>4. InUse' = InUse
  BY <1>1, <1>3 DEF InUse
<1>. QED  BY <1>1, <1>2, <1>3, <1>4 DEF ListsApart

\* A thread goes on between two labels at which it owns no lock.
LEMMA OwnersKept ==
    ASSUME Owners, MoreTypes, NEW t \in Threads, NEW l \in Labels, Goto(t, l),
           pc[t] \notin {"take", "create", "createInSlot"}, l \notin {"take", "create", "createInSlot"},
           UNCHANGED <<mutex, slotMutex>>
    PROVE  Owners'
BY DEF Owners, MoreTypes, Goto

LEMMA PcType ==
    ASSUME MoreTypes, NEW t \in Threads, NEW l \in Labels, Goto(t, l)
    PROVE  pc' \in [Threads -> Labels] /\ pc'[t] = l /\ \A u \in Threads : u # t => pc'[u] = pc[u]
BY DEF MoreTypes, Goto

\* Pieces and threads' blocks are left alone, and their blocks too.
LEMMA TakenKept ==
    ASSUME PiecesTaken, LocalsTaken, MoreTypes, UNCHANGED <<handedOut, local>>,
           InUse \subseteq InUse', InUse \subseteq Blocks,
           \A b \in InUse : cur'[b] \in Nat /\ cur'[b] >= cur[b] /\ reserveEnd'[b] = reserveEnd[b]
    PROVE  PiecesTaken' /\ LocalsTaken'
<1>1. PiecesTaken'
  <2>1. ASSUME NEW p \in handedOut
        PROVE  /\ p.block \in InUse' /\ p.from <= p.to
               /\ p.to <= cur'[p.block] /\ p.to <= reserveEnd'[p.block]
    <3>1. p.block \in InUse /\ p.from <= p.to /\ p.to <= cur[p.block] /\ p.to <= reserveEnd[p.block]
      BY DEF PiecesTaken
    <3>2. p.to \in Nat /\ cur[p.block] \in Nat
      BY <3>1 DEF MoreTypes, Piece
    <3>. QED  BY <3>1, <3>2
  <2>. QED  BY <2>1 DEF PiecesTaken, Apart
<1>2. LocalsTaken'
  <2>1. ASSUME NEW t \in Threads
        PROVE  \/ local[t].block = Null /\ local[t].end = 0
               \/ /\ local[t].block \in InUse' /\ local[t].cur <= local[t].end
                  /\ local[t].ptr + local[t].end <= cur'[local[t].block]
                  /\ local[t].ptr + local[t].end <= reserveEnd'[local[t].block]
    <3>1. CASE local[t].block = Null /\ local[t].end = 0
      BY <3>1
    <3>2. CASE /\ local[t].block \in InUse /\ local[t].cur <= local[t].end
               /\ local[t].ptr + local[t].end <= cur[local[t].block]
               /\ local[t].ptr + local[t].end <= reserveEnd[local[t].block]
      <4>1. local[t].ptr + local[t].end \in Nat /\ cur[local[t].block] \in Nat
        BY <3>2 DEF MoreTypes, Local
      <4>. QED  BY <3>2, <4>1
    <3>. QED  BY <3>1, <3>2 DEF LocalsTaken
  <2>. QED  BY <2>1 DEF LocalsTaken
<1>. QED  BY <1>1, <1>2

\* A new block: what is in use stays as it is.
LEMMA Created ==
    ASSUME MoreTypes, ListTypes, ListsApart, NEW b, NEW a \in Nat, NEW r \in Nat, Create(b, a, r)
    PROVE  /\ b \in Blocks /\ b \notin alive /\ alive' = alive \cup {b} /\ alive' \subseteq Blocks
           /\ cur' \in [Blocks -> Nat] /\ allocEnd' \in [Blocks -> Nat] /\ reserveEnd' \in [Blocks -> Nat]
           /\ \A c \in InUse : cur'[c] \in Nat /\ cur'[c] >= cur[c] /\ reserveEnd'[c] = reserveEnd[c]
           /\ InUse \subseteq Blocks
           /\ IsFiniteSet(alive') /\ dropped \subseteq alive'
<1>1. b \in Blocks /\ b \notin alive /\ alive' = alive \cup {b} /\ alive' \subseteq Blocks
  BY DEF Create, ListTypes
<1>2. cur' \in [Blocks -> Nat] /\ allocEnd' \in [Blocks -> Nat] /\ reserveEnd' \in [Blocks -> Nat]
  BY DEF Create, MoreTypes
<1>3. InUse \subseteq alive /\ InUse \subseteq Blocks
  BY InUseAlive DEF ListTypes
<1>4. \A c \in InUse : cur'[c] \in Nat /\ cur'[c] >= cur[c] /\ reserveEnd'[c] = reserveEnd[c]
  <2> TAKE c \in InUse
  <2>1. c \in Blocks /\ c # b
    BY <1>1, <1>3
  <2>2. cur'[c] = cur[c] /\ reserveEnd'[c] = reserveEnd[c] /\ cur[c] \in Nat
    BY <2>1 DEF Create, MoreTypes
  <2>. QED  BY <2>2
<1>5. IsFiniteSet(alive') /\ dropped \subseteq alive'
  BY <1>1, FS_AddElement DEF ListsApart
<1>. QED  BY <1>1, <1>2, <1>3, <1>4, <1>5

LEMMA QuietStep ==
    ASSUME AllocatorIndInv, UNCHANGED <<blockVars, listVars, dropped, local, handedOut>>
    PROVE  /\ ListTypes' /\ ListsApart' /\ InUse' = InUse /\ PiecesTaken' /\ LocalsTaken'
           /\ cur' \in [Blocks -> Nat] /\ allocEnd' \in [Blocks -> Nat] /\ reserveEnd' \in [Blocks -> Nat]
           /\ local' \in [Threads -> Local] /\ handedOut' \subseteq Piece
<1>1. /\ ListTypes /\ ListsApart /\ MoreTypes /\ PiecesTaken /\ LocalsTaken
      /\ UNCHANGED <<cur, allocEnd, reserveEnd, listVars, dropped, local, handedOut>>
  BY DEF AllocatorIndInv, blockVars
<1>2. ListTypes' /\ ListsApart' /\ InUse' = InUse
  BY <1>1, ListsKept
<1>3. InUse \subseteq Blocks
  BY <1>1, InUseAlive DEF ListTypes
<1>4. \A b \in InUse : cur'[b] \in Nat /\ cur'[b] >= cur[b] /\ reserveEnd'[b] = reserveEnd[b]
  BY <1>1, <1>3 DEF MoreTypes
<1>5. PiecesTaken' /\ LocalsTaken'
  BY <1>1, <1>2, <1>3, <1>4, TakenKept
<1>. QED  BY <1>1, <1>2, <1>5 DEF MoreTypes

\* A thread's step keeps what the others hold on to.
LEMMA HeldStep ==
    ASSUME HeldInUse, MoreTypes, NEW t \in Threads, NEW l \in Labels, Goto(t, l), InUse \subseteq InUse',
           \A s \in Slots : threadUsedBlocks'[s] \in InUse' \cup {Null},
           \A u \in Threads : u # t => myUsedBlocks'[u] = myUsedBlocks[u],
           l = "add" => myUsedBlocks'[t] \in InUse', l = "take" => freeBlocks' # <<>>,
           freeBlocks' = freeBlocks \/ \A u \in Threads : u # t => pc[u] # "take"
    PROVE  HeldInUse'
<1>1. pc'[t] = l /\ \A u \in Threads : u # t => pc'[u] = pc[u]
  BY PcType
<1>2. ASSUME NEW u \in Threads
      PROVE  (pc'[u] = "add" => myUsedBlocks'[u] \in InUse') /\ (pc'[u] = "take" => freeBlocks' # <<>>)
  <2>1. CASE u = t
    BY <1>1, <2>1
  <2>2. CASE u # t
    BY <1>1, <2>2 DEF HeldInUse
  <2>. QED  BY <2>1, <2>2
<1>. QED  BY <1>2 DEF HeldInUse

LEMMA ForgetTypes ==
    ASSUME MoreTypes, NEW t \in Threads, Forget({t})
    PROVE  /\ size' \in [Threads -> Nat] /\ myUsedBlocks' \in [Threads -> Blocks \cup {Null}]
           /\ \A u \in Threads : u # t => myUsedBlocks'[u] = myUsedBlocks[u]
BY DEF MoreTypes, Forget

LEMMA RetryTypes ==
    ASSUME MoreTypes, NEW t \in Threads, Retry(t)
    PROVE  /\ Goto(t, "malloc")
           /\ size' \in [Threads -> Nat] /\ myUsedBlocks' \in [Threads -> Blocks \cup {Null}]
           /\ \A u \in Threads : u # t => myUsedBlocks'[u] = myUsedBlocks[u]
BY DEF MoreTypes, Retry

------------------------------------------------------------------------------
\* The steps of a thread that leave the lists alone

LEMMA MallocKeeps ==
    ASSUME AllocatorIndInv, NEW t \in Threads, Malloc(t)
    PROVE  AllocatorIndInv'
<1> USE DEF AllocatorIndInv
<1>1. PICK l \in {"add", "grow"} : Goto(t, l) /\ (l = "add" => Current(t) # Null)
  BY DEF Malloc
<1>2. l \in Labels
  BY DEF Labels
<1>3. /\ pc[t] = "malloc" /\ myUsedBlocks' = [myUsedBlocks EXCEPT ![t] = Current(t)]
      /\ UNCHANGED <<blockVars, listVars, mutex, slotMutex, size, local, handedOut, dropped>>
  BY DEF Malloc
<1>4. /\ ListTypes' /\ ListsApart' /\ InUse' = InUse /\ PiecesTaken' /\ LocalsTaken'
      /\ cur' \in [Blocks -> Nat] /\ allocEnd' \in [Blocks -> Nat] /\ reserveEnd' \in [Blocks -> Nat]
      /\ local' \in [Threads -> Local] /\ handedOut' \subseteq Piece
  BY <1>3, QuietStep
<1>5. slotOf[t] \in Slots /\ Current(t) \in InUse \cup {Null} /\ Current(t) \in Blocks \cup {Null}
  BY AllocatorAssumption DEF Current, HeldInUse, ListTypes
<1>6. /\ myUsedBlocks' \in [Threads -> Blocks \cup {Null}] /\ myUsedBlocks'[t] = Current(t)
      /\ \A u \in Threads : u # t => myUsedBlocks'[u] = myUsedBlocks[u]
  BY <1>3, <1>5 DEF MoreTypes
<1>7. Owners'
  BY <1>1, <1>2, <1>3, OwnersKept
<1>8. pc' \in [Threads -> Labels]
  BY <1>1, <1>2, PcType
<1>9. HeldInUse'
  <2>1. \A s \in Slots : threadUsedBlocks'[s] \in InUse' \cup {Null}
    BY <1>3, <1>4 DEF HeldInUse, listVars
  <2>2. freeBlocks' = freeBlocks
    BY <1>3 DEF listVars
  <2>. QED  BY <1>1, <1>2, <1>4, <1>5, <1>6, <2>1, <2>2, HeldStep
<1>10. MoreTypes'
  BY <1>3, <1>4, <1>6, <1>8 DEF MoreTypes
<1>. QED  BY <1>4, <1>7, <1>9, <1>10

LEMMA GrowKeeps ==
    ASSUME AllocatorIndInv, NEW t \in Threads, Grow(t)
    PROVE  AllocatorIndInv'
<1> USE DEF AllocatorIndInv
<1>1. PICK l \in {"threw", "lockSlot", "lock"} : Goto(t, l)
  BY DEF Grow, Throw
<1>2. l \in Labels
  BY DEF Labels
<1>3. /\ pc[t] = "grow" /\ (Forget({t}) \/ UNCHANGED <<size, myUsedBlocks>>)
      /\ UNCHANGED <<blockVars, listVars, mutex, slotMutex, local, handedOut, dropped>>
  BY DEF Grow, Throw
<1>4. /\ ListTypes' /\ ListsApart' /\ InUse' = InUse /\ PiecesTaken' /\ LocalsTaken'
      /\ cur' \in [Blocks -> Nat] /\ allocEnd' \in [Blocks -> Nat] /\ reserveEnd' \in [Blocks -> Nat]
      /\ local' \in [Threads -> Local] /\ handedOut' \subseteq Piece
  BY <1>3, QuietStep
<1>6. /\ myUsedBlocks' \in [Threads -> Blocks \cup {Null}] /\ size' \in [Threads -> Nat]
      /\ \A u \in Threads : u # t => myUsedBlocks'[u] = myUsedBlocks[u]
  BY <1>3, ForgetTypes DEF MoreTypes
<1>7. Owners'
  BY <1>1, <1>2, <1>3, OwnersKept
<1>8. pc' \in [Threads -> Labels]
  BY <1>1, <1>2, PcType
<1>9. HeldInUse'
  <2>1. \A s \in Slots : threadUsedBlocks'[s] \in InUse' \cup {Null}
    BY <1>3, <1>4 DEF HeldInUse, listVars
  <2>2. freeBlocks' = freeBlocks
    BY <1>3 DEF listVars
  <2>. QED  BY <1>1, <1>2, <1>4, <1>6, <2>1, <2>2, HeldStep
<1>10. MoreTypes'
  BY <1>3, <1>4, <1>6, <1>8 DEF MoreTypes
<1>. QED  BY <1>4, <1>7, <1>9, <1>10

LEMMA LockSlotKeeps ==
    ASSUME AllocatorIndInv, NEW t \in Threads, LockSlot(t)
    PROVE  AllocatorIndInv'
<1> USE DEF AllocatorIndInv
<1>1. PICK l \in {"createInSlot", "malloc"} : Goto(t, l)
  BY DEF LockSlot, Retry
<1>2. l \in Labels
  BY DEF Labels
<1>3. /\ pc[t] = "lockSlot" /\ slotMutex[slotOf[t]] = Null
      /\ \/ /\ Goto(t, "createInSlot") /\ slotMutex' = [slotMutex EXCEPT ![slotOf[t]] = t]
            /\ UNCHANGED <<size, myUsedBlocks>>
         \/ Retry(t) /\ UNCHANGED slotMutex
      /\ UNCHANGED <<blockVars, listVars, mutex, local, handedOut, dropped>>
  BY DEF LockSlot
<1>4. /\ ListTypes' /\ ListsApart' /\ InUse' = InUse /\ PiecesTaken' /\ LocalsTaken'
      /\ cur' \in [Blocks -> Nat] /\ allocEnd' \in [Blocks -> Nat] /\ reserveEnd' \in [Blocks -> Nat]
      /\ local' \in [Threads -> Local] /\ handedOut' \subseteq Piece
  BY <1>3, QuietStep
<1>6. /\ myUsedBlocks' \in [Threads -> Blocks \cup {Null}] /\ size' \in [Threads -> Nat]
      /\ \A u \in Threads : u # t => myUsedBlocks'[u] = myUsedBlocks[u]
  BY <1>3, RetryTypes DEF MoreTypes
<1>7. Owners' /\ slotMutex' \in [Slots -> Threads \cup {Null}]
  <2>1. slotOf \in [Threads -> Slots] /\ Null \notin Threads
    BY AllocatorAssumption
  <2>2. CASE /\ Goto(t, "createInSlot") /\ slotMutex' = [slotMutex EXCEPT ![slotOf[t]] = t]
    BY <1>3, <2>1, <2>2 DEF Owners, MoreTypes, Goto
  <2>3. CASE Retry(t) /\ UNCHANGED slotMutex
    <3>1. Goto(t, "malloc") /\ "malloc" \in Labels
      BY <2>3 DEF Retry, Labels
    <3>. QED  BY <1>3, <2>3, <3>1, OwnersKept DEF MoreTypes
  <2>. QED  BY <1>3, <2>2, <2>3
<1>8. pc' \in [Threads -> Labels]
  BY <1>1, <1>2, PcType
<1>9. HeldInUse'
  <2>1. \A s \in Slots : threadUsedBlocks'[s] \in InUse' \cup {Null}
    BY <1>3, <1>4 DEF HeldInUse, listVars
  <2>2. freeBlocks' = freeBlocks
    BY <1>3 DEF listVars
  <2>. QED  BY <1>1, <1>2, <1>4, <1>6, <2>1, <2>2, HeldStep
<1>10. MoreTypes'
  BY <1>4, <1>6, <1>7, <1>8 DEF MoreTypes
<1>. QED  BY <1>4, <1>7, <1>9, <1>10

LEMMA LockKeeps ==
    ASSUME AllocatorIndInv, NEW t \in Threads, Lock(t)
    PROVE  AllocatorIndInv'
<1> USE DEF AllocatorIndInv
<1>1. PICK l \in {"take", "create", "malloc"} : Goto(t, l) /\ (l = "take" => freeBlocks # <<>>)
  BY DEF Lock, Retry
<1>2. l \in Labels
  BY DEF Labels
<1>3. /\ pc[t] = "lock" /\ mutex = Null
      /\ \/ /\ (Goto(t, "take") \/ Goto(t, "create")) /\ mutex' = t
            /\ UNCHANGED <<size, myUsedBlocks>>
         \/ Retry(t) /\ UNCHANGED mutex
      /\ UNCHANGED <<blockVars, listVars, slotMutex, local, handedOut, dropped>>
  BY DEF Lock
<1>4. /\ ListTypes' /\ ListsApart' /\ InUse' = InUse /\ PiecesTaken' /\ LocalsTaken'
      /\ cur' \in [Blocks -> Nat] /\ allocEnd' \in [Blocks -> Nat] /\ reserveEnd' \in [Blocks -> Nat]
      /\ local' \in [Threads -> Local] /\ handedOut' \subseteq Piece
  BY <1>3, QuietStep
<1>6. /\ myUsedBlocks' \in [Threads -> Blocks \cup {Null}] /\ size' \in [Threads -> Nat]
      /\ \A u \in Threads : u # t => myUsedBlocks'[u] = myUsedBlocks[u]
  BY <1>3, RetryTypes DEF MoreTypes
<1>7. Owners'
  <2>1. Null \notin Threads
    BY AllocatorAssumption
  <2>2. CASE (Goto(t, "take") \/ Goto(t, "create")) /\ mutex' = t
    <3>1. PICK k \in {"take", "create"} : pc' = [pc EXCEPT ![t] = k]
      BY <2>2 DEF Goto
    <3>2. pc'[t] = k /\ \A u \in Threads : u # t => pc'[u] = pc[u]
      BY <3>1 DEF MoreTypes
    <3>. QED  BY <1>3, <2>1, <2>2, <3>2 DEF Owners
  <2>3. CASE Retry(t) /\ UNCHANGED mutex
    <3>1. Goto(t, "malloc") /\ "malloc" \in Labels
      BY <2>3 DEF Retry, Labels
    <3>. QED  BY <1>3, <2>3, <3>1, OwnersKept
  <2>. QED  BY <1>3, <2>2, <2>3
<1>8. pc' \in [Threads -> Labels]
  BY <1>1, <1>2, PcType
<1>9. HeldInUse'
  <2>1. \A s \in Slots : threadUsedBlocks'[s] \in InUse' \cup {Null}
    BY <1>3, <1>4 DEF HeldInUse, listVars
  <2>2. freeBlocks' = freeBlocks
    BY <1>3 DEF listVars
  <2>. QED  BY <1>1, <1>2, <1>4, <1>6, <2>1, <2>2, HeldStep
<1>10. MoreTypes'
  BY <1>3, <1>4, <1>6, <1>8 DEF MoreTypes
<1>. QED  BY <1>4, <1>7, <1>9, <1>10

------------------------------------------------------------------------------
\* The steps of a thread that change the lists

\* One list gets a new block at its front, or takes one from another: the lists stay apart.
LEMMA ConsOnce ==
    ASSUME NEW S, NEW s \in Seq(S), NEW b \in S, b \notin Range(s), Once(s)
    PROVE  /\ <<b>> \o s \in Seq(S) /\ Range(<<b>> \o s) = {b} \cup Range(s) /\ Once(<<b>> \o s)
<1> DEFINE h == <<b>>
<1>1. h \in Seq(S) /\ Range(h) = {b} /\ Once(h)
  BY SingleOnce
<1>. HIDE DEF h
<1>2. Range(h) \cap Range(s) = {}
  BY <1>1
<1>3. h \o s \in Seq(S) /\ Range(h \o s) = Range(h) \cup Range(s) /\ Once(h \o s)
  BY <1>1, <1>2, ConcatOnce
<1>. QED  BY <1>1, <1>3 DEF h

LEMMA CreateInSlotKeeps ==
    ASSUME AllocatorIndInv, NEW t \in Threads, CreateInSlot(t)
    PROVE  AllocatorIndInv'
<1> USE DEF AllocatorIndInv
<1> DEFINE s == slotOf[t]
<1>1. /\ s \in Slots /\ Null \notin Threads /\ slotOf \in [Threads -> Slots]
      /\ maxAllocationSize \in Nat /\ Slots = 1 .. numSlots /\ numSlots \in Nat /\ Null \notin Blocks
  BY AllocatorAssumption DEF Slots
<1>2. PICK l \in {"malloc", "threw"} : Goto(t, l)
  BY DEF CreateInSlot, Retry, Throw
<1>3. l \in Labels
  BY DEF Labels
<1>4. /\ pc[t] = "createInSlot" /\ (Retry(t) \/ Forget({t}))
      /\ slotMutex' = [slotMutex EXCEPT ![s] = Null]
      /\ UNCHANGED <<usedBlocks, freeBlocks, growSize, mutex, local, handedOut, dropped>>
  BY DEF CreateInSlot, Throw
<1>5. pc' \in [Threads -> Labels] /\ pc'[t] = l /\ \A u \in Threads : u # t => pc'[u] = pc[u]
  BY <1>2, <1>3, PcType
<1>6. /\ myUsedBlocks' \in [Threads -> Blocks \cup {Null}] /\ size' \in [Threads -> Nat]
      /\ \A u \in Threads : u # t => myUsedBlocks'[u] = myUsedBlocks[u]
  BY <1>4, ForgetTypes, RetryTypes
<1>7. slotMutex' \in [Slots -> Threads \cup {Null}]
  BY <1>4 DEF MoreTypes
<1>8. Owners'
  <2>1. slotMutex[s] = t
    BY <1>4 DEF Owners
  <2>2. slotMutex'[s] = Null /\ \A r \in Slots : r # s => slotMutex'[r] = slotMutex[r]
    BY <1>1, <1>4 DEF MoreTypes
  <2>3. ASSUME NEW u \in Threads
        PROVE  /\ pc'[u] \in {"take", "create"} <=> mutex' = u
               /\ pc'[u] = "createInSlot" <=> slotMutex'[slotOf[u]] = u
    <3>1. /\ pc[u] \in {"take", "create"} <=> mutex = u
          /\ pc[u] = "createInSlot" <=> slotMutex[slotOf[u]] = u
      BY DEF Owners
    <3>2. CASE u = t
      BY <1>1, <1>4, <1>5, <2>2, <3>1, <3>2
    <3>3. CASE u # t
      <4>1. pc'[u] = pc[u] /\ mutex' = mutex /\ slotOf[u] \in Slots
        BY <1>1, <1>4, <1>5, <3>3
      <4>2. slotMutex'[slotOf[u]] = u <=> slotMutex[slotOf[u]] = u
        BY <1>1, <2>1, <2>2, <3>3, <4>1
      <4>. QED  BY <3>1, <4>1, <4>2
    <3>. QED  BY <3>2, <3>3
  <2>. QED  BY <2>3 DEF Owners
<1>9. ASSUME NEW b \in Blocks, Create(b, maxAllocationSize, maxAllocationSize),
             threadBlocks' = [threadBlocks EXCEPT ![s] = <<b>> \o @],
             threadUsedBlocks' = [threadUsedBlocks EXCEPT ![s] = b]
      PROVE  AllocatorIndInv'
  <2>1. /\ b \in Blocks /\ b \notin alive /\ alive' = alive \cup {b} /\ alive' \subseteq Blocks
        /\ cur' \in [Blocks -> Nat] /\ allocEnd' \in [Blocks -> Nat] /\ reserveEnd' \in [Blocks -> Nat]
        /\ \A c \in InUse : cur'[c] \in Nat /\ cur'[c] >= cur[c] /\ reserveEnd'[c] = reserveEnd[c]
        /\ InUse \subseteq Blocks
        /\ IsFiniteSet(alive') /\ dropped \subseteq alive'
    BY <1>1, <1>9, Created
  <2>2. /\ usedBlocks \in Seq(alive') /\ freeBlocks \in Seq(alive')
        /\ threadBlocks \in [Slots -> Seq(alive')]
    <3>1. \A r \in Seq(alive) : r \in Seq(alive')
      BY <2>1, SeqMonotonic
    <3>. QED  BY <3>1 DEF ListTypes
  <2>3. /\ threadBlocks' \in [Slots -> Seq(alive')]
        /\ Len(Flat') = Len(Flat) + 1 /\ Range(Flat') = Range(Flat) \cup {b}
    <3>1. b \in alive' /\ s \in 1 .. numSlots /\ threadBlocks \in [1 .. numSlots -> Seq(alive')]
      BY <1>1, <2>1, <2>2
    <3>2. threadBlocks' = PutInFront(threadBlocks, s, b)
      BY <1>9 DEF PutInFront
    <3>3. /\ threadBlocks' \in [1 .. numSlots -> Seq(alive')]
          /\ Len(FlattenSeq(threadBlocks')) = Len(FlattenSeq(threadBlocks)) + 1
          /\ Range(FlattenSeq(threadBlocks')) = Range(FlattenSeq(threadBlocks)) \cup {b}
      <4> DEFINE A == alive'
                 ss == threadBlocks
                 n == numSlots
                 tt == PutInFront(ss, s, b)
      <4>1. n \in Nat /\ ss \in [1 .. n -> Seq(A)] /\ s \in 1 .. n /\ b \in A
        BY <1>1, <3>1
      <4>. HIDE DEF s, A, ss, n
      <4>2. /\ tt \in [1 .. n -> Seq(A)] /\ Len(FlattenSeq(tt)) = Len(FlattenSeq(ss)) + 1
            /\ Range(FlattenSeq(tt)) = Range(FlattenSeq(ss)) \cup {b}
        BY <4>1, FlattenLonger
      <4>. QED  BY <4>2, <3>2 DEF A, ss, n
    <3>. QED  BY <1>1, <3>3 DEF Flat
  <2>4. /\ Flat \in Seq(alive) /\ Range(Flat) \subseteq alive
        /\ InUse \subseteq alive /\ Range(freeBlocks) \subseteq alive
    BY FlatType, InUseAlive
  <2>5. Once(Flat')
    <3>1. /\ IsFiniteSet(Range(Flat)) /\ b \notin Range(Flat)
          /\ Len(Flat) = Cardinality(Range(Flat)) /\ Len(Flat) \in Nat
      BY <2>1, <2>4, RangeFinite DEF ListsApart, Once
    <3>2. Cardinality(Range(Flat) \cup {b}) = Cardinality(Range(Flat)) + 1
      BY <3>1, FS_AddElement
    <3>. QED  BY <2>3, <3>1, <3>2 DEF Once
  <2>6. InUse' = InUse \cup {b}
    BY <1>4, <2>3 DEF InUse
  <2>7. ListsApart'
    <3>1. InUse' \cup Range(freeBlocks') = alive' \ dropped'
      BY <1>4, <2>1, <2>6 DEF ListsApart
    <3>2. InUse' \cap Range(freeBlocks') = {} /\ Range(usedBlocks') \cap Range(Flat') = {}
      BY <1>4, <2>1, <2>3, <2>4, <2>6 DEF ListsApart, InUse
    <3>3. Once(usedBlocks)' /\ Once(freeBlocks)'
      BY <1>4 DEF ListsApart, Once
    <3>. QED  BY <1>4, <2>1, <2>5, <3>1, <3>2, <3>3 DEF ListsApart, Once
  <2>8. ListTypes'
    BY <1>4, <1>9, <2>1, <2>2, <2>3 DEF ListTypes
  <2>9. PiecesTaken' /\ LocalsTaken'
    BY <1>4, <2>1, <2>6, TakenKept
  <2>10. MoreTypes'
    BY <1>4, <1>5, <1>6, <1>7, <2>1 DEF MoreTypes
  <2>11. HeldInUse'
    <3>1. \A r \in Slots : threadUsedBlocks'[r] \in InUse' \cup {Null}
      BY <1>9, <2>6 DEF HeldInUse, ListTypes
    <3>. QED  BY <1>2, <1>3, <1>4, <1>6, <2>6, <3>1, HeldStep
  <2>. QED  BY <1>8, <2>7, <2>8, <2>9, <2>10, <2>11
<1>10. ASSUME UNCHANGED <<blockVars, alive, threadBlocks, threadUsedBlocks>>
       PROVE  AllocatorIndInv'
  <2>0. UNCHANGED <<blockVars, listVars, dropped, local, handedOut>>
    BY <1>4, <1>10 DEF listVars
  <2>1. /\ ListTypes' /\ ListsApart' /\ InUse' = InUse /\ PiecesTaken' /\ LocalsTaken'
        /\ cur' \in [Blocks -> Nat] /\ allocEnd' \in [Blocks -> Nat] /\ reserveEnd' \in [Blocks -> Nat]
        /\ local' \in [Threads -> Local] /\ handedOut' \subseteq Piece
    BY <2>0, QuietStep
  <2>2. MoreTypes'
    BY <1>5, <1>6, <1>7, <2>1 DEF MoreTypes
  <2>3. HeldInUse'
    <3>1. \A r \in Slots : threadUsedBlocks'[r] \in InUse' \cup {Null}
      BY <1>10, <2>1 DEF HeldInUse
    <3>. QED  BY <1>2, <1>3, <1>4, <1>6, <2>1, <3>1, HeldStep
  <2>. QED  BY <1>8, <2>1, <2>2, <2>3
<1>11. \/ \E b \in Blocks : /\ Create(b, maxAllocationSize, maxAllocationSize)
                            /\ threadBlocks' = [threadBlocks EXCEPT ![s] = <<b>> \o @]
                            /\ threadUsedBlocks' = [threadUsedBlocks EXCEPT ![s] = b]
       \/ UNCHANGED <<blockVars, alive, threadBlocks, threadUsedBlocks>>
  BY DEF CreateInSlot
<1>. QED  BY <1>9, <1>10, <1>11

\* A thread that owns the mutex leaves it.
LEMMA MutexLeft ==
    ASSUME AllocatorIndInv, NEW t \in Threads, pc[t] \in {"take", "create"},
           NEW l \in {"malloc", "threw"}, Goto(t, l),
           mutex' = Null, UNCHANGED slotMutex
    PROVE  /\ Owners' /\ l \in Labels /\ pc' \in [Threads -> Labels]
           /\ \A u \in Threads : u # t => pc[u] # "take"
<1>1. Null \notin Threads /\ l \in Labels /\ Owners /\ MoreTypes
  BY AllocatorAssumption DEF Labels, AllocatorIndInv
<1>2. pc' \in [Threads -> Labels] /\ pc'[t] = l /\ \A u \in Threads : u # t => pc'[u] = pc[u]
  BY <1>1, PcType
<1>3. mutex = t /\ slotMutex[slotOf[t]] # t
  BY <1>1 DEF Owners
<1>4. \A u \in Threads : u # t => pc[u] \notin {"take", "create"}
  BY <1>1, <1>3 DEF Owners
<1>5. Owners'
  BY <1>1, <1>2, <1>3, <1>4 DEF Owners
<1>. QED  BY <1>1, <1>2, <1>4, <1>5

LEMMA TakeFreeKeeps ==
    ASSUME AllocatorIndInv, NEW t \in Threads, TakeFree(t)
    PROVE  AllocatorIndInv'
<1> USE DEF AllocatorIndInv
<1> DEFINE s == slotOf[t]
           b == Head(freeBlocks)
<1>1. s \in Slots
  BY AllocatorAssumption
<1>2. /\ pc[t] = "take" /\ Retry(t) /\ mutex' = Null
      /\ usedBlocks' = <<b>> \o usedBlocks
      /\ threadUsedBlocks' = [threadUsedBlocks EXCEPT ![s] = b]
      /\ freeBlocks' = Tail(freeBlocks)
      /\ UNCHANGED <<blockVars, threadBlocks, growSize, alive, slotMutex, local, handedOut, dropped>>
  BY DEF TakeFree
<1>3. /\ Goto(t, "malloc") /\ size' \in [Threads -> Nat] /\ myUsedBlocks' \in [Threads -> Blocks \cup {Null}]
      /\ \A u \in Threads : u # t => myUsedBlocks'[u] = myUsedBlocks[u]
  BY <1>2, RetryTypes
<1>4. /\ Owners' /\ "malloc" \in Labels /\ pc' \in [Threads -> Labels]
      /\ \A u \in Threads : u # t => pc[u] # "take"
  BY <1>2, <1>3, MutexLeft
<1>5. /\ usedBlocks \in Seq(alive) /\ freeBlocks \in Seq(alive) /\ freeBlocks # <<>>
      /\ Once(usedBlocks) /\ Once(freeBlocks)
  BY <1>2 DEF ListTypes, HeldInUse, ListsApart
<1>6. /\ b \in Range(freeBlocks) /\ freeBlocks' \in Seq(alive) /\ Once(freeBlocks')
      /\ Range(freeBlocks) = {b} \cup Range(freeBlocks') /\ b \notin Range(freeBlocks')
  BY <1>2, <1>5, TailOnce
<1>7. b \in alive /\ b \in Blocks /\ b \notin InUse /\ b \notin Range(usedBlocks) /\ b \notin Range(Flat)
  BY <1>6, InUseAlive DEF ListsApart, InUse, ListTypes
<1>8. usedBlocks' \in Seq(alive) /\ Range(usedBlocks') = {b} \cup Range(usedBlocks) /\ Once(usedBlocks')
  <2>. HIDE DEF b
  <2>. QED  BY <1>2, <1>5, <1>7, ConsOnce
<1>9. Flat' = Flat
  BY <1>2 DEF Flat
<1>10. InUse' = InUse \cup {b}
  BY <1>8, <1>9 DEF InUse
<1>11. ListsApart'
  <2>1. /\ IsFiniteSet(alive') /\ dropped' \subseteq alive'
        /\ InUse' \cup Range(freeBlocks') = alive' \ dropped'
    BY <1>2, <1>6, <1>10 DEF ListsApart
  <2>2. InUse' \cap Range(freeBlocks') = {} /\ Range(usedBlocks') \cap Range(Flat') = {}
    BY <1>6, <1>7, <1>8, <1>9, <1>10 DEF ListsApart
  <2>3. Once(Flat)'
    BY <1>9 DEF ListsApart, Once
  <2>. QED  BY <1>6, <1>8, <2>1, <2>2, <2>3 DEF ListsApart, Once
<1>12. ListTypes'
  BY <1>2, <1>6, <1>7, <1>8 DEF ListTypes
<1>13. InUse \subseteq Blocks
  BY InUseAlive DEF ListTypes
<1>14. PiecesTaken' /\ LocalsTaken'
  <2>1. \A c \in InUse : cur'[c] \in Nat /\ cur'[c] >= cur[c] /\ reserveEnd'[c] = reserveEnd[c]
    BY <1>2, <1>13 DEF blockVars, MoreTypes
  <2>. QED  BY <1>2, <1>10, <1>13, <2>1, TakenKept
<1>15. MoreTypes'
  BY <1>2, <1>3, <1>4 DEF MoreTypes, blockVars
<1>16. HeldInUse'
  <2>1. \A r \in Slots : threadUsedBlocks'[r] \in InUse' \cup {Null}
    <3>. HIDE DEF b
    <3>. QED  BY <1>2, <1>10 DEF HeldInUse, ListTypes
  <2>. QED  BY <1>3, <1>4, <1>10, <2>1, HeldStep
<1>. QED  BY <1>4, <1>11, <1>12, <1>14, <1>15, <1>16

LEMMA SizesOfBlocks ==
    /\ {allocBlockSize, maxAllocationSize, bytesAllocate, bytesReserve} \subseteq Nat \ {0} /\ Special \in Nat
    /\ allocBlockSize <= maxAllocationSize /\ bytesAllocate <= bytesReserve
    /\ Max({maxAllocationSize, bytesReserve}) \in Nat
    /\ Max({maxAllocationSize, bytesReserve}) >= maxAllocationSize
    /\ Max({maxAllocationSize, bytesReserve}) >= bytesReserve
<1>1. maxAllocationSize \in Nat /\ bytesReserve \in Nat
  BY AllocatorAssumption
<1>. QED  BY <1>1, AllocatorAssumption, MaxMinOfTwo

\* The lists stay as they are and growSize stays in its range.
LEMMA OnlyGrowSize ==
    ASSUME AllocatorIndInv, UNCHANGED <<blockVars, alive, usedBlocks, freeBlocks, threadBlocks, threadUsedBlocks,
                            local, handedOut, dropped>>,
           growSize' \in allocBlockSize .. Max({maxAllocationSize, bytesReserve})
    PROVE  /\ ListTypes' /\ ListsApart' /\ InUse' = InUse /\ PiecesTaken' /\ LocalsTaken'
           /\ cur' \in [Blocks -> Nat] /\ allocEnd' \in [Blocks -> Nat] /\ reserveEnd' \in [Blocks -> Nat]
           /\ local' \in [Threads -> Local] /\ handedOut' \subseteq Piece
<1>1. ListTypes /\ ListsApart /\ MoreTypes /\ PiecesTaken /\ LocalsTaken
  BY DEF AllocatorIndInv
<1>2. Flat' = Flat /\ InUse' = InUse
  BY DEF InUse, Flat
<1>3. ListTypes'
  BY <1>1 DEF ListTypes
<1>4. ListsApart'
  BY <1>1, <1>2 DEF ListsApart, Once
<1>5. InUse \subseteq Blocks
  BY <1>1, InUseAlive DEF ListTypes
<1>6. \A c \in InUse : cur'[c] \in Nat /\ cur'[c] >= cur[c] /\ reserveEnd'[c] = reserveEnd[c]
  BY <1>1, <1>5 DEF blockVars, MoreTypes
<1>7. PiecesTaken' /\ LocalsTaken'
  BY <1>1, <1>2, <1>5, <1>6, TakenKept
<1>. QED  BY <1>1, <1>2, <1>3, <1>4, <1>7 DEF MoreTypes, blockVars

\* The lists after a new block has come to the front of the used or of the free ones
LEMMA CreatedInFront ==
    ASSUME AllocatorIndInv, NEW b, NEW a \in Nat, NEW r \in Nat, Create(b, a, r),
           \/ usedBlocks' = <<b>> \o usedBlocks /\ freeBlocks' = freeBlocks
           \/ freeBlocks' = <<b>> \o freeBlocks /\ usedBlocks' = usedBlocks,
           growSize' \in allocBlockSize .. Max({maxAllocationSize, bytesReserve}),
           threadUsedBlocks' \in [Slots -> Blocks \cup {Null}],
           UNCHANGED <<threadBlocks, local, handedOut, dropped>>
    PROVE  /\ ListTypes' /\ ListsApart' /\ InUse \subseteq InUse' /\ PiecesTaken' /\ LocalsTaken'
           /\ usedBlocks' = <<b>> \o usedBlocks => b \in InUse'
           /\ cur' \in [Blocks -> Nat] /\ allocEnd' \in [Blocks -> Nat] /\ reserveEnd' \in [Blocks -> Nat]
           /\ local' \in [Threads -> Local] /\ handedOut' \subseteq Piece
<1>1. ListTypes /\ ListsApart /\ MoreTypes /\ PiecesTaken /\ LocalsTaken
  BY DEF AllocatorIndInv
<1>2. /\ b \in Blocks /\ b \notin alive /\ alive' = alive \cup {b} /\ alive' \subseteq Blocks
      /\ cur' \in [Blocks -> Nat] /\ allocEnd' \in [Blocks -> Nat] /\ reserveEnd' \in [Blocks -> Nat]
      /\ \A c \in InUse : cur'[c] \in Nat /\ cur'[c] >= cur[c] /\ reserveEnd'[c] = reserveEnd[c]
      /\ InUse \subseteq Blocks
      /\ IsFiniteSet(alive') /\ dropped \subseteq alive'
  BY <1>1, Created
<1>3. \A s \in Seq(alive) : s \in Seq(alive')
  BY <1>2, SeqMonotonic
<1>4. /\ usedBlocks \in Seq(alive') /\ freeBlocks \in Seq(alive') /\ threadBlocks' \in [Slots -> Seq(alive')]
      /\ Once(usedBlocks) /\ Once(freeBlocks) /\ b \in alive'
  BY <1>1, <1>2, <1>3 DEF ListTypes, ListsApart
<1>5. b \notin Range(usedBlocks) /\ b \notin Range(freeBlocks) /\ b \notin Range(Flat)
  BY <1>1, <1>2, InUseAlive, FlatType
<1>6. /\ <<b>> \o usedBlocks \in Seq(alive') /\ Once(<<b>> \o usedBlocks)
      /\ Range(<<b>> \o usedBlocks) = {b} \cup Range(usedBlocks)
  <2> DEFINE A == alive'
             s == usedBlocks
  <2>1. b \in A /\ s \in Seq(A) /\ b \notin Range(s) /\ Once(s)
    BY <1>4, <1>5
  <2>. HIDE DEF A, s
  <2>2. <<b>> \o s \in Seq(A) /\ Once(<<b>> \o s) /\ Range(<<b>> \o s) = {b} \cup Range(s)
    BY <2>1, ConsOnce
  <2>. QED  BY <2>2 DEF A, s
<1>7. /\ <<b>> \o freeBlocks \in Seq(alive') /\ Once(<<b>> \o freeBlocks)
      /\ Range(<<b>> \o freeBlocks) = {b} \cup Range(freeBlocks)
  <2> DEFINE A == alive'
             s == freeBlocks
  <2>1. b \in A /\ s \in Seq(A) /\ b \notin Range(s) /\ Once(s)
    BY <1>4, <1>5
  <2>. HIDE DEF A, s
  <2>2. <<b>> \o s \in Seq(A) /\ Once(<<b>> \o s) /\ Range(<<b>> \o s) = {b} \cup Range(s)
    BY <2>1, ConsOnce
  <2>. QED  BY <2>2 DEF A, s
<1>8. Flat' = Flat
  BY DEF Flat
<1>9. ListTypes'
  BY <1>2, <1>4, <1>6, <1>7 DEF ListTypes
<1>10. Once(usedBlocks)' /\ Once(freeBlocks)' /\ Once(Flat)'
  BY <1>1, <1>4, <1>6, <1>7, <1>8 DEF ListsApart, Once
<1>11. CASE usedBlocks' = <<b>> \o usedBlocks /\ freeBlocks' = freeBlocks
  <2>1. InUse' = InUse \cup {b} /\ Range(usedBlocks') = {b} \cup Range(usedBlocks)
    BY <1>6, <1>8, <1>11 DEF InUse
  <2>2. ListsApart'
    BY <1>1, <1>2, <1>5, <1>8, <1>10, <1>11, <2>1 DEF ListsApart
  <2>3. PiecesTaken' /\ LocalsTaken'
    BY <1>1, <1>2, <2>1, TakenKept
  <2>. QED  BY <1>1, <1>2, <1>9, <2>1, <2>2, <2>3 DEF MoreTypes
<1>12. CASE freeBlocks' = <<b>> \o freeBlocks /\ usedBlocks' = usedBlocks
  <2>1. InUse' = InUse /\ Range(freeBlocks') = {b} \cup Range(freeBlocks) /\ b \notin InUse
    BY <1>5, <1>7, <1>8, <1>12 DEF InUse
  <2>2. ListsApart'
    BY <1>1, <1>2, <1>8, <1>10, <1>12, <2>1 DEF ListsApart
  <2>3. PiecesTaken' /\ LocalsTaken'
    BY <1>1, <1>2, <2>1, TakenKept
  <2>4. usedBlocks' # <<b>> \o usedBlocks
    <3>1. b \in Range(<<b>> \o usedBlocks) /\ b \notin Range(usedBlocks')
      BY <1>5, <1>6, <1>12
    <3>. QED  BY <3>1
  <2>. QED  BY <1>1, <1>2, <1>9, <2>1, <2>2, <2>3, <2>4 DEF MoreTypes
<1>. QED  BY <1>11, <1>12

LEMMA CreateUsedKeeps ==
    ASSUME AllocatorIndInv, NEW t \in Threads, CreateUsed(t)
    PROVE  AllocatorIndInv'
<1> USE DEF AllocatorIndInv
<1> DEFINE s == slotOf[t]
<1>1. s \in Slots
  BY AllocatorAssumption
<1>2. PICK l \in {"malloc", "threw"} : Goto(t, l)
  BY DEF CreateUsed, Retry, Throw
<1>3. /\ pc[t] = "create" /\ mutex' = Null /\ (Retry(t) \/ Forget({t}))
      /\ growSize' = Min({2 * growSize, maxAllocationSize})
      /\ UNCHANGED <<freeBlocks, threadBlocks, slotMutex, local, handedOut, dropped>>
  BY DEF CreateUsed, Throw
<1>4. /\ Owners' /\ l \in Labels /\ pc' \in [Threads -> Labels]
      /\ \A u \in Threads : u # t => pc[u] # "take"
  BY <1>2, <1>3, MutexLeft
<1>5. /\ myUsedBlocks' \in [Threads -> Blocks \cup {Null}] /\ size' \in [Threads -> Nat]
      /\ \A u \in Threads : u # t => myUsedBlocks'[u] = myUsedBlocks[u]
  BY <1>3, ForgetTypes, RetryTypes
<1>6. slotMutex' \in [Slots -> Threads \cup {Null}]
  BY <1>3 DEF MoreTypes
<1>7. growSize' \in allocBlockSize .. Max({maxAllocationSize, bytesReserve})
  <2>1. /\ allocBlockSize \in Nat /\ maxAllocationSize \in Nat /\ allocBlockSize <= maxAllocationSize
        /\ Max({maxAllocationSize, bytesReserve}) \in Nat
        /\ Max({maxAllocationSize, bytesReserve}) >= maxAllocationSize
    BY SizesOfBlocks
  <2>2. growSize \in Nat /\ growSize >= allocBlockSize
    BY <2>1 DEF ListTypes
  <2>3. growSize' = IF 2 * growSize <= maxAllocationSize THEN 2 * growSize ELSE maxAllocationSize
    <3> DEFINE x == 2 * growSize
               y == maxAllocationSize
    <3>1. x \in Nat /\ y \in Nat
      BY <2>1, <2>2
    <3>. HIDE DEF x, y
    <3>2. Min({x, y}) = IF x <= y THEN x ELSE y
      BY <3>1, MaxMinOfTwo
    <3>. QED  BY <1>3, <3>2 DEF x, y
  <2>. QED  BY <2>1, <2>2, <2>3
<1>8. ASSUME NEW b \in Blocks, Create(b, growSize', growSize'), usedBlocks' = <<b>> \o usedBlocks,
             threadUsedBlocks' = [threadUsedBlocks EXCEPT ![s] = b]
      PROVE  AllocatorIndInv'
  <2>1. growSize' \in Nat
    BY <1>7, SizesOfBlocks
  <2>2. threadUsedBlocks' \in [Slots -> Blocks \cup {Null}]
    BY <1>8 DEF ListTypes
  <2>3. /\ ListTypes' /\ ListsApart' /\ InUse \subseteq InUse' /\ PiecesTaken' /\ LocalsTaken'
        /\ b \in InUse'
        /\ cur' \in [Blocks -> Nat] /\ allocEnd' \in [Blocks -> Nat] /\ reserveEnd' \in [Blocks -> Nat]
        /\ local' \in [Threads -> Local] /\ handedOut' \subseteq Piece
    <3> DEFINE g == growSize'
    <3>1. g \in Nat /\ Create(b, g, g)
      BY <1>8, <2>1
    <3>2. growSize' = g
      OBVIOUS
    <3>. HIDE DEF g
    <3>. QED  BY <1>3, <1>7, <1>8, <2>2, <3>1, CreatedInFront
  <2>4. MoreTypes'
    BY <1>4, <1>5, <1>6, <2>3 DEF MoreTypes
  <2>5. HeldInUse'
    <3>1. \A r \in Slots : threadUsedBlocks'[r] \in InUse' \cup {Null}
      BY <1>8, <2>3 DEF HeldInUse, ListTypes
    <3>. QED  BY <1>2, <1>3, <1>4, <1>5, <2>3, <3>1, HeldStep
  <2>. QED  BY <1>4, <2>3, <2>4, <2>5
<1>9. ASSUME UNCHANGED <<blockVars, alive, usedBlocks, threadUsedBlocks>>
      PROVE  AllocatorIndInv'
  <2>1. /\ ListTypes' /\ ListsApart' /\ InUse' = InUse /\ PiecesTaken' /\ LocalsTaken'
        /\ cur' \in [Blocks -> Nat] /\ allocEnd' \in [Blocks -> Nat] /\ reserveEnd' \in [Blocks -> Nat]
        /\ local' \in [Threads -> Local] /\ handedOut' \subseteq Piece
    BY <1>3, <1>7, <1>9, OnlyGrowSize
  <2>2. MoreTypes'
    BY <1>4, <1>5, <1>6, <2>1 DEF MoreTypes
  <2>3. HeldInUse'
    <3>1. \A r \in Slots : threadUsedBlocks'[r] \in InUse' \cup {Null}
      BY <1>9, <2>1 DEF HeldInUse
    <3>. QED  BY <1>2, <1>3, <1>4, <1>5, <2>1, <3>1, HeldStep
  <2>. QED  BY <1>4, <2>1, <2>2, <2>3
<1>10. \/ \E b \in Blocks : /\ Create(b, growSize', growSize')
                            /\ usedBlocks' = <<b>> \o usedBlocks
                            /\ threadUsedBlocks' = [threadUsedBlocks EXCEPT ![s] = b]
       \/ UNCHANGED <<blockVars, alive, usedBlocks, threadUsedBlocks>>
  BY DEF CreateUsed
<1>. QED  BY <1>8, <1>9, <1>10

------------------------------------------------------------------------------
\* The steps of a thread that take a piece

\* A new piece p and, of thread t, a new state l of its own block: enough for the pieces to stay apart.
LEMMA TakenMore ==
    ASSUME AllocatorIndInv, NEW t \in Threads, NEW p \in Piece, NEW l \in Local,
           InUse' = InUse, InUse \subseteq Blocks,
           cur' \in [Blocks -> Nat], \A b \in InUse : cur'[b] >= cur[b], UNCHANGED reserveEnd,
           handedOut' = handedOut \cup {p},
           local' = [local EXCEPT ![t] = l],
           \* the piece
           p.block \in InUse, p.from <= p.to, p.to <= cur'[p.block], p.to <= reserveEnd[p.block],
           \A q \in handedOut : p.block = q.block => Apart(p, q),
           \A u \in Threads : u # t /\ p.block = local[u].block =>
               p.to <= local[u].ptr + local[u].cur \/ local[u].ptr + local[u].end <= p.from,
           \* the thread's own block
           \/ l.block = Null /\ l.end = 0
           \/ /\ l.block \in InUse /\ l.cur <= l.end
              /\ l.ptr + l.end <= cur'[l.block] /\ l.ptr + l.end <= reserveEnd[l.block],
           \A u \in Threads : u # t /\ l.block = local[u].block /\ l.block # Null =>
               l.ptr + l.end <= local[u].ptr \/ local[u].ptr + local[u].end <= l.ptr,
           \A q \in handedOut \cup {p} : q.block = l.block =>
               q.to <= l.ptr + l.cur \/ l.ptr + l.end <= q.from
    PROVE  PiecesTaken' /\ LocalsTaken' /\ local' \in [Threads -> Local] /\ handedOut' \subseteq Piece
<1>1. MoreTypes /\ PiecesTaken /\ LocalsTaken
  BY DEF AllocatorIndInv
<1>2. local' \in [Threads -> Local] /\ local'[t] = l /\ \A u \in Threads : u # t => local'[u] = local[u]
  BY <1>1 DEF MoreTypes
<1>3. \A q \in handedOut : q \in Piece
  BY <1>1 DEF MoreTypes
<1>4. PiecesTaken'
  <2>1. ASSUME NEW q \in handedOut
        PROVE  /\ q.block \in InUse' /\ q.from <= q.to
               /\ q.to <= cur'[q.block] /\ q.to <= reserveEnd'[q.block]
    <3>1. /\ q.block \in InUse /\ q.from <= q.to /\ q.to <= cur[q.block] /\ q.to <= reserveEnd[q.block]
      BY <1>1 DEF PiecesTaken
    <3>2. q.to \in Nat /\ cur[q.block] \in Nat /\ cur'[q.block] \in Nat
      BY <1>1, <1>3, <3>1 DEF MoreTypes, Piece
    <3>. QED  BY <3>1, <3>2
  <2>2. ASSUME NEW q \in handedOut', NEW r \in handedOut', q # r, q.block = r.block  PROVE  Apart(q, r)
    <3>1. CASE q = p
      BY <2>2, <3>1
    <3>2. CASE r = p
      <4>1. Apart(p, q)
        BY <2>2, <3>2
      <4>. QED  BY <3>2, <4>1 DEF Apart
    <3>3. CASE q # p /\ r # p
      BY <1>1, <2>2, <3>3 DEF PiecesTaken
    <3>. QED  BY <3>1, <3>2, <3>3
  <2>. QED  BY <2>1, <2>2 DEF PiecesTaken, Apart
<1>5. ASSUME NEW u \in Threads, u # t
      PROVE  \/ local[u].block = Null /\ local[u].end = 0
             \/ /\ local[u].block \in InUse' /\ local[u].cur <= local[u].end
                /\ local[u].ptr + local[u].end <= cur'[local[u].block]
                /\ local[u].ptr + local[u].end <= reserveEnd'[local[u].block]
  <2>1. CASE local[u].block = Null /\ local[u].end = 0
    BY <2>1
  <2>2. CASE /\ local[u].block \in InUse /\ local[u].cur <= local[u].end
             /\ local[u].ptr + local[u].end <= cur[local[u].block]
             /\ local[u].ptr + local[u].end <= reserveEnd[local[u].block]
    <3>1. /\ local[u].ptr + local[u].end \in Nat /\ cur[local[u].block] \in Nat
          /\ cur'[local[u].block] \in Nat
      BY <1>1, <2>2 DEF MoreTypes, Local
    <3>. QED  BY <2>2, <3>1
  <2>. QED  BY <1>1, <2>1, <2>2 DEF LocalsTaken
<1>6. ASSUME NEW u \in Threads
      PROVE  \/ local'[u].block = Null /\ local'[u].end = 0
             \/ /\ local'[u].block \in InUse' /\ local'[u].cur <= local'[u].end
                /\ local'[u].ptr + local'[u].end <= cur'[local'[u].block]
                /\ local'[u].ptr + local'[u].end <= reserveEnd'[local'[u].block]
  BY <1>2, <1>5
<1>7. ASSUME NEW u \in Threads, NEW v \in Threads, u # v, local'[u].block = local'[v].block,
             local'[u].block # Null
      PROVE  \/ local'[u].ptr + local'[u].end <= local'[v].ptr
             \/ local'[v].ptr + local'[v].end <= local'[u].ptr
  <2>1. CASE u = t
    BY <1>2, <1>7, <2>1
  <2>2. CASE v = t
    BY <1>2, <1>7, <2>2
  <2>3. CASE u # t /\ v # t
    BY <1>1, <1>2, <1>7, <2>3 DEF LocalsTaken
  <2>. QED  BY <2>1, <2>2, <2>3
<1>8. ASSUME NEW u \in Threads, NEW q \in handedOut', q.block = local'[u].block
      PROVE  q.to <= local'[u].ptr + local'[u].cur \/ local'[u].ptr + local'[u].end <= q.from
  <2>1. CASE u = t
    BY <1>2, <1>8, <2>1
  <2>2. CASE u # t /\ q = p
    BY <1>2, <1>8, <2>2
  <2>3. CASE u # t /\ q # p
    BY <1>1, <1>2, <1>8, <2>3 DEF LocalsTaken
  <2>. QED  BY <2>1, <2>2, <2>3
<1>9. LocalsTaken'
  BY <1>6, <1>7, <1>8 DEF LocalsTaken
<1>. QED  BY <1>1, <1>2, <1>4, <1>9 DEF MoreTypes

LEMMA LocalMallocKeeps ==
    ASSUME AllocatorIndInv, NEW t \in Threads, LocalMalloc(t)
    PROVE  AllocatorIndInv'
<1> USE DEF AllocatorIndInv
<1> DEFINE l == local[t]
<1>1. PICK n \in Sizes : IF l.cur + n <= l.end
          THEN /\ local' = [local EXCEPT ![t].cur = @ + n]
               /\ handedOut' = handedOut \union {[block |-> l.block, from |-> l.ptr + l.cur,
                                                  to |-> l.ptr + l.cur + n]}
               /\ UNCHANGED <<pc, size>>
          ELSE /\ size' = [size EXCEPT ![t] = n]
               /\ Goto(t, "malloc") /\ UNCHANGED <<local, handedOut>>
  BY DEF LocalMalloc
<1>2. /\ pc[t] = "idle"
      /\ UNCHANGED <<cur, allocEnd, reserveEnd, listVars, mutex, slotMutex, myUsedBlocks, dropped>>
  BY DEF LocalMalloc, blockVars
<1>3. n \in Nat /\ n > 0 /\ Null \notin Blocks
  BY AllocatorAssumption
<1>4. ListTypes' /\ ListsApart' /\ InUse' = InUse /\ InUse \subseteq Blocks
  BY <1>2, ListsKept, InUseAlive DEF ListTypes
<1>5. CASE l.cur + n <= l.end
  <2>1. /\ l \in Local /\ l.block \in Blocks \cup {Null} /\ l.ptr \in Nat /\ l.cur \in Nat /\ l.end \in Nat
    BY DEF MoreTypes, Local
  <2>2. /\ l.block \in InUse /\ l.block \in Blocks /\ l.block # Null
        /\ l.ptr + l.end <= cur[l.block] /\ l.ptr + l.end <= reserveEnd[l.block]
        /\ cur[l.block] \in Nat /\ reserveEnd[l.block] \in Nat
    <3>1. l.end # 0
      BY <1>3, <1>5, <2>1
    <3>2. l.block \in InUse /\ l.ptr + l.end <= cur[l.block] /\ l.ptr + l.end <= reserveEnd[l.block]
      BY <3>1 DEF LocalsTaken
    <3>. QED  BY <1>3, <1>4, <3>2 DEF MoreTypes
  <2> DEFINE p == [block |-> l.block, from |-> l.ptr + l.cur, to |-> l.ptr + l.cur + n]
             k == [l EXCEPT !.cur = @ + n]
  <2>3. /\ p \in Piece /\ p.block = l.block /\ p.from = l.ptr + l.cur /\ p.to = l.ptr + l.cur + n
    BY <1>3, <2>1, <2>2 DEF Piece
  <2>4. /\ k \in Local /\ k.block = l.block /\ k.ptr = l.ptr /\ k.end = l.end /\ k.cur = l.cur + n
    BY <1>3, <2>1 DEF Local
  <2>5. /\ local' = [local EXCEPT ![t] = k] /\ handedOut' = handedOut \cup {p}
        /\ UNCHANGED <<pc, size>>
    BY <1>1, <1>5 DEF MoreTypes
  <2>6. /\ cur' \in [Blocks -> Nat] /\ \A b \in InUse : cur'[b] >= cur[b]
        /\ UNCHANGED reserveEnd
    BY <1>2, <1>4 DEF MoreTypes
  <2>7. /\ p.block \in InUse /\ p.from <= p.to /\ p.to <= cur'[p.block] /\ p.to <= reserveEnd[p.block]
    BY <1>2, <1>3, <1>5, <2>1, <2>2, <2>3
  <2>8. ASSUME NEW q \in handedOut, p.block = q.block
        PROVE  Apart(p, q) /\ (q.to <= k.ptr + k.cur \/ k.ptr + k.end <= q.from)
    <3>1. q.to <= l.ptr + l.cur \/ l.ptr + l.end <= q.from
      BY <2>3, <2>8 DEF LocalsTaken
    <3>2. q.to \in Nat /\ q.from \in Nat
      BY DEF MoreTypes, Piece
    <3>. HIDE DEF l, k, p
    <3>. QED  BY <1>3, <1>5, <2>1, <2>3, <2>4, <3>1, <3>2 DEF Apart
  <2>9. ASSUME NEW u \in Threads, u # t, p.block = local[u].block
        PROVE  p.to <= local[u].ptr + local[u].cur \/ local[u].ptr + local[u].end <= p.from
    <3>1. \/ l.ptr + l.end <= local[u].ptr
          \/ local[u].ptr + local[u].end <= l.ptr
      BY <2>2, <2>3, <2>9 DEF LocalsTaken
    <3>2. local[u].ptr \in Nat /\ local[u].cur \in Nat /\ local[u].end \in Nat
      BY DEF MoreTypes, Local
    <3>. HIDE DEF l, k, p
    <3>. QED  BY <1>3, <1>5, <2>1, <2>3, <3>1, <3>2
  <2>10. /\ k.block \in InUse /\ k.cur <= k.end
         /\ k.ptr + k.end <= cur'[k.block] /\ k.ptr + k.end <= reserveEnd[k.block]
    BY <1>2, <1>5, <2>2, <2>4
  <2>11. \A u \in Threads : u # t /\ k.block = local[u].block /\ k.block # Null =>
             k.ptr + k.end <= local[u].ptr \/ local[u].ptr + local[u].end <= k.ptr
    <3>1. \A u \in Threads : u # t /\ l.block = local[u].block /\ l.block # Null =>
              l.ptr + l.end <= local[u].ptr \/ local[u].ptr + local[u].end <= l.ptr
      BY DEF LocalsTaken
    <3>. HIDE DEF l, k
    <3>. QED  BY <2>4, <3>1
  <2>12. p.to <= k.ptr + k.cur
    BY <1>3, <2>1, <2>3, <2>4
  <2>13. \A q \in handedOut \cup {p} : q.block = k.block =>
             q.to <= k.ptr + k.cur \/ k.ptr + k.end <= q.from
    <3>. HIDE DEF l, k, p
    <3>. QED  BY <2>3, <2>4, <2>8, <2>12
  <2>14. PiecesTaken' /\ LocalsTaken' /\ local' \in [Threads -> Local] /\ handedOut' \subseteq Piece
    <3>1. \A q \in handedOut : p.block = q.block => Apart(p, q)
      BY <2>8
    <3>. HIDE DEF l, k, p
    <3>. QED  BY <1>4, <2>3, <2>4, <2>5, <2>6, <2>7, <2>9, <2>10, <2>11, <2>13, <3>1, TakenMore
  <2>15. MoreTypes'
    BY <1>2, <2>5, <2>14 DEF MoreTypes
  <2>16. Owners'
    BY <1>2, <2>5 DEF Owners
  <2>17. HeldInUse'
    BY <1>2, <1>4, <2>5 DEF HeldInUse, listVars
  <2>. QED  BY <1>4, <2>14, <2>15, <2>16, <2>17
<1>6. CASE ~ (l.cur + n <= l.end)
  <2>1. size' = [size EXCEPT ![t] = n] /\ Goto(t, "malloc") /\ UNCHANGED <<local, handedOut>>
    BY <1>1, <1>6
  <2>2. UNCHANGED <<blockVars, listVars, dropped, local, handedOut>>
    BY <1>2, <2>1 DEF blockVars
  <2>3. PiecesTaken' /\ LocalsTaken'
    BY <2>2, QuietStep
  <2>4. "malloc" \in Labels
    BY DEF Labels
  <2>5. Owners'
    BY <1>2, <2>1, <2>4, OwnersKept
  <2>6. pc' \in [Threads -> Labels]
    BY <2>1, <2>4, PcType
  <2>7. MoreTypes'
    BY <1>2, <1>3, <2>1, <2>6 DEF MoreTypes
  <2>8. HeldInUse'
    <3>1. \A s \in Slots : threadUsedBlocks'[s] \in InUse' \cup {Null}
      BY <1>2, <1>4 DEF HeldInUse, listVars
    <3>2. freeBlocks' = freeBlocks
      BY <1>2 DEF listVars
    <3>. QED  BY <1>2, <1>4, <2>1, <2>4, <3>1, <3>2, HeldStep
  <2>. QED  BY <1>4, <2>3, <2>5, <2>7, <2>8
<1>. QED  BY <1>5, <1>6

LEMMA BytesEnough ==
    ASSUME MoreTypes, NEW t \in Threads
    PROVE  size[t] \in Nat /\ Bytes(t) \in Nat /\ size[t] <= Bytes(t)
<1>1. size[t] \in Nat /\ allocBlockSize \in Nat
  BY SizesOfBlocks DEF MoreTypes
<1>. QED  BY <1>1 DEF Bytes, Small

LEMMA AddKeeps ==
    ASSUME AllocatorIndInv, NEW t \in Threads, Add(t)
    PROVE  AllocatorIndInv'
<1> USE DEF AllocatorIndInv
<1> DEFINE b == myUsedBlocks[t]
           i == cur[b]
           end == i + Bytes(t)
           p == [block |-> b, from |-> i, to |-> i + size[t]]
           own == [block |-> b, ptr |-> i, cur |-> size[t], end |-> Bytes(t)]
           l == IF Small(t) THEN own ELSE local[t]
<1>1. /\ pc[t] = "add" /\ cur' = [cur EXCEPT ![b] = end]
      /\ UNCHANGED <<allocEnd, reserveEnd, listVars, mutex, slotMutex, dropped>>
  BY DEF Add
<1>2. \/ Goto(t, "grow") /\ UNCHANGED <<local, handedOut, size, myUsedBlocks>>
      \/ /\ end <= reserveEnd[b] /\ Goto(t, "idle") /\ Forget({t})
         /\ handedOut' = handedOut \union {p}
         /\ local' = IF Small(t) THEN [local EXCEPT ![t] = own] ELSE local
      \/ Goto(t, "threw") /\ Forget({t}) /\ UNCHANGED <<local, handedOut>>
  BY DEF Add, Throw
<1>3. ListTypes' /\ ListsApart' /\ InUse' = InUse /\ InUse \subseteq Blocks
  BY <1>1, ListsKept, InUseAlive DEF ListTypes
<1>4. b \in InUse /\ b \in Blocks /\ b # Null
  BY <1>1, <1>3, AllocatorAssumption DEF HeldInUse
<1>5. /\ size[t] \in Nat /\ Bytes(t) \in Nat /\ size[t] <= Bytes(t)
      /\ i \in Nat /\ end \in Nat /\ reserveEnd[b] \in Nat
  BY <1>4, BytesEnough DEF MoreTypes
<1>6. /\ cur' \in [Blocks -> Nat] /\ cur'[b] = end
      /\ \A c \in InUse : cur'[c] \in Nat /\ cur'[c] >= cur[c]
  <2>1. cur' \in [Blocks -> Nat] /\ cur'[b] = end /\ \A c \in Blocks : c # b => cur'[c] = cur[c]
    BY <1>1, <1>4, <1>5 DEF MoreTypes
  <2>2. \A c \in Blocks : cur[c] \in Nat
    BY DEF MoreTypes
  <2>3. end >= cur[b]
    BY <1>5
  <2>. HIDE DEF b, end
  <2>. QED  BY <1>3, <2>1, <2>2, <2>3
<1>7. ASSUME NEW m \in {"grow", "threw"}, Goto(t, m), UNCHANGED <<local, handedOut>>,
             Forget({t}) \/ UNCHANGED <<size, myUsedBlocks>>
      PROVE  AllocatorIndInv'
  <2>1. /\ size' \in [Threads -> Nat] /\ myUsedBlocks' \in [Threads -> Blocks \cup {Null}]
        /\ \A u \in Threads : u # t => myUsedBlocks'[u] = myUsedBlocks[u]
    BY <1>7, ForgetTypes DEF MoreTypes
  <2>2. PiecesTaken' /\ LocalsTaken'
    BY <1>1, <1>3, <1>6, <1>7, TakenKept
  <2>3. m \in Labels
    BY DEF Labels
  <2>4. Owners'
    BY <1>1, <1>7, <2>3, OwnersKept
  <2>5. pc' \in [Threads -> Labels]
    BY <1>7, <2>3, PcType
  <2>6. MoreTypes'
    BY <1>1, <1>6, <1>7, <2>1, <2>5 DEF MoreTypes
  <2>7. HeldInUse'
    <3>1. \A s \in Slots : threadUsedBlocks'[s] \in InUse' \cup {Null}
      BY <1>1, <1>3 DEF HeldInUse, listVars
    <3>2. freeBlocks' = freeBlocks
      BY <1>1 DEF listVars
    <3>. QED  BY <1>3, <1>7, <2>1, <2>3, <3>1, <3>2, HeldStep
  <2>. QED  BY <1>3, <2>2, <2>4, <2>6, <2>7
<1>8. ASSUME end <= reserveEnd[b], Goto(t, "idle"), Forget({t}), handedOut' = handedOut \union {p},
             local' = IF Small(t) THEN [local EXCEPT ![t] = own] ELSE local
      PROVE  AllocatorIndInv'
  <2>1. /\ Goto(t, "idle") /\ Forget({t})
        /\ handedOut' = handedOut \union {p} /\ local' = [local EXCEPT ![t] = l]
    BY <1>8 DEF MoreTypes
  <2>2. p \in Piece /\ p.block = b /\ p.from = i /\ p.to = i + size[t]
    BY <1>4, <1>5 DEF Piece
  <2>3. own \in Local /\ own.block = b /\ own.ptr = i /\ own.cur = size[t] /\ own.end = Bytes(t)
    BY <1>4, <1>5 DEF Local
  <2>4. /\ l \in Local /\ local[t] \in Local
        /\ l = own \/ l = local[t]
    BY <2>3 DEF MoreTypes
  <2>5. /\ p.block \in InUse /\ p.from <= p.to /\ p.to <= cur'[p.block] /\ p.to <= reserveEnd[p.block]
    BY <1>4, <1>5, <1>6, <1>8, <2>2
  <2>6. ASSUME NEW q \in handedOut, p.block = q.block
        PROVE  Apart(p, q) /\ q.to <= i
    <3>1. q.to <= i /\ q.to \in Nat
      BY <2>2, <2>6 DEF PiecesTaken, MoreTypes, Piece
    <3>. QED  BY <2>2, <3>1 DEF Apart
  <2>7. ASSUME NEW u \in Threads, local[u].block = b
        PROVE  local[u].ptr + local[u].end <= i
    BY <1>4, <2>7 DEF LocalsTaken
  <2>8. \A u \in Threads : u # t /\ p.block = local[u].block =>
            p.to <= local[u].ptr + local[u].cur \/ local[u].ptr + local[u].end <= p.from
    <3>. HIDE DEF p
    <3>. QED  BY <2>2, <2>7
  <2>9. \/ l.block = Null /\ l.end = 0
        \/ /\ l.block \in InUse /\ l.cur <= l.end
           /\ l.ptr + l.end <= cur'[l.block] /\ l.ptr + l.end <= reserveEnd[l.block]
    <3>1. CASE l = own
      <4>1. /\ own.block \in InUse /\ own.cur <= own.end
            /\ own.ptr + own.end <= cur'[own.block] /\ own.ptr + own.end <= reserveEnd[own.block]
        BY <1>4, <1>5, <1>6, <1>8, <2>3
      <4>. HIDE DEF l, own
      <4>. QED  BY <3>1, <4>1
    <3>2. CASE l = local[t]
      <4> DEFINE k == local[t]
      <4>1. \/ k.block = Null /\ k.end = 0
            \/ /\ k.block \in InUse /\ k.cur <= k.end
               /\ k.ptr + k.end <= cur[k.block] /\ k.ptr + k.end <= reserveEnd[k.block]
        BY DEF LocalsTaken
      <4>2. k.ptr + k.end \in Nat /\ (k.block \in InUse => cur[k.block] \in Nat)
        BY <1>3 DEF MoreTypes, Local
      <4>3. l = k
        BY <3>2
      <4>. HIDE DEF l, k
      <4>. QED  BY <1>6, <4>1, <4>2, <4>3
    <3>. QED  BY <2>4, <3>1, <3>2
  <2>10. \A u \in Threads : u # t /\ l.block = local[u].block /\ l.block # Null =>
             l.ptr + l.end <= local[u].ptr \/ local[u].ptr + local[u].end <= l.ptr
    <3>1. CASE l = own
      <4>. HIDE DEF l, own
      <4>. QED  BY <2>3, <2>7, <3>1
    <3>2. CASE l = local[t]
      <4>1. \A u \in Threads : u # t /\ local[t].block = local[u].block /\ local[t].block # Null =>
                local[t].ptr + local[t].end <= local[u].ptr \/ local[u].ptr + local[u].end <= local[t].ptr
        BY DEF LocalsTaken
      <4>. HIDE DEF l
      <4>. QED  BY <3>2, <4>1
    <3>. QED  BY <2>4, <3>1, <3>2
  <2>11. ASSUME NEW q \in handedOut \cup {p}, q.block = l.block
         PROVE  q.to <= l.ptr + l.cur \/ l.ptr + l.end <= q.from
    <3>1. CASE l = own /\ q = p
      <4>1. p.to <= own.ptr + own.cur
        BY <1>5, <2>2, <2>3
      <4>. HIDE DEF l, own, p
      <4>. QED  BY <3>1, <4>1
    <3>2. CASE l = own /\ q \in handedOut
      <4>1. own.ptr + own.cur = i + size[t] /\ own.block = p.block
        BY <2>2, <2>3
      <4>2. q.to <= i /\ q.to \in Nat
        <5>. HIDE DEF l, own, p
        <5>. QED  BY <2>6, <2>11, <3>2, <4>1 DEF MoreTypes, Piece
      <4>3. q.to <= i + size[t]
        BY <1>5, <4>2
      <4>. HIDE DEF l, own, p
      <4>. QED  BY <3>2, <4>1, <4>3
    <3>3. CASE l = local[t] /\ q = p
      <4>. HIDE DEF l, own, p
      <4>. QED  BY <2>2, <2>7, <2>11, <3>3
    <3>4. CASE l = local[t] /\ q \in handedOut
      <4>. HIDE DEF l, own, p
      <4>. QED  BY <2>11, <3>4 DEF LocalsTaken
    <3>. HIDE DEF l, own, p
    <3>. QED  BY <2>4, <3>1, <3>2, <3>3, <3>4
  <2>12. PiecesTaken' /\ LocalsTaken' /\ local' \in [Threads -> Local] /\ handedOut' \subseteq Piece
    <3>1. \A q \in handedOut : p.block = q.block => Apart(p, q)
      BY <2>6
    <3>2. \A q \in handedOut \cup {p} : q.block = l.block =>
              q.to <= l.ptr + l.cur \/ l.ptr + l.end <= q.from
      BY <2>11
    <3>3. \A c \in InUse : cur'[c] >= cur[c]
      BY <1>6
    <3>4. UNCHANGED reserveEnd /\ cur' \in [Blocks -> Nat]
      BY <1>1, <1>6
    <3>. HIDE DEF l, own, p
    <3>. QED  BY <1>3, <2>1, <2>2, <2>4, <2>5, <2>8, <2>9, <2>10, <3>1, <3>2, <3>3, <3>4, TakenMore
  <2>13. "idle" \in Labels
    BY DEF Labels
  <2>14. Owners'
    BY <1>1, <2>1, <2>13, OwnersKept
  <2>15. pc' \in [Threads -> Labels]
    BY <2>1, <2>13, PcType
  <2>16. /\ size' \in [Threads -> Nat] /\ myUsedBlocks' \in [Threads -> Blocks \cup {Null}]
         /\ \A u \in Threads : u # t => myUsedBlocks'[u] = myUsedBlocks[u]
    BY <2>1, ForgetTypes
  <2>17. MoreTypes'
    BY <1>1, <1>6, <2>12, <2>15, <2>16 DEF MoreTypes
  <2>18. HeldInUse'
    <3>1. \A s \in Slots : threadUsedBlocks'[s] \in InUse' \cup {Null}
      BY <1>1, <1>3 DEF HeldInUse, listVars
    <3>2. freeBlocks' = freeBlocks
      BY <1>1 DEF listVars
    <3>. QED  BY <1>3, <2>1, <2>13, <2>16, <3>1, <3>2, HeldStep
  <2>. QED  BY <1>3, <2>12, <2>14, <2>17, <2>18
<1>. QED  BY <1>2, <1>7, <1>8

------------------------------------------------------------------------------
\* Between builds

\* No list of a slot is left.
LEMMA NoThreadBlocks ==
    ASSUME threadBlocks' = [s \in Slots |-> <<>>]
    PROVE  /\ Flat' = <<>> /\ \A S : threadBlocks' \in [Slots -> Seq(S)]
<1>1. numSlots \in Nat
  BY AllocatorAssumption
<1>2. Flat' = <<>>
  BY <1>1, FlattenEmpty DEF Flat, Slots
<1>3. \A S : <<>> \in Seq(S)
  BY EmptySeq
<1>. QED  BY <1>2, <1>3

\* No thread has a block of its own.
LEMMA NoLocals ==
    ASSUME local' = [t \in Threads |-> NoLocal]
    PROVE  /\ local' \in [Threads -> Local]
           /\ \A t \in Threads : local'[t].block = Null /\ local'[t].end = 0
<1>1. NoLocal \in Local /\ NoLocal.block = Null /\ NoLocal.end = 0
  BY DEF NoLocal, Local
<1>. HIDE DEF NoLocal
<1>. QED  BY <1>1

\* Nobody allocates: nobody is about to use what is held.
LEMMA IdleHolds ==
    ASSUME Idle, UNCHANGED pc, \A s \in Slots : threadUsedBlocks'[s] \in InUse' \cup {Null}
    PROVE  HeldInUse'
BY DEF Idle, HeldInUse

LEMMA ResetKeeps ==
    ASSUME AllocatorIndInv, Reset, Idle, UNCHANGED <<mutex, slotMutex, threadVars>>
    PROVE  AllocatorIndInv'
<1>1. ListTypes /\ Owners /\ MoreTypes /\ ListsApart /\ HeldInUse
  BY DEF AllocatorIndInv
<1>2. /\ usedBlocks' = <<>> /\ freeBlocks' = Reverse(usedBlocks) \o freeBlocks
      /\ threadBlocks' = [s \in Slots |-> <<>>] /\ threadUsedBlocks' = [s \in Slots |-> Null]
      /\ local' = [t \in Threads |-> NoLocal] /\ handedOut' = {}
      /\ dropped' = dropped \cup Range(Flat)
      /\ UNCHANGED <<reserveEnd, growSize, alive>>
  BY DEF Reset, Flat
<1>3. /\ usedBlocks \in Seq(alive) /\ freeBlocks \in Seq(alive) /\ Once(usedBlocks) /\ Once(freeBlocks)
      /\ Range(usedBlocks) \cap Range(freeBlocks) = {}
  BY <1>1 DEF ListTypes, ListsApart, InUse
<1>4. /\ freeBlocks' \in Seq(alive) /\ Once(freeBlocks')
      /\ Range(freeBlocks') = Range(usedBlocks) \cup Range(freeBlocks)
  <2> DEFINE u == Reverse(usedBlocks)
  <2>1. u \in Seq(alive) /\ Once(u) /\ Range(u) = Range(usedBlocks)
    BY <1>3, ReverseOnce
  <2>2. freeBlocks' = u \o freeBlocks
    BY <1>2
  <2>. HIDE DEF u
  <2>3. /\ u \o freeBlocks \in Seq(alive) /\ Range(u \o freeBlocks) = Range(u) \cup Range(freeBlocks)
        /\ Once(u \o freeBlocks)
    BY <1>3, <2>1, ConcatOnce
  <2>. QED  BY <2>1, <2>2, <2>3
<1>5. Flat' = <<>> /\ \A S : threadBlocks' \in [Slots -> Seq(S)]
  BY <1>2, NoThreadBlocks
<1>6. Range(usedBlocks') = {} /\ Range(Flat') = {} /\ InUse' = {} /\ Once(usedBlocks') /\ Once(Flat')
  BY <1>2, <1>5, EmptyOnce DEF InUse
<1>7. ListsApart'
  <2>1. Range(Flat) \subseteq alive
    BY <1>1, FlatType
  <2>2. Range(freeBlocks') = alive \ dropped'
    BY <1>1, <1>2, <1>4 DEF ListsApart, InUse
  <2>3. IsFiniteSet(alive') /\ dropped' \subseteq alive'
    BY <1>1, <1>2, <2>1 DEF ListsApart
  <2>. QED  BY <1>2, <1>4, <1>6, <2>2, <2>3 DEF ListsApart, Once
<1>8. ListTypes'
  <2>1. usedBlocks' \in Seq(alive')
    BY <1>2, EmptySeq
  <2>. QED  BY <1>1, <1>2, <1>4, <1>5, <2>1 DEF ListTypes
<1>9. local' \in [Threads -> Local] /\ \A t \in Threads : local'[t].block = Null /\ local'[t].end = 0
  BY <1>2, NoLocals
<1>10. PiecesTaken' /\ LocalsTaken'
  BY <1>2, <1>9 DEF PiecesTaken, LocalsTaken
<1>11. cur' \in [Blocks -> Nat] /\ allocEnd' \in [Blocks -> Nat]
  <2>1. \A b \in Blocks : cur[b] \in Nat /\ allocEnd[b] \in Nat
    BY <1>1 DEF MoreTypes
  <2>2. \A b \in Blocks : Max({allocEnd[b], cur[b]}) \in Nat
    BY <2>1, MaxMinOfTwo
  <2>. QED  BY <2>1, <2>2 DEF Reset
<1>12. MoreTypes'
  BY <1>1, <1>2, <1>9, <1>11 DEF MoreTypes, threadVars
<1>13. Owners'
  BY <1>1 DEF Owners, threadVars
<1>14. HeldInUse'
  BY <1>2, IdleHolds DEF threadVars
<1>. QED  BY <1>7, <1>8, <1>10, <1>12, <1>13, <1>14 DEF AllocatorIndInv

LEMMA BeginBuildKeeps ==
    ASSUME AllocatorIndInv, BeginBuild
    PROVE  AllocatorIndInv'
<1>1. ListTypes /\ Owners /\ MoreTypes /\ ListsApart /\ HeldInUse
  BY DEF AllocatorIndInv
<1>2. Idle /\ UNCHANGED <<mutex, slotMutex, threadVars>> /\ UNCHANGED <<pc, size, myUsedBlocks>>
  BY DEF BeginBuild, threadVars
<1>3. Owners'
  BY <1>1, <1>2 DEF Owners
<1>4. CASE usedBlocks # <<>> \/ freeBlocks # <<>>
  BY <1>2, <1>4, ResetKeeps DEF BeginBuild
<1>5. ASSUME freeBlocks = <<>>, NEW b \in Blocks, Create(b, bytesAllocate, bytesReserve), freeBlocks' = <<b>>,
             growSize' = Max({allocBlockSize, bytesReserve}),
             UNCHANGED <<usedBlocks, threadBlocks, threadUsedBlocks, local, handedOut, dropped>>
      PROVE  AllocatorIndInv'
  <2>1. freeBlocks' = <<b>> \o freeBlocks
    BY <1>5, EmptySeq
  <2>2. growSize' \in allocBlockSize .. Max({maxAllocationSize, bytesReserve})
    <3>1. /\ allocBlockSize \in Nat /\ bytesReserve \in Nat /\ allocBlockSize <= maxAllocationSize
          /\ maxAllocationSize \in Nat
          /\ Max({maxAllocationSize, bytesReserve}) \in Nat
          /\ Max({maxAllocationSize, bytesReserve}) >= maxAllocationSize
          /\ Max({maxAllocationSize, bytesReserve}) >= bytesReserve
      BY SizesOfBlocks
    <3>2. growSize' = IF allocBlockSize >= bytesReserve THEN allocBlockSize ELSE bytesReserve
      BY <1>5, <3>1, MaxMinOfTwo
    <3>. QED  BY <3>1, <3>2
  <2>3. bytesAllocate \in Nat /\ bytesReserve \in Nat
    BY SizesOfBlocks
  <2>4. threadUsedBlocks' \in [Slots -> Blocks \cup {Null}]
    BY <1>1, <1>5 DEF ListTypes
  <2>5. /\ ListTypes' /\ ListsApart' /\ InUse \subseteq InUse' /\ PiecesTaken' /\ LocalsTaken'
        /\ cur' \in [Blocks -> Nat] /\ allocEnd' \in [Blocks -> Nat] /\ reserveEnd' \in [Blocks -> Nat]
        /\ local' \in [Threads -> Local] /\ handedOut' \subseteq Piece
    BY <1>5, <2>1, <2>2, <2>3, <2>4, CreatedInFront
  <2>6. MoreTypes'
    BY <1>1, <1>2, <2>5 DEF MoreTypes
  <2>7. HeldInUse'
    <3>1. \A s \in Slots : threadUsedBlocks'[s] \in InUse' \cup {Null}
      BY <1>1, <1>5, <2>5 DEF HeldInUse
    <3>. QED  BY <1>2, <3>1, IdleHolds
  <2>. QED  BY <1>3, <2>5, <2>6, <2>7 DEF AllocatorIndInv
<1>6. ASSUME growSize' = allocBlockSize,
             UNCHANGED <<blockVars, usedBlocks, freeBlocks, threadBlocks, threadUsedBlocks,
                         alive, local, handedOut, dropped>>
      PROVE  AllocatorIndInv'
  <2>1. growSize' \in allocBlockSize .. Max({maxAllocationSize, bytesReserve})
    <3>1. /\ allocBlockSize \in Nat /\ maxAllocationSize \in Nat /\ allocBlockSize <= maxAllocationSize
          /\ Max({maxAllocationSize, bytesReserve}) \in Nat
          /\ Max({maxAllocationSize, bytesReserve}) >= maxAllocationSize
      BY SizesOfBlocks
    <3>. QED  BY <1>6, <3>1
  <2>2. /\ ListTypes' /\ ListsApart' /\ InUse' = InUse /\ PiecesTaken' /\ LocalsTaken'
        /\ cur' \in [Blocks -> Nat] /\ allocEnd' \in [Blocks -> Nat] /\ reserveEnd' \in [Blocks -> Nat]
        /\ local' \in [Threads -> Local] /\ handedOut' \subseteq Piece
    BY <1>6, <2>1, OnlyGrowSize
  <2>3. MoreTypes'
    BY <1>1, <1>2, <2>2 DEF MoreTypes
  <2>4. HeldInUse'
    <3>1. \A s \in Slots : threadUsedBlocks'[s] \in InUse' \cup {Null}
      BY <1>1, <1>6, <2>2 DEF HeldInUse
    <3>. QED  BY <1>2, <3>1, IdleHolds
  <2>. QED  BY <1>3, <2>2, <2>3, <2>4 DEF AllocatorIndInv
<1>. QED  BY <1>4, <1>5, <1>6 DEF BeginBuild

LEMMA SpecialAllocKeeps ==
    ASSUME AllocatorIndInv, SpecialAlloc
    PROVE  AllocatorIndInv'
<1>1. ListTypes /\ Owners /\ MoreTypes /\ HeldInUse
  BY DEF AllocatorIndInv
<1>2. /\ Idle
      /\ UNCHANGED <<usedBlocks, threadBlocks, threadUsedBlocks, growSize, mutex, slotMutex, local,
                     handedOut, dropped>>
      /\ UNCHANGED <<pc, size, myUsedBlocks>>
  BY DEF SpecialAlloc, threadVars
<1>3. PICK b \in Blocks : Create(b, Special, Special) /\ freeBlocks' = <<b>> \o freeBlocks
  BY DEF SpecialAlloc
<1>4. /\ ListTypes' /\ ListsApart' /\ InUse \subseteq InUse' /\ PiecesTaken' /\ LocalsTaken'
      /\ cur' \in [Blocks -> Nat] /\ allocEnd' \in [Blocks -> Nat] /\ reserveEnd' \in [Blocks -> Nat]
      /\ local' \in [Threads -> Local] /\ handedOut' \subseteq Piece
  <2>1. /\ Special \in Nat
        /\ growSize' \in allocBlockSize .. Max({maxAllocationSize, bytesReserve})
        /\ threadUsedBlocks' \in [Slots -> Blocks \cup {Null}]
    BY <1>1, <1>2, SizesOfBlocks DEF ListTypes
  <2>. QED  BY <1>2, <1>3, <2>1, CreatedInFront
<1>5. MoreTypes'
  BY <1>1, <1>2, <1>4 DEF MoreTypes
<1>6. HeldInUse'
  <2>1. \A s \in Slots : threadUsedBlocks'[s] \in InUse' \cup {Null}
    BY <1>1, <1>2, <1>4 DEF HeldInUse
  <2>. QED  BY <1>2, <2>1, IdleHolds
<1>7. Owners'
  BY <1>1, <1>2 DEF Owners
<1>. QED  BY <1>4, <1>5, <1>6, <1>7 DEF AllocatorIndInv

\* The lists of the slots put in front of the used blocks
LEMMA MovedOnce ==
    ASSUME ListTypes, ListsApart
    PROVE  Moved \in Seq(alive) /\ Range(Moved) = InUse /\ Once(Moved)
<1> DEFINE r == Reverse(Flat)
<1>1. Flat \in Seq(alive) /\ usedBlocks \in Seq(alive)
  BY FlatType DEF ListTypes
<1>2. r \in Seq(alive) /\ Range(r) = Range(Flat) /\ Once(r)
  BY <1>1, ReverseOnce DEF ListsApart
<1>3. Moved = r \o usedBlocks
  BY DEF Moved, Flat
<1>. HIDE DEF r
<1>4. Range(r) \cap Range(usedBlocks) = {} /\ Once(usedBlocks)
  BY <1>2 DEF ListsApart
<1>5. r \o usedBlocks \in Seq(alive) /\ Range(r \o usedBlocks) = Range(r) \cup Range(usedBlocks) /\ Once(r \o usedBlocks)
  BY <1>1, <1>2, <1>4, ConcatOnce
<1>. QED  BY <1>2, <1>3, <1>5 DEF InUse

LEMMA EndBuildKeeps ==
    ASSUME AllocatorIndInv, EndBuild
    PROVE  AllocatorIndInv'
<1>1. ListTypes /\ Owners /\ MoreTypes /\ ListsApart /\ HeldInUse /\ PiecesTaken
  BY DEF AllocatorIndInv
<1>2. /\ Idle /\ usedBlocks' = Moved /\ threadBlocks' = [s \in Slots |-> <<>>]
      /\ local' = [t \in Threads |-> NoLocal]
      /\ UNCHANGED <<threadUsedBlocks, growSize, mutex, slotMutex, handedOut, dropped>>
      /\ UNCHANGED <<pc, size, myUsedBlocks>>
  BY DEF EndBuild, Cleanup, threadVars
<1>3. Moved \in Seq(alive) /\ Range(Moved) = InUse /\ Once(Moved)
  BY <1>1, MovedOnce
<1>4. Flat' = <<>> /\ \A S : threadBlocks' \in [Slots -> Seq(S)]
  BY <1>2, NoThreadBlocks
<1>5. Range(Flat') = {} /\ Once(Flat') /\ InUse' = InUse /\ Range(usedBlocks') = InUse /\ Once(usedBlocks')
  BY <1>2, <1>3, <1>4, EmptyOnce DEF InUse
<1>6. InUse \subseteq alive /\ InUse \subseteq Blocks /\ Range(freeBlocks) \subseteq alive
  BY <1>1, InUseAlive DEF ListTypes
<1>7. /\ alive' \subseteq alive /\ IsFiniteSet(alive') /\ dropped' \subseteq alive'
      /\ freeBlocks' \in Seq(alive') /\ Once(freeBlocks') /\ InUse \subseteq alive'
      /\ InUse \cup Range(freeBlocks') = alive' \ dropped' /\ InUse \cap Range(freeBlocks') = {}
  <2>1. CASE UNCHANGED <<blockVars, freeBlocks, alive>>
    BY <1>1, <1>2, <1>6, <2>1 DEF ListsApart, ListTypes, Once
  <2>2. CASE Shrink
    <3>1. freeBlocks' = <<>> /\ alive' = alive \ Range(freeBlocks)
      BY <2>2 DEF Shrink
    <3>2. IsFiniteSet(alive')
      BY <1>1, <3>1, FS_Difference DEF ListsApart
    <3>3. freeBlocks' \in Seq(alive') /\ Once(freeBlocks') /\ Range(freeBlocks') = {}
      BY <3>1, EmptySeq, EmptyOnce
    <3>. QED  BY <1>1, <1>2, <1>6, <3>1, <3>2, <3>3 DEF ListsApart
  <2>. QED  BY <2>1, <2>2 DEF EndBuild
<1>8. usedBlocks' \in Seq(alive')
  <2>1. Moved \in Seq(InUse)
    BY <1>3, SeqOfRange
  <2>2. Moved \in Seq(alive')
    <3> DEFINE A == alive'
               s == Moved
    <3>1. s \in Seq(InUse) /\ InUse \subseteq A
      BY <1>7, <2>1
    <3>. HIDE DEF A, s
    <3>2. s \in Seq(A)
      BY <3>1, SeqMonotonic
    <3>. QED  BY <3>2 DEF A, s
  <2>. QED  BY <1>2, <2>2
<1>9. ListTypes'
  <2>1. threadBlocks' \in [Slots -> Seq(alive')]
    BY <1>4
  <2>. QED  BY <1>1, <1>2, <1>7, <1>8, <2>1 DEF ListTypes
<1>10. ListsApart'
  BY <1>5, <1>7 DEF ListsApart, Once
<1>11. local' \in [Threads -> Local] /\ \A t \in Threads : local'[t].block = Null /\ local'[t].end = 0
  BY <1>2, NoLocals
<1>12. /\ cur' = cur /\ allocEnd' \in [Blocks -> Nat] /\ reserveEnd' \in [Blocks -> Nat]
       /\ \A b \in Blocks : reserveEnd'[b] = reserveEnd[b]
                            \/ reserveEnd'[b] = Min({cur[b], reserveEnd[b]})
  <2>1. CASE UNCHANGED <<blockVars, freeBlocks, alive>>
    BY <1>1, <2>1 DEF MoreTypes, blockVars
  <2>2. CASE Shrink
    <3>1. \A b \in Blocks : cur[b] \in Nat /\ allocEnd[b] \in Nat /\ reserveEnd[b] \in Nat
      BY <1>1 DEF MoreTypes
    <3>2. \A b \in Blocks : Min({cur[b], reserveEnd[b]}) \in Nat
      BY <3>1, MaxMinOfTwo
    <3>. QED  BY <2>2, <3>1, <3>2 DEF Shrink
  <2>. QED  BY <2>1, <2>2 DEF EndBuild
<1>13. PiecesTaken'
  <2>1. ASSUME NEW p \in handedOut
        PROVE  /\ p.block \in InUse' /\ p.from <= p.to
               /\ p.to <= cur'[p.block] /\ p.to <= reserveEnd'[p.block]
    <3>1. /\ p.block \in InUse /\ p.from <= p.to
          /\ p.to <= cur[p.block] /\ p.to <= reserveEnd[p.block]
      BY <1>1 DEF PiecesTaken
    <3>2. p.block \in Blocks /\ cur[p.block] \in Nat /\ reserveEnd[p.block] \in Nat
      BY <1>1, <1>6, <3>1 DEF MoreTypes
    <3>3. Min({cur[p.block], reserveEnd[p.block]})
          = IF cur[p.block] <= reserveEnd[p.block] THEN cur[p.block] ELSE reserveEnd[p.block]
      BY <3>2, MaxMinOfTwo
    <3>4. p.to <= reserveEnd'[p.block]
      BY <1>12, <3>1, <3>2, <3>3
    <3>. QED  BY <1>5, <1>12, <3>1, <3>4
  <2>. QED  BY <1>1, <1>2, <2>1 DEF PiecesTaken, Apart
<1>14. LocalsTaken'
  <2>1. \A p \in handedOut' : p.block # Null
    <3>1. \A p \in handedOut : p.block \in Blocks
      BY <1>1 DEF MoreTypes, Piece
    <3>. QED  BY <1>2, <3>1, AllocatorAssumption
  <2>. QED  BY <1>11, <2>1 DEF LocalsTaken
<1>15. MoreTypes'
  BY <1>1, <1>2, <1>11, <1>12 DEF MoreTypes
<1>16. Owners'
  BY <1>1, <1>2 DEF Owners
<1>17. HeldInUse'
  <2>1. \A s \in Slots : threadUsedBlocks'[s] \in InUse' \cup {Null}
    BY <1>1, <1>2, <1>5 DEF HeldInUse
  <2>. QED  BY <1>2, <2>1, IdleHolds
<1>. QED  BY <1>9, <1>10, <1>13, <1>14, <1>15, <1>16, <1>17 DEF AllocatorIndInv

LEMMA ClearKeeps ==
    ASSUME AllocatorIndInv, Clear
    PROVE  AllocatorIndInv'
<1>1. ListTypes /\ Owners /\ MoreTypes /\ ListsApart
  BY DEF AllocatorIndInv
<1>2. /\ \A t \in Threads : pc[t] \in {"idle", "threw"}
      /\ pc' = [t \in Threads |-> "idle"] /\ Forget(Threads)
      /\ usedBlocks' = <<>> /\ freeBlocks' = <<>> /\ threadBlocks' = [s \in Slots |-> <<>>]
      /\ threadUsedBlocks' = [s \in Slots |-> Null]
      /\ local' = [t \in Threads |-> NoLocal] /\ handedOut' = {}
      /\ alive' = alive \ Range(Moved \o freeBlocks)
      /\ UNCHANGED <<cur, allocEnd, reserveEnd, growSize, mutex, slotMutex, dropped>>
  BY DEF Clear, Cleanup, blockVars
<1>3. alive' = dropped
  <2> DEFINE m == Moved
  <2>1. m \in Seq(alive) /\ Range(m) = InUse /\ freeBlocks \in Seq(alive)
    BY <1>1, MovedOnce DEF ListTypes
  <2>2. alive' = alive \ Range(m \o freeBlocks)
    BY <1>2
  <2>. HIDE DEF m
  <2>3. Range(m \o freeBlocks) = InUse \cup Range(freeBlocks)
    BY <2>1, RangeConcatenation
  <2>. QED  BY <1>1, <2>2, <2>3 DEF ListsApart
<1>4. Flat' = <<>> /\ \A S : threadBlocks' \in [Slots -> Seq(S)]
  BY <1>2, NoThreadBlocks
<1>5. /\ Range(Flat') = {} /\ Range(usedBlocks') = {} /\ Range(freeBlocks') = {} /\ InUse' = {}
      /\ Once(Flat') /\ Once(usedBlocks') /\ Once(freeBlocks')
  BY <1>2, <1>4, EmptyOnce DEF InUse
<1>6. IsFiniteSet(alive') /\ alive' \subseteq alive
  BY <1>1, <1>3, FS_Subset DEF ListsApart
<1>7. ListsApart'
  BY <1>2, <1>3, <1>5, <1>6 DEF ListsApart, Once
<1>8. ListTypes'
  <2>1. threadBlocks' \in [Slots -> Seq(alive')] /\ <<>> \in Seq(alive')
    BY <1>4, EmptySeq
  <2>. QED  BY <1>1, <1>2, <1>6, <2>1 DEF ListTypes
<1>9. local' \in [Threads -> Local] /\ \A t \in Threads : local'[t].block = Null /\ local'[t].end = 0
  BY <1>2, NoLocals
<1>10. PiecesTaken' /\ LocalsTaken'
  BY <1>2, <1>9 DEF PiecesTaken, LocalsTaken
<1>11. MoreTypes'
  BY <1>1, <1>2, <1>9 DEF MoreTypes, Forget, Labels
<1>12. Owners'
  BY <1>1, <1>2 DEF Owners
<1>13. HeldInUse'
  BY <1>2 DEF HeldInUse
<1>. QED  BY <1>7, <1>8, <1>10, <1>11, <1>12, <1>13 DEF AllocatorIndInv

------------------------------------------------------------------------------
LEMMA InitHolds ==
    ASSUME Init
    PROVE  AllocatorIndInv
<1>1. /\ usedBlocks = <<>> /\ freeBlocks = <<>> /\ threadBlocks = [s \in Slots |-> <<>>]
      /\ alive = {} /\ dropped = {} /\ handedOut = {} /\ local = [t \in Threads |-> NoLocal]
      /\ threadUsedBlocks = [s \in Slots |-> Null] /\ growSize = allocBlockSize
  BY DEF Init
<1>2. Flat = <<>>
  BY <1>1, FlattenEmpty, AllocatorAssumption DEF Flat, Slots
<1>3. /\ Range(<<>>) = {} /\ Once(<<>>) /\ <<>> \in Seq({})
  BY EmptyOnce, EmptySeq
<1>4. InUse = {}
  BY <1>1, <1>2, <1>3 DEF InUse
<1>5. ListTypes
  <2>1. growSize \in allocBlockSize .. Max({maxAllocationSize, bytesReserve})
    <3>1. /\ allocBlockSize \in Nat /\ maxAllocationSize \in Nat /\ allocBlockSize <= maxAllocationSize
          /\ Max({maxAllocationSize, bytesReserve}) \in Nat
          /\ Max({maxAllocationSize, bytesReserve}) >= maxAllocationSize
      BY SizesOfBlocks
    <3>. QED  BY <1>1, <3>1
  <2>. QED  BY <1>1, <1>3, <2>1 DEF ListTypes
<1>6. ListsApart
  <2>1. IsFiniteSet(alive)
    BY <1>1, FS_EmptySet
  <2>. QED  BY <1>1, <1>2, <1>3, <1>4, <2>1 DEF ListsApart
<1>7. NoLocal \in Local /\ NoLocal.block = Null /\ NoLocal.end = 0
  BY DEF NoLocal, Local
<1>8. /\ local \in [Threads -> Local] /\ \A t \in Threads : local[t].block = Null /\ local[t].end = 0
  BY <1>1, <1>7
<1>9. MoreTypes
  BY <1>1, <1>8 DEF Init, MoreTypes, Labels
<1>10. Owners
  <2>1. slotOf \in [Threads -> Slots] /\ Null \notin Threads
    BY AllocatorAssumption
  <2>. QED  BY <2>1 DEF Init, Owners
<1>11. HeldInUse
  BY <1>1 DEF HeldInUse, Init
<1>12. PiecesTaken /\ LocalsTaken
  BY <1>1, <1>8 DEF PiecesTaken, LocalsTaken
<1>. QED  BY <1>5, <1>6, <1>9, <1>10, <1>11, <1>12 DEF AllocatorIndInv

LEMMA StepKeeps ==
    ASSUME AllocatorIndInv, [Next]_<<vars, flags>>
    PROVE  AllocatorIndInv'
<1>1. CASE UNCHANGED vars
  <2>1. UNCHANGED <<blockVars, listVars, dropped, local, handedOut, mutex, slotMutex, pc, size, myUsedBlocks>>
    BY <1>1 DEF vars, threadVars
  <2>2. /\ ListTypes' /\ ListsApart' /\ InUse' = InUse /\ PiecesTaken' /\ LocalsTaken'
        /\ cur' \in [Blocks -> Nat] /\ allocEnd' \in [Blocks -> Nat] /\ reserveEnd' \in [Blocks -> Nat]
        /\ local' \in [Threads -> Local] /\ handedOut' \subseteq Piece
    BY <2>1, QuietStep
  <2>3. Owners' /\ MoreTypes' /\ HeldInUse'
    BY <2>1, <2>2 DEF AllocatorIndInv, Owners, MoreTypes, HeldInUse, listVars
  <2>. QED  BY <2>2, <2>3 DEF AllocatorIndInv
<1>2. CASE BeginBuild
  BY <1>2, BeginBuildKeeps
<1>3. CASE SpecialAlloc
  BY <1>3, SpecialAllocKeeps
<1>4. CASE ResetAgain
  BY <1>4, ResetKeeps DEF ResetAgain
<1>5. CASE EndBuild
  BY <1>5, EndBuildKeeps
<1>6. CASE Clear
  BY <1>6, ClearKeeps
<1>7. ASSUME NEW t \in Threads,
             \/ LocalMalloc(t) \/ Malloc(t) \/ Add(t) \/ Grow(t) \/ LockSlot(t) \/ CreateInSlot(t)
             \/ Lock(t) \/ TakeFree(t) \/ CreateUsed(t)
      PROVE  AllocatorIndInv'
  BY <1>7, LocalMallocKeeps, MallocKeeps, AddKeeps, GrowKeeps, LockSlotKeeps, CreateInSlotKeeps,
     LockKeeps, TakeFreeKeeps, CreateUsedKeeps
<1>. QED  BY <1>1, <1>2, <1>3, <1>4, <1>5, <1>6, <1>7 DEF Next, Step

LEMMA InvGives ==
    ASSUME AllocatorIndInv
    PROVE  AllocatorInv
<1>1. ListTypes /\ Owners /\ MoreTypes /\ ListsApart /\ HeldInUse /\ PiecesTaken
  BY DEF AllocatorIndInv
<1>2. TypeOK
  BY <1>1, TypeParts
<1>3. BlocksListed
  BY <1>1, ListedFromApart
<1>4. PiecesApart
  BY <1>1, InUseAlive DEF PiecesTaken, PiecesApart, Apart
<1>5. CurrentInUse
  <2>1. usedBlocks \in Seq(alive) /\ Flat \in Seq(alive)
    BY <1>1, FlatType DEF ListTypes
  <2>2. Range(usedBlocks \o Flat) = InUse
    BY <2>1, RangeConcatenation DEF InUse
  <2>. QED  BY <1>1, <2>2 DEF CurrentInUse, HeldInUse, Flat
<1>. QED  BY <1>2, <1>3, <1>4, <1>5 DEF AllocatorInv

\* Whatever the number of threads, slots and blocks and their sizes, and whichever way threads take
\* from shared blocks, get new ones, fail, end a build, reset or clear: pieces never overlap nor leave
\* their block, each block the system gave is in one list once, and what a slot uses is in use.
THEOREM AllocatorInvInvariant == Spec => []AllocatorInv
<1>1. Init => AllocatorIndInv
  BY InitHolds
<1>2. AllocatorIndInv /\ [Next]_<<vars, flags>> => AllocatorIndInv'
  BY StepKeeps
<1>3. AllocatorIndInv => AllocatorInv
  BY InvGives
<1>. QED  BY <1>1, <1>2, <1>3, PTL DEF Spec

================================================================================
