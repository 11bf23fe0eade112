------------------------- MODULE GuiBuffers_proofs -------------------------
(***************************************************************************)
(* Proofs about GuiBuffers, for any buffers, windows and layout.           *)
(*                                                                         *)
(* The invariant is Safe, of the data that a command finds and leaves.     *)
(* Each function of gui-buffer.c is a lemma on any such data, not on the   *)
(* state: it keeps Good, as the commands compose the functions (a close    *)
(* unmerges, an insertion merges, a layout does both for every buffer).    *)
(*                                                                         *)
(* The loops of the module are functions defined by recursion; that they   *)
(* have values is Loop, below, and what a loop has done after n steps is   *)
(* an induction up to the length of the list, by UpTo.                     *)
(***************************************************************************)
EXTENDS GuiBuffers, SequenceTheorems, FiniteSetTheorems, WellFoundedInduction, TLAPS

-----------------------------------------------------------------------------
(* Induction up to a number, and the loops over a list                     *)

(***************************************************************************)
(* A set of numbers has a least one; so a set with 0 that is closed by + 1 *)
(* has all numbers.  Both are proved here as the library's induction takes *)
(* an operator.                                                            *)
(***************************************************************************)
LEMMA LeastElement ==
  ASSUME NEW S \in SUBSET Nat, S # {}
  PROVE  \E x \in S : \A y \in S : ~(y < x)
  <1> DEFINE R == OpToRel(<, Nat)
  <1>1. IsWellFoundedOn(R, Nat)
    BY NatLessThanWellFounded
  <1>2. \A x, y \in Nat : y < x => <<y, x>> \in R
    BY DEF OpToRel
  <1> HIDE DEF R
  <1>3. \E x \in S : \A y \in S : ~ (<<y, x>> \in R)
    BY <1>1, WFMin
  <1>4. QED
    BY <1>2, <1>3

LEMMA SetInduction ==
  ASSUME NEW S \in SUBSET Nat, 0 \in S, \A n \in S : n + 1 \in S
  PROVE  S = Nat
  <1>1. SUFFICES ASSUME Nat \ S # {} PROVE FALSE
    OBVIOUS
  <1>2. PICK x \in Nat \ S : \A y \in Nat \ S : ~(y < x)
    BY <1>1, LeastElement
  <1>3. x # 0
    BY <1>2
  <1>4. x - 1 \in Nat /\ x - 1 < x /\ (x - 1) + 1 = x
    BY <1>3
  <1>5. x - 1 \in S
    BY <1>2, <1>4
  <1>6. QED
    BY <1>2, <1>4, <1>5

(***************************************************************************)
(* The induction up to a bound that a loop over a sequence calls for.      *)
(***************************************************************************)
LEMMA UpTo ==
  ASSUME NEW N \in Nat, NEW S, 0 \in S,
         \A n \in 0 .. N - 1 : n \in S => n + 1 \in S
  PROVE  N \in S
  <1> DEFINE R == {n \in Nat : n <= N => n \in S}
  <1>1. R \in SUBSET Nat /\ 0 \in R
    OBVIOUS
  <1>2. ASSUME NEW n \in R PROVE n + 1 \in R
    <2>1. CASE n + 1 <= N
      <3>1. n \in 0 .. N - 1 /\ n \in S
        BY <2>1
      <3>2. QED
        BY <3>1
    <2>2. CASE ~(n + 1 <= N)
      BY <2>2
    <2>3. QED
      BY <2>1, <2>2
  <1> HIDE DEF R
  <1>3. N \in R
    BY <1>1, <1>2, SetInduction
  <1>4. QED
    BY <1>3 DEF R

(***************************************************************************)
(* The four loops of the module, by their kind: one step from the value x  *)
(* that the loop has so far, at the element b, with the parameter p.       *)
(***************************************************************************)
LoopStep(kind, p, x, b) ==
  IF kind = "keep" THEN IF b \in p THEN Append(x, b) ELSE x
  ELSE IF kind = "unmerge" THEN Unmerge(x, b, 0)
  ELSE IF kind = "insert" THEN Insert(x, b, p)
  ELSE IF Leads(x, b) THEN SetActive(x, b) ELSE x

LoopValue(kind, p, a, s, f, i) ==
  IF i = 0 THEN a ELSE LoopStep(kind, p, f[i - 1], s[i])

IsLoop(kind, p, a, s, f, n) ==
  f = [i \in 0 .. n |-> LoopValue(kind, p, a, s, f, i)]

(***************************************************************************)
(* The recursion of a loop has a solution.                                 *)
(***************************************************************************)
LEMMA LoopLonger ==
  ASSUME NEW kind, NEW p, NEW a, NEW s, NEW n \in Nat, NEW f,
         IsLoop(kind, p, a, s, f, n)
  PROVE  \E g : IsLoop(kind, p, a, s, g, n + 1)
  <1> DEFINE V(h, i) == LoopValue(kind, p, a, s, h, i)
             g == [i \in 0 .. n + 1 |-> IF i = n + 1 THEN V(f, i) ELSE f[i]]
  <1>1. \A i \in 0 .. n : f[i] = V(f, i)
    BY DEF IsLoop
  <1>2. \A i \in 0 .. n : g[i] = f[i]
    OBVIOUS
  <1>3. g[n + 1] = V(f, n + 1)
    OBVIOUS
  <1>6. g = [i \in 0 .. n + 1 |-> g[i]]
    OBVIOUS
  <1> HIDE DEF g
  <1>4. ASSUME NEW i \in 0 .. n + 1 PROVE V(g, i) = V(f, i)
    <2>1. CASE i = 0
      BY <2>1 DEF LoopValue
    <2>2. CASE i # 0
      <3>1. i - 1 \in 0 .. n
        BY <2>2
      <3>2. g[i - 1] = f[i - 1]
        BY <1>2, <3>1
      <3>3. QED
        BY <3>2 DEF LoopValue
    <2>3. QED
      BY <2>1, <2>2
  <1>5. ASSUME NEW i \in 0 .. n + 1 PROVE g[i] = V(g, i)
    <2>1. CASE i = n + 1
      BY <1>3, <1>4, <2>1
    <2>2. CASE i # n + 1
      <3>1. i \in 0 .. n
        BY <2>2
      <3>2. g[i] = f[i] /\ f[i] = V(f, i) /\ V(g, i) = V(f, i)
        BY <1>1, <1>2, <1>4, <3>1
      <3>3. QED
        BY <3>2
    <2>3. QED
      BY <2>1, <2>2
  <1> HIDE DEF V
  <1>7. g = [i \in 0 .. n + 1 |-> V(g, i)]
    BY <1>5, <1>6
  <1>8. IsLoop(kind, p, a, s, g, n + 1)
    BY <1>7 DEF IsLoop, V
  <1>9. QED
    BY <1>8

LEMMA LoopExists ==
  ASSUME NEW kind, NEW p, NEW a, NEW s, NEW n \in Nat
  PROVE  \E f : IsLoop(kind, p, a, s, f, n)
  <1> DEFINE S == {k \in Nat : \E f : IsLoop(kind, p, a, s, f, k)}
  <1>1. 0 \in S
    <2> DEFINE g == [i \in 0 .. 0 |-> a]
    <2>1. \A i \in 0 .. 0 : LoopValue(kind, p, a, s, g, i) = a
      BY DEF LoopValue
    <2>2. g = [i \in 0 .. 0 |-> LoopValue(kind, p, a, s, g, i)]
      BY <2>1
    <2> HIDE DEF g
    <2>3. IsLoop(kind, p, a, s, g, 0)
      BY <2>2 DEF IsLoop
    <2>4. QED
      BY <2>3
  <1>2. \A k \in S : k + 1 \in S
    BY LoopLonger
  <1>3. S \in SUBSET Nat
    OBVIOUS
  <1> HIDE DEF S
  <1>4. n \in S
    BY <1>1, <1>2, <1>3, SetInduction
  <1>5. QED
    BY <1>4 DEF S

Loop(kind, p, a, s, n) == CHOOSE f : IsLoop(kind, p, a, s, f, n)

(***************************************************************************)
(* The function that makes the steps of a loop, one by one.                *)
(***************************************************************************)
LEMMA LoopFacts ==
  ASSUME NEW kind, NEW p, NEW a, NEW s, NEW n \in Nat
  PROVE  /\ Loop(kind, p, a, s, n)[0] = a
         /\ \A i \in 0 .. n - 1 :
              Loop(kind, p, a, s, n)[i + 1] =
                LoopStep(kind, p, Loop(kind, p, a, s, n)[i], s[i + 1])
  <1> DEFINE L == Loop(kind, p, a, s, n)
  <1>1. IsLoop(kind, p, a, s, L, n)
    BY LoopExists DEF Loop
  <1> HIDE DEF L
  <1>2. \A i \in 0 .. n : L[i] = LoopValue(kind, p, a, s, L, i)
    BY <1>1 DEF IsLoop
  <1>3. L[0] = a
    BY <1>2 DEF LoopValue
  <1>4. ASSUME NEW i \in 0 .. n - 1
        PROVE  L[i + 1] = LoopStep(kind, p, L[i], s[i + 1])
    <2>1. i + 1 \in 0 .. n /\ i + 1 # 0 /\ (i + 1) - 1 = i
      OBVIOUS
    <2>2. L[i + 1] = LoopValue(kind, p, a, s, L, i + 1)
      BY <1>2, <2>1
    <2>3. QED
      BY <2>1, <2>2 DEF LoopValue
  <1>5. QED
    BY <1>3, <1>4 DEF L

(***************************************************************************)
(* Kept, UnmergeAll, SortByLayout and ActivateLeaders are such loops.      *)
(***************************************************************************)
LEMMA LoopsOfModule ==
  /\ \A s, T : Kept(s, T) = Loop("keep", T, <<>>, s, Len(s))[Len(s)]
  /\ \A g : UnmergeAll(g) = Loop("unmerge", 0, g, g.list, Len(g.list))[Len(g.list)]
  /\ \A g, s, p : SortByLayout(g, s, p) =
       Loop("insert", p, [g EXCEPT !.list = <<>>], s, Len(s))[Len(s)]
  /\ \A g : ActivateLeaders(g) = Loop("lead", 0, g, g.list, Len(g.list))[Len(g.list)]
  <1>1. ASSUME NEW s, NEW T
        PROVE  Kept(s, T) = Loop("keep", T, <<>>, s, Len(s))[Len(s)]
    BY DEF Kept, Loop, IsLoop, LoopValue, LoopStep
  <1>2. ASSUME NEW g
        PROVE  UnmergeAll(g) = Loop("unmerge", 0, g, g.list, Len(g.list))[Len(g.list)]
    BY DEF UnmergeAll, Loop, IsLoop, LoopValue, LoopStep
  <1>3. ASSUME NEW g, NEW s, NEW p
        PROVE  SortByLayout(g, s, p) =
                 Loop("insert", p, [g EXCEPT !.list = <<>>], s, Len(s))[Len(s)]
    BY DEF SortByLayout, Loop, IsLoop, LoopValue, LoopStep
  <1>4. ASSUME NEW g
        PROVE  ActivateLeaders(g) = Loop("lead", 0, g, g.list, Len(g.list))[Len(g.list)]
    BY DEF ActivateLeaders, Loop, IsLoop, LoopValue, LoopStep
  <1>5. QED
    BY <1>1, <1>2, <1>3, <1>4

-----------------------------------------------------------------------------
(* Sequences of buffers: kept, joined, cut, inserted, searched             *)

(***************************************************************************)
(* A list that has a buffer once, and one whose numbers do not descend.    *)
(***************************************************************************)
Once(s) == s \in Seq(Buffer) /\ \A i, j \in 1 .. Len(s) : s[i] = s[j] => i = j

Ordered(s, f) == \A i, j \in 1 .. Len(s) : i < j => f[s[i]] <= f[s[j]]

(***************************************************************************)
(* A sequence of buffers, and its elements.                                *)
(***************************************************************************)
LEMMA SeqFacts ==
  ASSUME NEW s \in Seq(Buffer)
  PROVE  /\ Len(s) \in Nat /\ DOMAIN s = 1 .. Len(s)
         /\ \A i \in 1 .. Len(s) : s[i] \in Buffer
         /\ ToSet(s) = {s[i] : i \in 1 .. Len(s)}
         /\ ToSet(s) \subseteq Buffer
         /\ \A x \in ToSet(s) : \E i \in 1 .. Len(s) : s[i] = x
         /\ \A i \in 1 .. Len(s) : s[i] \in ToSet(s)
  <1>1. Len(s) \in Nat /\ DOMAIN s = 1 .. Len(s)
    BY LenProperties
  <1>2. \A i \in 1 .. Len(s) : s[i] \in Buffer
    BY ElementOfSeq
  <1>3. ToSet(s) = {s[i] : i \in 1 .. Len(s)}
    BY <1>1 DEF ToSet
  <1>4. QED
    BY <1>1, <1>2, <1>3

(***************************************************************************)
(* e: where the elements of t were in the first n of s, when those of T    *)
(* are kept.                                                               *)
(***************************************************************************)
KeptAt(s, T, n, t, e) ==
  /\ t \in Seq(Buffer)
  /\ e \in [1 .. Len(t) -> 1 .. n]
  /\ \A i, j \in 1 .. Len(t) : i < j => e[i] < e[j]
  /\ \A i \in 1 .. Len(t) : t[i] = s[e[i]] /\ t[i] \in T
  /\ \A j \in 1 .. n : s[j] \in T => \E i \in 1 .. Len(t) : e[i] = j

LEMMA KeptMore ==
  ASSUME NEW s \in Seq(Buffer), NEW T, NEW n \in 0 .. Len(s) - 1, NEW t, NEW e,
         KeptAt(s, T, n, t, e)
  PROVE  \E d : KeptAt(s, T, n + 1, LoopStep("keep", T, t, s[n + 1]), d)
  <1>1. Len(s) \in Nat /\ n + 1 \in 1 .. Len(s) /\ n \in Nat
    BY SeqFacts
  <1>2. s[n + 1] \in Buffer
    BY <1>1, SeqFacts
  <1>3. t \in Seq(Buffer) /\ Len(t) \in Nat
    BY SeqFacts DEF KeptAt
  <1>4. CASE s[n + 1] \in T
    <2> DEFINE u == Append(t, s[n + 1])
               d == [i \in 1 .. Len(t) + 1 |-> IF i = Len(t) + 1 THEN n + 1 ELSE e[i]]
    <2>1. LoopStep("keep", T, t, s[n + 1]) = u
      BY <1>4 DEF LoopStep
    <2>2. /\ u \in Seq(Buffer) /\ Len(u) = Len(t) + 1
          /\ \A i \in 1 .. Len(t) : u[i] = t[i]
          /\ u[Len(t) + 1] = s[n + 1]
      BY <1>2, <1>3, AppendProperties
    <2>3. /\ d[Len(t) + 1] = n + 1
          /\ \A i \in 1 .. Len(t) : d[i] = e[i] /\ e[i] \in 1 .. n
      BY <1>3 DEF KeptAt
    <2>4. d \in [1 .. Len(u) -> 1 .. n + 1]
      <3>1. \A i \in 1 .. Len(t) + 1 : d[i] \in 1 .. n + 1
        <4>1. ASSUME NEW i \in 1 .. Len(t) + 1 PROVE d[i] \in 1 .. n + 1
          <5>1. i = Len(t) + 1 \/ i \in 1 .. Len(t)
            BY <1>3
          <5> HIDE DEF d
          <5>2. QED
            BY <5>1, <2>3, <1>1
        <4>2. QED
          BY <4>1
      <3>2. QED
        BY <3>1, <2>2
    <2> HIDE DEF u, d
    <2>5. \A i \in 1 .. Len(u) : i = Len(u) \/ i \in 1 .. Len(t)
      BY <1>3, <2>2
    <2>6. \A i, j \in 1 .. Len(u) : i < j => d[i] < d[j]
      <3>1. SUFFICES ASSUME NEW i \in 1 .. Len(u), NEW j \in 1 .. Len(u), i < j
                     PROVE  d[i] < d[j]
        OBVIOUS
      <3>2. i \in 1 .. Len(t) /\ d[i] = e[i] /\ e[i] \in 1 .. n
        BY <1>3, <2>2, <2>3, <3>1
      <3>3. CASE j \in 1 .. Len(t)
        <4>1. d[j] = e[j] /\ e[i] < e[j]
          BY <2>3, <3>1, <3>2, <3>3 DEF KeptAt
        <4>2. QED
          BY <3>2, <4>1
      <3>4. CASE j = Len(u)
        BY <2>2, <2>3, <3>2, <3>4, <1>1
      <3>5. QED
        BY <2>5, <3>3, <3>4
    <2>7. \A i \in 1 .. Len(u) : u[i] = s[d[i]] /\ u[i] \in T
      BY <2>2, <2>3, <2>5, <1>4 DEF KeptAt
    <2>8. ASSUME NEW j \in 1 .. n + 1, s[j] \in T
          PROVE  \E i \in 1 .. Len(u) : d[i] = j
      <3>1. CASE j = n + 1
        BY <1>3, <2>2, <2>3, <3>1
      <3>2. CASE j # n + 1
        <4>1. j \in 1 .. n
          BY <3>2, <1>1
        <4>2. PICK i \in 1 .. Len(t) : e[i] = j
          BY <4>1, <2>8 DEF KeptAt
        <4>3. i \in 1 .. Len(u) /\ d[i] = j
          BY <4>2, <2>2, <2>3, <1>3
        <4>4. QED
          BY <4>3
      <3>3. QED
        BY <3>1, <3>2
    <2>9. KeptAt(s, T, n + 1, u, d)
      BY <2>2, <2>4, <2>6, <2>7, <2>8 DEF KeptAt
    <2>10. QED
      BY <2>1, <2>9
  <1>5. CASE s[n + 1] \notin T
    <2>1. LoopStep("keep", T, t, s[n + 1]) = t
      BY <1>5 DEF LoopStep
    <2>2. e \in [1 .. Len(t) -> 1 .. n + 1]
      BY <1>1 DEF KeptAt
    <2>3. \A j \in 1 .. n + 1 : j = n + 1 \/ j \in 1 .. n
      BY <1>1
    <2>4. \A j \in 1 .. n + 1 : s[j] \in T => \E i \in 1 .. Len(t) : e[i] = j
      BY <2>3, <1>5 DEF KeptAt
    <2>5. KeptAt(s, T, n + 1, t, e)
      BY <2>2, <2>4 DEF KeptAt
    <2>6. QED
      BY <2>1, <2>5
  <1>6. QED
    BY <1>4, <1>5

LEMMA KeptPlaces ==
  ASSUME NEW s \in Seq(Buffer), NEW T
  PROVE  \E e : KeptAt(s, T, Len(s), Kept(s, T), e)
  <1> DEFINE L == Loop("keep", T, <<>>, s, Len(s))
             S == {n \in 0 .. Len(s) : \E e : KeptAt(s, T, n, L[n], e)}
  <1>1. Len(s) \in Nat
    BY SeqFacts
  <1>2. L[0] = <<>> /\ \A n \in 0 .. Len(s) - 1 : L[n + 1] = LoopStep("keep", T, L[n], s[n + 1])
    BY <1>1, LoopFacts
  <1> HIDE DEF L
  <1>3. 0 \in S
    <2> DEFINE e == [i \in 1 .. 0 |-> 0]
    <2>1. <<>> \in Seq(Buffer) /\ Len(<<>>) = 0
      OBVIOUS
    <2>2. 1 .. 0 = {}
      OBVIOUS
    <2>3. e \in [1 .. 0 -> 1 .. 0]
      BY <2>2
    <2> HIDE DEF e
    <2>4. KeptAt(s, T, 0, <<>>, e)
      BY <2>1, <2>2, <2>3 DEF KeptAt
    <2>5. QED
      BY <1>1, <1>2, <2>4
  <1>4. ASSUME NEW n \in 0 .. Len(s) - 1, n \in S PROVE n + 1 \in S
    <2>1. PICK e : KeptAt(s, T, n, L[n], e)
      BY <1>4
    <2>2. \E d : KeptAt(s, T, n + 1, LoopStep("keep", T, L[n], s[n + 1]), d)
      BY <2>1, KeptMore
    <2>3. n + 1 \in 0 .. Len(s)
      BY <1>1
    <2>4. QED
      BY <1>2, <2>2, <2>3
  <1> HIDE DEF S
  <1>5. Len(s) \in S
    BY <1>1, <1>3, <1>4, UpTo
  <1>6. Kept(s, T) = L[Len(s)]
    BY LoopsOfModule DEF L
  <1>7. QED
    BY <1>5, <1>6 DEF S

(***************************************************************************)
(* Kept keeps the elements of T, once and in their order.                  *)
(***************************************************************************)
LEMMA KeptFacts ==
  ASSUME NEW s \in Seq(Buffer), NEW T
  PROVE  /\ Kept(s, T) \in Seq(Buffer)
         /\ ToSet(Kept(s, T)) = ToSet(s) \intersect T
         /\ Once(s) => Once(Kept(s, T))
         /\ \A f \in [Buffer -> Int] : Ordered(s, f) => Ordered(Kept(s, T), f)
  <1> DEFINE t == Kept(s, T)
  <1>1. PICK e : KeptAt(s, T, Len(s), t, e)
    BY KeptPlaces
  <1> HIDE DEF t
  <1>2. t \in Seq(Buffer) /\ Len(t) \in Nat /\ Len(s) \in Nat
    BY <1>1, SeqFacts DEF KeptAt
  <1>3. /\ \A i \in 1 .. Len(t) : e[i] \in 1 .. Len(s) /\ t[i] = s[e[i]] /\ t[i] \in T
        /\ \A i, j \in 1 .. Len(t) : i < j => e[i] < e[j]
        /\ \A j \in 1 .. Len(s) : s[j] \in T => \E i \in 1 .. Len(t) : e[i] = j
    BY <1>1 DEF KeptAt
  <1>4. ToSet(t) \subseteq ToSet(s) \intersect T
    BY <1>2, <1>3, SeqFacts
  <1>5. ASSUME NEW x \in ToSet(s), x \in T PROVE x \in ToSet(t)
    <2>1. PICK j \in 1 .. Len(s) : s[j] = x
      BY SeqFacts
    <2>2. PICK i \in 1 .. Len(t) : e[i] = j
      BY <1>3, <1>5, <2>1
    <2>3. t[i] = x
      BY <1>3, <2>1, <2>2
    <2>4. QED
      BY <1>2, <2>3, SeqFacts
  <1>6. ASSUME Once(s) PROVE Once(t)
    <2>1. SUFFICES ASSUME NEW i \in 1 .. Len(t), NEW j \in 1 .. Len(t), t[i] = t[j]
                   PROVE  i = j
      BY <1>2 DEF Once
    <2>2. e[i] = e[j]
      BY <1>3, <1>6, <2>1 DEF Once
    <2>3. e[i] \in Nat /\ e[j] \in Nat /\ (i < j => e[i] < e[j]) /\ (j < i => e[j] < e[i])
      BY <1>3
    <2>4. QED
      BY <2>2, <2>3, <1>2
  <1>7. ASSUME NEW f \in [Buffer -> Int], Ordered(s, f) PROVE Ordered(t, f)
    BY <1>3, <1>7 DEF Ordered
  <1>8. QED
    BY <1>2, <1>4, <1>5, <1>6, <1>7 DEF t

(***************************************************************************)
(* Two sequences joined: what is where, whether it is there once and in    *)
(* order.                                                                  *)
(***************************************************************************)
LEMMA ConcatFacts ==
  ASSUME NEW s \in Seq(Buffer), NEW t \in Seq(Buffer)
  PROVE  /\ s \o t \in Seq(Buffer)
         /\ Len(s \o t) = Len(s) + Len(t)
         /\ \A i \in 1 .. Len(s) + Len(t) :
              (s \o t)[i] = IF i <= Len(s) THEN s[i] ELSE t[i - Len(s)]
         /\ ToSet(s \o t) = ToSet(s) \union ToSet(t)
  <1> DEFINE u == s \o t
  <1>1. /\ u \in Seq(Buffer)
        /\ Len(u) = Len(s) + Len(t)
        /\ \A i \in 1 .. Len(s) + Len(t) :
             u[i] = IF i <= Len(s) THEN s[i] ELSE t[i - Len(s)]
    BY ConcatProperties
  <1> HIDE DEF u
  <1>2. Len(s) \in Nat /\ Len(t) \in Nat
    BY SeqFacts
  <1>3. ASSUME NEW x \in ToSet(u) PROVE x \in ToSet(s) \union ToSet(t)
    <2>1. PICK i \in 1 .. Len(u) : u[i] = x
      BY <1>1, SeqFacts
    <2>2. CASE i <= Len(s)
      BY <1>1, <1>2, <2>1, <2>2, SeqFacts
    <2>3. CASE ~(i <= Len(s))
      <3>1. i - Len(s) \in 1 .. Len(t)
        BY <1>1, <1>2, <2>3
      <3>2. x = t[i - Len(s)]
        BY <1>1, <2>1, <2>3
      <3>3. QED
        BY <3>1, <3>2, SeqFacts
    <2>4. QED
      BY <2>2, <2>3
  <1>4. ASSUME NEW x \in ToSet(s) PROVE x \in ToSet(u)
    <2>1. PICK i \in 1 .. Len(s) : s[i] = x
      BY SeqFacts
    <2>2. i \in 1 .. Len(u) /\ u[i] = x
      BY <1>1, <1>2, <2>1
    <2>3. QED
      BY <1>1, <2>2, SeqFacts
  <1>5. ASSUME NEW x \in ToSet(t) PROVE x \in ToSet(u)
    <2>1. PICK i \in 1 .. Len(t) : t[i] = x
      BY SeqFacts
    <2>2. Len(s) + i \in 1 .. Len(u) /\ ~(Len(s) + i <= Len(s)) /\ Len(s) + i - Len(s) = i
      BY <1>1, <1>2
    <2>3. u[Len(s) + i] = x
      BY <1>1, <2>1, <2>2
    <2>4. QED
      BY <1>1, <2>2, <2>3, SeqFacts
  <1>6. QED
    BY <1>1, <1>3, <1>4, <1>5 DEF u

LEMMA ConcatOnce ==
  ASSUME NEW s, NEW t, Once(s), Once(t), ToSet(s) \intersect ToSet(t) = {}
  PROVE  Once(s \o t)
  <1> DEFINE u == s \o t
  <1>1. s \in Seq(Buffer) /\ t \in Seq(Buffer) /\ Len(s) \in Nat /\ Len(t) \in Nat
    BY SeqFacts DEF Once
  <1>2. /\ u \in Seq(Buffer)
        /\ Len(u) = Len(s) + Len(t)
        /\ \A i \in 1 .. Len(s) + Len(t) :
             u[i] = IF i <= Len(s) THEN s[i] ELSE t[i - Len(s)]
    BY <1>1, ConcatFacts
  <1> HIDE DEF u
  <1>3. \A i \in 1 .. Len(s), j \in 1 .. Len(t) : s[i] # t[j]
    BY <1>1, SeqFacts
  <1>4. SUFFICES ASSUME NEW i \in 1 .. Len(u), NEW j \in 1 .. Len(u), u[i] = u[j]
                 PROVE  i = j
    BY <1>2 DEF Once, u
  <1>5. /\ i <= Len(s) => i \in 1 .. Len(s) /\ u[i] = s[i]
        /\ ~(i <= Len(s)) => i - Len(s) \in 1 .. Len(t) /\ u[i] = t[i - Len(s)]
    BY <1>1, <1>2
  <1>6. /\ j <= Len(s) => j \in 1 .. Len(s) /\ u[j] = s[j]
        /\ ~(j <= Len(s)) => j - Len(s) \in 1 .. Len(t) /\ u[j] = t[j - Len(s)]
    BY <1>1, <1>2
  <1>7. CASE i <= Len(s) /\ j <= Len(s)
    BY <1>4, <1>5, <1>6, <1>7 DEF Once
  <1>8. CASE ~(i <= Len(s)) /\ ~(j <= Len(s))
    <2>1. i - Len(s) = j - Len(s)
      BY <1>4, <1>5, <1>6, <1>8 DEF Once
    <2>2. QED
      BY <2>1, <1>1, <1>2
  <1>9. QED
    BY <1>3, <1>4, <1>5, <1>6, <1>7, <1>8

LEMMA ConcatOrdered ==
  ASSUME NEW s \in Seq(Buffer), NEW t \in Seq(Buffer), NEW f \in [Buffer -> Int],
         Ordered(s, f), Ordered(t, f),
         \A x \in ToSet(s), y \in ToSet(t) : f[x] <= f[y]
  PROVE  Ordered(s \o t, f)
  <1> DEFINE u == s \o t
  <1>1. Len(s) \in Nat /\ Len(t) \in Nat
    BY SeqFacts
  <1>2. /\ Len(u) = Len(s) + Len(t)
        /\ \A i \in 1 .. Len(s) + Len(t) :
             u[i] = IF i <= Len(s) THEN s[i] ELSE t[i - Len(s)]
    BY ConcatFacts
  <1> HIDE DEF u
  <1>3. \A i \in 1 .. Len(s), j \in 1 .. Len(t) : f[s[i]] <= f[t[j]]
    BY SeqFacts
  <1>4. SUFFICES ASSUME NEW i \in 1 .. Len(u), NEW j \in 1 .. Len(u), i < j
                 PROVE  f[u[i]] <= f[u[j]]
    BY DEF Ordered, u
  <1>5. /\ i <= Len(s) => i \in 1 .. Len(s) /\ u[i] = s[i]
        /\ ~(i <= Len(s)) => i - Len(s) \in 1 .. Len(t) /\ u[i] = t[i - Len(s)]
    BY <1>1, <1>2
  <1>6. /\ j <= Len(s) => j \in 1 .. Len(s) /\ u[j] = s[j]
        /\ ~(j <= Len(s)) => j - Len(s) \in 1 .. Len(t) /\ u[j] = t[j - Len(s)]
    BY <1>1, <1>2
  <1>7. CASE j <= Len(s)
    <2>1. i <= Len(s)
      BY <1>1, <1>2, <1>4, <1>7
    <2>2. QED
      BY <1>4, <1>5, <1>6, <1>7, <2>1 DEF Ordered
  <1>8. CASE i <= Len(s) /\ ~(j <= Len(s))
    BY <1>3, <1>5, <1>6, <1>8
  <1>9. CASE ~(i <= Len(s)) /\ ~(j <= Len(s))
    <2>1. i - Len(s) < j - Len(s)
      BY <1>1, <1>2, <1>4
    <2>2. QED
      BY <1>5, <1>6, <1>9, <2>1 DEF Ordered
  <1>10. QED
    BY <1>7, <1>8, <1>9

(***************************************************************************)
(* A piece of a list has its elements once, and in order.                  *)
(***************************************************************************)
LEMMA PieceFacts ==
  ASSUME NEW s \in Seq(Buffer), NEW m \in 1 .. Len(s) + 1, NEW n \in 0 .. Len(s),
         m <= n + 1
  PROVE  /\ SubSeq(s, m, n) \in Seq(Buffer)
         /\ Len(SubSeq(s, m, n)) = n - m + 1
         /\ \A i \in 1 .. n - m + 1 : SubSeq(s, m, n)[i] = s[m + i - 1]
         /\ ToSet(SubSeq(s, m, n)) = {s[k] : k \in m .. n}
         /\ Once(s) => Once(SubSeq(s, m, n))
         /\ \A f \in [Buffer -> Int] : Ordered(s, f) => Ordered(SubSeq(s, m, n), f)
  <1> DEFINE t == SubSeq(s, m, n)
  <1>1. Len(s) \in Nat /\ m \in Int /\ n \in Int /\ m .. n \subseteq 1 .. Len(s)
    BY SeqFacts
  <1>2. /\ t \in Seq(Buffer)
        /\ Len(t) = IF m <= n THEN n - m + 1 ELSE 0
        /\ \A i \in 1 .. n - m + 1 : t[i] = s[m + i - 1]
    BY <1>1, SeqFacts, SubSeqProperties
  <1> HIDE DEF t
  <1>3. Len(t) = n - m + 1
    BY <1>1, <1>2
  <1>4. \A k \in m .. n : k - m + 1 \in 1 .. Len(t) /\ t[k - m + 1] = s[k]
    <2>1. ASSUME NEW k \in m .. n
          PROVE  k - m + 1 \in 1 .. Len(t) /\ t[k - m + 1] = s[k]
      <3>1. k - m + 1 \in 1 .. n - m + 1 /\ m + (k - m + 1) - 1 = k
        BY <1>1
      <3>2. QED
        BY <1>2, <1>3, <3>1
    <2>2. QED
      BY <2>1
  <1>5. \A i \in 1 .. Len(t) : m + i - 1 \in m .. n /\ m + i - 1 \in 1 .. Len(s)
                               /\ t[i] = s[m + i - 1]
    BY <1>1, <1>2, <1>3
  <1>6. ToSet(t) = {s[k] : k \in m .. n}
    <2>1. \A x \in ToSet(t) : \E i \in 1 .. Len(t) : t[i] = x
      BY <1>2, SeqFacts
    <2>2. ASSUME NEW x \in ToSet(t) PROVE x \in {s[k] : k \in m .. n}
      BY <1>5, <2>1
    <2>3. ASSUME NEW k \in m .. n PROVE s[k] \in ToSet(t)
      BY <1>2, <1>4, SeqFacts
    <2>4. QED
      BY <2>2, <2>3
  <1>7. ASSUME Once(s) PROVE Once(t)
    <2>1. SUFFICES ASSUME NEW i \in 1 .. Len(t), NEW j \in 1 .. Len(t), t[i] = t[j]
                   PROVE  i = j
      BY <1>2 DEF Once
    <2>2. m + i - 1 = m + j - 1
      BY <1>5, <1>7, <2>1 DEF Once
    <2>3. QED
      BY <1>1, <1>3, <2>2
  <1>8. ASSUME NEW f \in [Buffer -> Int], Ordered(s, f) PROVE Ordered(t, f)
    <2>1. SUFFICES ASSUME NEW i \in 1 .. Len(t), NEW j \in 1 .. Len(t), i < j
                   PROVE  f[t[i]] <= f[t[j]]
      BY DEF Ordered
    <2>2. m + i - 1 < m + j - 1
      BY <1>1, <1>3, <2>1
    <2>3. QED
      BY <1>5, <1>8, <2>2 DEF Ordered
  <1>9. QED
    BY <1>2, <1>3, <1>6, <1>7, <1>8 DEF t

(***************************************************************************)
(* A list cut before position i.                                           *)
(***************************************************************************)
Before(s, i) == {s[k] : k \in 1 .. i - 1}
From(s, i) == {s[k] : k \in i .. Len(s)}

(***************************************************************************)
(* What comes before a position, and what comes from it on.                *)
(***************************************************************************)
LEMMA CutFacts ==
  ASSUME NEW s, Once(s), NEW i \in 1 .. Len(s) + 1
  PROVE  /\ ToSet(s) = Before(s, i) \union From(s, i)
         /\ Before(s, i) \intersect From(s, i) = {}
  <1>1. s \in Seq(Buffer) /\ Len(s) \in Nat
    BY SeqFacts DEF Once
  <1>2. ToSet(s) = {s[k] : k \in 1 .. Len(s)}
    BY <1>1, SeqFacts
  <1>3. \A k \in 1 .. Len(s) : k \in 1 .. i - 1 \/ k \in i .. Len(s)
    BY <1>1
  <1>4. 1 .. i - 1 \subseteq 1 .. Len(s) /\ i .. Len(s) \subseteq 1 .. Len(s)
    BY <1>1
  <1>5. \A j \in 1 .. i - 1, k \in i .. Len(s) : j # k
    BY <1>1
  <1>6. ToSet(s) = Before(s, i) \union From(s, i)
    BY <1>2, <1>3, <1>4 DEF Before, From
  <1>7. ASSUME NEW x \in Before(s, i), x \in From(s, i) PROVE FALSE
    <2>1. PICK j \in 1 .. i - 1 : x = s[j]
      BY DEF Before
    <2>2. PICK k \in i .. Len(s) : x = s[k]
      BY <1>7 DEF From
    <2>3. j = k
      BY <1>4, <2>1, <2>2 DEF Once
    <2>4. QED
      BY <1>5, <2>3
  <1>8. QED
    BY <1>6, <1>7

(***************************************************************************)
(* A sequence put in another, at a position.                               *)
(***************************************************************************)
LEMMA InsertedFacts ==
  ASSUME NEW s, Once(s), NEW t, Once(t), ToSet(s) \intersect ToSet(t) = {},
         NEW i \in 1 .. Len(s) + 1
  PROVE  /\ Once(Inserted(s, i, t))
         /\ ToSet(Inserted(s, i, t)) = ToSet(s) \union ToSet(t)
         /\ Len(Inserted(s, i, t)) = Len(s) + Len(t)
         /\ \A k \in 1 .. i - 1 : Inserted(s, i, t)[k] = s[k]
         /\ \A k \in i .. i + Len(t) - 1 : Inserted(s, i, t)[k] = t[k - i + 1]
         /\ \A k \in i .. Len(s) : Inserted(s, i, t)[k + Len(t)] = s[k]
         /\ \A f \in [Buffer -> Int] :
              (/\ Ordered(s, f) /\ Ordered(t, f)
               /\ \A x \in Before(s, i), y \in ToSet(t) : f[x] <= f[y]
               /\ \A x \in ToSet(t), y \in From(s, i) : f[x] <= f[y])
              => Ordered(Inserted(s, i, t), f)
  <1> DEFINE a == SubSeq(s, 1, i - 1)
             c == SubSeq(s, i, Len(s))
  <1>1. s \in Seq(Buffer) /\ t \in Seq(Buffer) /\ Len(s) \in Nat /\ Len(t) \in Nat
    BY SeqFacts DEF Once
  <1>2. i - 1 \in 0 .. Len(s) /\ Len(s) \in 0 .. Len(s) /\ 1 \in 1 .. Len(s) + 1
    BY <1>1
  <1>3. /\ a \in Seq(Buffer) /\ Len(a) = (i - 1) - 1 + 1
        /\ \A k \in 1 .. (i - 1) - 1 + 1 : a[k] = s[1 + k - 1]
        /\ ToSet(a) = {s[k] : k \in 1 .. i - 1}
        /\ Once(a)
        /\ \A f \in [Buffer -> Int] : Ordered(s, f) => Ordered(a, f)
    BY <1>1, <1>2, PieceFacts
  <1>4. /\ c \in Seq(Buffer) /\ Len(c) = Len(s) - i + 1
        /\ \A k \in 1 .. Len(s) - i + 1 : c[k] = s[i + k - 1]
        /\ ToSet(c) = {s[k] : k \in i .. Len(s)}
        /\ Once(c)
        /\ \A f \in [Buffer -> Int] : Ordered(s, f) => Ordered(c, f)
    BY <1>1, <1>2, PieceFacts
  <1> HIDE DEF a, c
  <1>5. Len(a) = i - 1 /\ \A k \in 1 .. i - 1 : a[k] = s[k]
    BY <1>1, <1>3
  <1>6. /\ ToSet(a) = Before(s, i) /\ ToSet(c) = From(s, i)
        /\ ToSet(s) = Before(s, i) \union From(s, i)
        /\ Before(s, i) \intersect From(s, i) = {}
    BY <1>3, <1>4, CutFacts DEF Before, From
  <1>7. /\ a \o t \in Seq(Buffer) /\ Len(a \o t) = Len(a) + Len(t)
        /\ \A k \in 1 .. Len(a) + Len(t) :
             (a \o t)[k] = IF k <= Len(a) THEN a[k] ELSE t[k - Len(a)]
        /\ ToSet(a \o t) = ToSet(a) \union ToSet(t)
    BY <1>1, <1>3, ConcatFacts
  <1>8. Once(a \o t)
    BY <1>3, <1>6, ConcatOnce
  <1> DEFINE at == a \o t
             u == at \o c
  <1>9. /\ at \in Seq(Buffer) /\ Len(at) = i - 1 + Len(t) /\ Once(at)
        /\ \A k \in 1 .. i - 1 : at[k] = s[k]
        /\ \A k \in i .. i - 1 + Len(t) : at[k] = t[k - i + 1]
        /\ ToSet(at) = Before(s, i) \union ToSet(t)
    <2>1. \A k \in i .. i - 1 + Len(t) : k \in 1 .. Len(a) + Len(t) /\ ~(k <= Len(a))
                                         /\ k - Len(a) = k - i + 1
      BY <1>1, <1>5
    <2>2. \A k \in 1 .. i - 1 : k \in 1 .. Len(a) + Len(t) /\ k <= Len(a)
      BY <1>1, <1>5
    <2>3. QED
      BY <1>5, <1>6, <1>7, <1>8, <2>1, <2>2
  <1>14. \A f \in [Buffer -> Int] :
           (Ordered(a, f) /\ Ordered(t, f)
             /\ (\A x \in ToSet(a), y \in ToSet(t) : f[x] <= f[y])) => Ordered(at, f)
    BY <1>1, <1>3, ConcatOrdered
  <1> HIDE DEF at
  <1>10. /\ u \in Seq(Buffer) /\ Len(u) = Len(at) + Len(c)
         /\ \A k \in 1 .. Len(at) + Len(c) :
              u[k] = IF k <= Len(at) THEN at[k] ELSE c[k - Len(at)]
         /\ ToSet(u) = ToSet(at) \union ToSet(c)
    BY <1>4, <1>9, ConcatFacts
  <1>11. Once(u)
    BY <1>4, <1>6, <1>9, ConcatOnce
  <1>12. ASSUME NEW f \in [Buffer -> Int], Ordered(s, f), Ordered(t, f),
                \A x \in Before(s, i), y \in ToSet(t) : f[x] <= f[y],
                \A x \in ToSet(t), y \in From(s, i) : f[x] <= f[y]
         PROVE  Ordered(u, f)
    <2>1. Ordered(a, f) /\ Ordered(c, f)
      BY <1>3, <1>4, <1>12
    <2>2. Ordered(at, f)
      BY <1>12, <1>14, <2>1, <1>6
    <2>3. \A x \in Before(s, i), y \in From(s, i) : f[x] <= f[y]
      <3>1. ASSUME NEW j \in 1 .. i - 1, NEW k \in i .. Len(s) PROVE f[s[j]] <= f[s[k]]
        <4>1. j \in 1 .. Len(s) /\ k \in 1 .. Len(s) /\ j < k
          BY <1>1
        <4>2. QED
          BY <4>1, <1>12 DEF Ordered
      <3>2. QED
        BY <3>1 DEF Before, From
    <2>4. \A x \in ToSet(at), y \in ToSet(c) : f[x] <= f[y]
      BY <1>6, <1>9, <1>12, <2>3
    <2>5. QED
      BY <1>4, <1>9, <2>1, <2>2, <2>4, ConcatOrdered
  <1>13. /\ Len(u) = Len(s) + Len(t)
         /\ \A k \in 1 .. i - 1 : u[k] = s[k]
         /\ \A k \in i .. i + Len(t) - 1 : u[k] = t[k - i + 1]
         /\ \A k \in i .. Len(s) : u[k + Len(t)] = s[k]
    <2>1. Len(u) = Len(s) + Len(t)
      BY <1>1, <1>4, <1>9, <1>10
    <2>2. \A k \in 1 .. i - 1 : k \in 1 .. Len(at) + Len(c) /\ k <= Len(at)
      BY <1>1, <1>4, <1>9
    <2>3. \A k \in i .. i + Len(t) - 1 : k \in 1 .. Len(at) + Len(c) /\ k <= Len(at)
                                         /\ k \in i .. i - 1 + Len(t)
      BY <1>1, <1>4, <1>9
    <2>4. ASSUME NEW k \in i .. Len(s) PROVE u[k + Len(t)] = s[k]
      <3>1. /\ k + Len(t) \in 1 .. Len(at) + Len(c) /\ ~(k + Len(t) <= Len(at))
            /\ k + Len(t) - Len(at) = k - i + 1
            /\ k - i + 1 \in 1 .. Len(s) - i + 1
            /\ i + (k - i + 1) - 1 = k
        BY <1>1, <1>4, <1>9
      <3>2. u[k + Len(t)] = c[k - i + 1]
        BY <1>10, <3>1
      <3>3. QED
        BY <1>4, <3>1, <3>2
    <2>5. QED
      BY <1>9, <1>10, <2>1, <2>2, <2>3, <2>4
  <1>15. Inserted(s, i, t) = u
    BY DEF Inserted, u, at, a, c
  <1>16. ToSet(u) = ToSet(s) \union ToSet(t)
    BY <1>6, <1>9, <1>10
  <1> HIDE DEF u
  <1>17. QED
    BY <1>11, <1>12, <1>13, <1>15, <1>16

-----------------------------------------------------------------------------
(* Searches                                                                *)

(***************************************************************************)
(* The search for the first element of a set: it is found iff there is     *)
(* one.                                                                    *)
(***************************************************************************)
LEMMA FirstInFacts ==
  ASSUME NEW s \in Seq(Buffer), NEW T
  PROVE  /\ FirstIn(s, T) \in 0 .. Len(s)
         /\ FirstIn(s, T) = 0 <=> ToSet(s) \intersect T = {}
         /\ FirstIn(s, T) # 0 => s[FirstIn(s, T)] \in T
         /\ \A j \in 1 .. Len(s) :
              (FirstIn(s, T) = 0 \/ j < FirstIn(s, T)) => s[j] \notin T
  <1> DEFINE S == {i \in 1 .. Len(s) : s[i] \in T}
             k == FirstIn(s, T)
  <1>1. Len(s) \in Nat /\ ToSet(s) = {s[i] : i \in 1 .. Len(s)}
    BY SeqFacts
  <1>2. k = IF S = {} THEN 0 ELSE CHOOSE x \in S : \A y \in S : x <= y
    BY DEF FirstIn, FirstIndex, Min
  <1>3. CASE S = {}
    <2>1. k = 0
      BY <1>2, <1>3
    <2>2. \A j \in 1 .. Len(s) : s[j] \notin T
      BY <1>3
    <2>3. ToSet(s) \intersect T = {}
      BY <1>1, <2>2
    <2> HIDE DEF k
    <2>4. k \in 0 .. Len(s) /\ (k = 0 <=> ToSet(s) \intersect T = {})
          /\ (k # 0 => s[k] \in T)
          /\ \A j \in 1 .. Len(s) : (k = 0 \/ j < k) => s[j] \notin T
      BY <1>1, <2>1, <2>2, <2>3
    <2>5. QED
      BY <2>4 DEF k
  <1>4. CASE S # {}
    <2>1. S \in SUBSET Nat
      BY <1>1
    <2> HIDE DEF S
    <2>2. PICK z \in S : \A y \in S : ~(y < z)
      BY <1>4, <2>1, LeastElement
    <2>3. \A y \in S : z <= y
      BY <2>1, <2>2
    <2>4. k \in S /\ \A y \in S : k <= y
      BY <1>2, <1>4, <2>2, <2>3
    <2> HIDE DEF k
    <2>5. k \in 1 .. Len(s) /\ s[k] \in T
      BY <2>4 DEF S
    <2>6. \A j \in 1 .. Len(s) : j < k => s[j] \notin T
      <3>1. \A j \in 1 .. Len(s) : s[j] \in T => k <= j
        BY <2>4 DEF S
      <3>2. QED
        BY <1>1, <2>5, <3>1
    <2>7. k # 0 /\ ToSet(s) \intersect T # {}
      BY <1>1, <2>5
    <2>8. k \in 0 .. Len(s) /\ (k = 0 <=> ToSet(s) \intersect T = {})
          /\ (k # 0 => s[k] \in T)
          /\ \A j \in 1 .. Len(s) : (k = 0 \/ j < k) => s[j] \notin T
      BY <1>1, <2>5, <2>6, <2>7
    <2>9. QED
      BY <2>8 DEF k
  <1>5. QED
    BY <1>3, <1>4

LEMMA FirstOfFacts ==
  ASSUME NEW s \in Seq(Buffer), NEW T
  PROVE  /\ FirstOf(s, T) \in Buffer \union {NoBuffer}
         /\ FirstOf(s, T) = NoBuffer <=> ToSet(s) \intersect T = {}
         /\ FirstOf(s, T) # NoBuffer => FirstOf(s, T) \in ToSet(s) \intersect T
  <1>1. /\ FirstIn(s, T) \in 0 .. Len(s)
        /\ FirstIn(s, T) = 0 <=> ToSet(s) \intersect T = {}
        /\ FirstIn(s, T) # 0 => s[FirstIn(s, T)] \in T
    BY FirstInFacts
  <1>2. Len(s) \in Nat /\ \A i \in 1 .. Len(s) : s[i] \in ToSet(s) /\ s[i] \in Buffer
    BY SeqFacts
  <1>3. CASE FirstIn(s, T) = 0
    BY <1>1, <1>3 DEF FirstOf
  <1>4. CASE FirstIn(s, T) # 0
    <2>1. FirstIn(s, T) \in 1 .. Len(s)
      BY <1>1, <1>2, <1>4
    <2>2. FirstOf(s, T) = s[FirstIn(s, T)]
      BY <1>4 DEF FirstOf
    <2>3. FirstOf(s, T) # NoBuffer
      BY <1>2, <2>1, <2>2, BufferAssumption
    <2>4. QED
      BY <1>1, <1>2, <1>4, <2>1, <2>2, <2>3
  <1>5. QED
    BY <1>3, <1>4

(***************************************************************************)
(* The position by number: lower numbers before it, the others from it on. *)
(***************************************************************************)
LEMMA PositionFacts ==
  ASSUME NEW s \in Seq(Buffer), NEW f \in [Buffer -> Int], Ordered(s, f), NEW n \in Int
  PROVE  /\ PositionOf(s, f, n) \in 1 .. Len(s) + 1
         /\ \A x \in Before(s, PositionOf(s, f, n)) : f[x] < n
         /\ \A x \in From(s, PositionOf(s, f, n)) : n <= f[x]
  <1> DEFINE T == {x \in Buffer : f[x] >= n}
             k == FirstIn(s, T)
             i == PositionOf(s, f, n)
  <1>1. i = IF k = 0 THEN Len(s) + 1 ELSE k
    BY DEF PositionOf
  <1>2. /\ k \in 0 .. Len(s)
        /\ k # 0 => s[k] \in T
        /\ \A j \in 1 .. Len(s) : (k = 0 \/ j < k) => s[j] \notin T
    BY FirstInFacts
  <1>3. Len(s) \in Nat /\ \A j \in 1 .. Len(s) : s[j] \in Buffer
    BY SeqFacts
  <1> HIDE DEF k, i
  <1>4. i \in 1 .. Len(s) + 1
    BY <1>1, <1>2, <1>3
  <1>5. ASSUME NEW j \in 1 .. i - 1 PROVE f[s[j]] < n
    <2>1. j \in 1 .. Len(s) /\ (k = 0 \/ j < k)
      BY <1>1, <1>2, <1>3, <1>4
    <2>2. s[j] \in Buffer /\ s[j] \notin T /\ f[s[j]] \in Int
      BY <1>2, <1>3, <2>1
    <2>3. QED
      BY <2>2
  <1>6. ASSUME NEW j \in i .. Len(s) PROVE n <= f[s[j]]
    <2>1. k # 0 /\ k \in 1 .. Len(s) /\ i = k /\ j \in 1 .. Len(s)
      BY <1>1, <1>2, <1>3, <1>4
    <2>2. f[s[k]] >= n /\ f[s[k]] \in Int /\ f[s[j]] \in Int
      BY <1>2, <1>3, <2>1
    <2>3. k = j \/ f[s[k]] <= f[s[j]]
      BY <2>1, <1>3 DEF Ordered
    <2>4. QED
      BY <2>2, <2>3
  <1>7. QED
    BY <1>4, <1>5, <1>6 DEF i, Before, From

-----------------------------------------------------------------------------
(* The list in order of numbers, its groups, and numbers that go down      *)

(***************************************************************************)
(* With auto_renumber, the numbers of the buffers in O leave none out.     *)
(***************************************************************************)
Gapless(O, f) == \A x \in O : \A m \in 1 .. f[x] : \E y \in O : f[y] = m

Sorted(g) ==
  /\ Once(g.list)
  /\ Ordered(g.list, g.number)
  /\ \A x \in Opened(g) : g.number[x] >= 1
  /\ g.auto => Gapless(Opened(g), g.number)

(***************************************************************************)
(* What the data say of the list and the numbers.                          *)
(***************************************************************************)
LEMMA DataFacts ==
  ASSUME NEW g \in GuiData
  PROVE  /\ g.list \in Seq(Buffer) /\ g.number \in [Buffer -> Nat]
         /\ g.active \in [Buffer -> 0..2] /\ g.zoomed \in [Buffer -> BOOLEAN]
         /\ g.mixed \in [Buffer -> BOOLEAN] /\ g.own \in [Buffer -> BOOLEAN]
         /\ g.content \in [Buffer -> SUBSET Buffer]
         /\ g.shown \in [Window -> Buffer \union {NoBuffer}]
         /\ g.displayed \in [Buffer -> Nat] /\ g.auto \in BOOLEAN
         /\ g.hidden \in SUBSET Buffer
         /\ g.number \in [Buffer -> Int]
         /\ Opened(g) = ToSet(g.list) /\ Opened(g) \subseteq Buffer
  <1>1. g.list \in Seq(Buffer) /\ g.number \in [Buffer -> Nat]
    BY DEF GuiData
  <1>2. Opened(g) \subseteq Buffer
    BY <1>1, SeqFacts DEF Opened
  <1>3. g.number \in [Buffer -> Int]
    BY <1>1
  <1>4. QED
    BY <1>1, <1>2, <1>3 DEF GuiData, Opened

(***************************************************************************)
(* A group is a part of the list, together as numbers are in order.        *)
(***************************************************************************)
LEMMA GroupFacts ==
  ASSUME NEW g \in GuiData, Once(g.list), NEW b \in Buffer
  PROVE  /\ Group(g, b) \in Seq(Buffer) /\ Once(Group(g, b))
         /\ ToSet(Group(g, b)) = Members(g, b)
         /\ Members(g, b) \subseteq Opened(g)
         /\ b \in Opened(g) => b \in Members(g, b)
  <1>1. g.list \in Seq(Buffer) /\ Opened(g) = ToSet(g.list)
    BY DataFacts
  <1>2. Members(g, b) \subseteq Opened(g) /\ (b \in Opened(g) => b \in Members(g, b))
    BY DEF Members
  <1>3. /\ Kept(g.list, Members(g, b)) \in Seq(Buffer)
        /\ Once(Kept(g.list, Members(g, b)))
        /\ ToSet(Kept(g.list, Members(g, b))) = ToSet(g.list) \intersect Members(g, b)
    BY <1>1, KeptFacts
  <1>4. QED
    BY <1>1, <1>2, <1>3 DEF Group

LEMMA GroupOrdered ==
  ASSUME NEW g \in GuiData, Once(g.list), NEW b \in Buffer, NEW f \in [Buffer -> Int],
         \A x, y \in Members(g, b) : f[x] = f[y]
  PROVE  Ordered(Group(g, b), f)
  <1>1. Group(g, b) \in Seq(Buffer) /\ ToSet(Group(g, b)) = Members(g, b)
    BY GroupFacts
  <1>2. \A i \in 1 .. Len(Group(g, b)) : Group(g, b)[i] \in Members(g, b)
                                         /\ Group(g, b)[i] \in Buffer
    BY <1>1, SeqFacts
  <1>3. QED
    BY <1>2 DEF Ordered

(***************************************************************************)
(* The list without some buffers.                                          *)
(***************************************************************************)
LEMMA WithoutFacts ==
  ASSUME NEW g \in GuiData, Once(g.list), NEW S
  PROVE  /\ Without(g, S) \in Seq(Buffer) /\ Once(Without(g, S))
         /\ ToSet(Without(g, S)) = Opened(g) \ S
         /\ \A f \in [Buffer -> Int] : Ordered(g.list, f) => Ordered(Without(g, S), f)
  <1>1. g.list \in Seq(Buffer) /\ Opened(g) = ToSet(g.list)
    BY DataFacts
  <1> DEFINE T == Opened(g) \ S
  <1>2. ToSet(g.list) \intersect T = Opened(g) \ S
    BY <1>1
  <1> HIDE DEF T
  <1>3. /\ Kept(g.list, T) \in Seq(Buffer)
        /\ Once(Kept(g.list, T))
        /\ ToSet(Kept(g.list, T)) = ToSet(g.list) \intersect T
        /\ \A f \in [Buffer -> Int] : Ordered(g.list, f) => Ordered(Kept(g.list, T), f)
    BY <1>1, KeptFacts
  <1>4. QED
    BY <1>2, <1>3 DEF Without, T

(***************************************************************************)
(* A list that is in order for one numbering, and another that agrees on   *)
(* the order.                                                              *)
(***************************************************************************)
LEMMA OrderedAlike ==
  ASSUME NEW s \in Seq(Buffer), NEW f \in [Buffer -> Int], NEW h \in [Buffer -> Int],
         Ordered(s, f), \A x, y \in ToSet(s) : f[x] <= f[y] => h[x] <= h[y]
  PROVE  Ordered(s, h)
  <1>1. \A i \in 1 .. Len(s) : s[i] \in ToSet(s)
    BY SeqFacts
  <1>2. QED
    BY <1>1 DEF Ordered

(***************************************************************************)
(* The last of a group, in the list without the others.                    *)
(***************************************************************************)
LEMMA LastPlace ==
  ASSUME NEW s \in Seq(Buffer), NEW T, ToSet(s) \intersect T # {}
  PROVE  \E p \in 1 .. Len(s) :
           /\ s[p] = Last(Kept(s, T)) /\ s[p] \in T
           /\ \A j \in p + 1 .. Len(s) : s[j] \notin T
  <1> DEFINE t == Kept(s, T)
  <1>1. PICK e : KeptAt(s, T, Len(s), t, e)
    BY KeptPlaces
  <1>2. PICK x \in ToSet(s) : x \in T
    OBVIOUS
  <1>3. PICK j \in 1 .. Len(s) : s[j] = x
    BY SeqFacts
  <1> HIDE DEF t
  <1>4. t \in Seq(Buffer) /\ Len(t) \in Nat /\ Len(s) \in Nat
    BY <1>1, SeqFacts DEF KeptAt
  <1>5. /\ \A i \in 1 .. Len(t) : e[i] \in 1 .. Len(s) /\ t[i] = s[e[i]] /\ t[i] \in T
        /\ \A i, k \in 1 .. Len(t) : i < k => e[i] < e[k]
        /\ \A k \in 1 .. Len(s) : s[k] \in T => \E i \in 1 .. Len(t) : e[i] = k
    BY <1>1 DEF KeptAt
  <1>6. Len(t) \in 1 .. Len(t)
    BY <1>2, <1>3, <1>4, <1>5
  <1> DEFINE p == e[Len(t)]
  <1>7. p \in 1 .. Len(s) /\ s[p] = Last(t) /\ s[p] \in T
    BY <1>5, <1>6 DEF Last
  <1>8. ASSUME NEW k \in p + 1 .. Len(s), s[k] \in T PROVE FALSE
    <2>1. k \in 1 .. Len(s) /\ p < k
      BY <1>4, <1>7
    <2>2. PICK i \in 1 .. Len(t) : e[i] = k
      BY <1>5, <1>8, <2>1
    <2>3. i = Len(t) \/ i < Len(t)
      BY <1>4
    <2>4. i = Len(t) \/ e[i] < p
      BY <1>5, <1>6, <2>3
    <2>5. QED
      BY <1>7, <2>1, <2>2, <2>4
  <1> HIDE DEF p
  <1>9. QED
    BY <1>7, <1>8 DEF t

(***************************************************************************)
(* Numbers in order, what follows the last of a group has higher numbers.  *)
(***************************************************************************)
Above(g, b) == {x \in Opened(g) : g.number[x] > g.number[b]}

(***************************************************************************)
(* FollowingLast, FollowingGroup, FollowingAlone: those whose numbers go   *)
(* down.                                                                   *)
(***************************************************************************)
LEMMA FollowingLast ==
  ASSUME NEW g \in GuiData, Once(g.list), Ordered(g.list, g.number), NEW b \in Opened(g),
         NEW p \in 1 .. Len(g.list), g.list[p] \in Members(g, b),
         \A j \in p + 1 .. Len(g.list) : g.list[j] \notin Members(g, b)
  PROVE  Following(g, g.list[p]) = Above(g, b)
  <1> DEFINE s == g.list
             n == g.number
             k == FirstIn(s, {s[p]})
  <1>1. /\ s \in Seq(Buffer) /\ Len(s) \in Nat /\ Opened(g) = ToSet(s)
        /\ n \in [Buffer -> Nat] /\ b \in Buffer
    BY DataFacts, SeqFacts
  <1>2. \A j \in 1 .. Len(s) : s[j] \in Opened(g) /\ s[j] \in Buffer /\ n[s[j]] \in Nat
    BY <1>1, SeqFacts
  <1>3. \A x \in Opened(g) : \E j \in 1 .. Len(s) : s[j] = x
    BY <1>1, SeqFacts
  <1>4. k = p
    <2>1. /\ k \in 0 .. Len(s) /\ (k = 0 <=> ToSet(s) \intersect {s[p]} = {})
          /\ (k # 0 => s[k] \in {s[p]})
      BY <1>1, FirstInFacts
    <2>2. k # 0
      BY <1>1, <1>2, <2>1
    <2>3. k \in 1 .. Len(s) /\ s[k] = s[p]
      BY <1>1, <2>1, <2>2
    <2>4. QED
      BY <2>3 DEF Once
  <1>5. Following(g, s[p]) = {s[j] : j \in p + 1 .. Len(s)}
    BY <1>4 DEF Following
  <1>6. n[s[p]] = n[b] /\ n[b] \in Nat
    BY <1>1 DEF Members
  <1> HIDE DEF k
  <1>7. ASSUME NEW j \in p + 1 .. Len(s) PROVE s[j] \in Above(g, b)
    <2>1. j \in 1 .. Len(s) /\ p < j
      BY <1>1
    <2>2. n[s[p]] <= n[s[j]] /\ n[s[j]] # n[b]
      BY <1>2, <2>1 DEF Ordered, Members
    <2>3. QED
      BY <1>2, <1>6, <2>1, <2>2 DEF Above
  <1>8. ASSUME NEW x \in Above(g, b) PROVE x \in Following(g, s[p])
    <2>1. PICK j \in 1 .. Len(s) : s[j] = x
      BY <1>3 DEF Above
    <2>2. n[s[j]] > n[s[p]] /\ n[s[j]] \in Nat /\ n[s[p]] \in Nat
      BY <1>2, <1>6, <2>1 DEF Above
    <2>3. ~(j < p) /\ j # p
      <3>1. j < p => n[s[j]] <= n[s[p]]
        BY DEF Ordered
      <3>2. QED
        BY <2>2, <3>1
    <2>4. j \in p + 1 .. Len(s)
      BY <1>1, <2>3
    <2>5. QED
      BY <1>5, <2>1, <2>4
  <1>9. QED
    BY <1>5, <1>7, <1>8

LEMMA FollowingGroup ==
  ASSUME NEW g \in GuiData, Once(g.list), Ordered(g.list, g.number), NEW b \in Opened(g)
  PROVE  /\ Following(g, Last(Group(g, b))) = Above(g, b)
         /\ Last(Group(g, b)) \in Members(g, b)
  <1>1. g.list \in Seq(Buffer) /\ Opened(g) = ToSet(g.list) /\ b \in Buffer
    BY DataFacts
  <1>2. ToSet(g.list) \intersect Members(g, b) # {}
    BY <1>1, GroupFacts
  <1>3. PICK p \in 1 .. Len(g.list) :
          /\ g.list[p] = Last(Kept(g.list, Members(g, b))) /\ g.list[p] \in Members(g, b)
          /\ \A j \in p + 1 .. Len(g.list) : g.list[j] \notin Members(g, b)
    BY <1>1, <1>2, LastPlace
  <1>4. Following(g, g.list[p]) = Above(g, b)
    BY <1>3, FollowingLast
  <1>5. QED
    BY <1>3, <1>4 DEF Group

LEMMA FollowingAlone ==
  ASSUME NEW g \in GuiData, Once(g.list), Ordered(g.list, g.number), NEW b \in Opened(g),
         Members(g, b) = {b}
  PROVE  Following(g, b) = Above(g, b)
  <1>1. g.list \in Seq(Buffer) /\ Opened(g) = ToSet(g.list) /\ Len(g.list) \in Nat
    BY DataFacts, SeqFacts
  <1>2. PICK p \in 1 .. Len(g.list) : g.list[p] = b
    BY <1>1, SeqFacts
  <1>3. \A j \in p + 1 .. Len(g.list) : j \in 1 .. Len(g.list) /\ j # p
    BY <1>1
  <1>4. \A j \in p + 1 .. Len(g.list) : g.list[j] \notin Members(g, b)
    BY <1>2, <1>3 DEF Once
  <1>5. QED
    BY <1>2, <1>4, FollowingLast

(***************************************************************************)
(* The numbers f when the group of b goes.                                 *)
(***************************************************************************)
Lowered(g, b, f) ==
  /\ f \in [Buffer -> Nat]
  /\ \A x \in Buffer \ Opened(g) : f[x] = g.number[x]
  /\ \A x \in Opened(g) : f[x] >= 1
  /\ \A x \in Opened(g) : g.number[x] <= g.number[b] => f[x] = g.number[x]
  /\ \A x \in Opened(g) : g.number[x] > g.number[b] => f[x] >= g.number[b]
  /\ \A x, y \in Opened(g) \ Members(g, b) : f[x] <= f[y] <=> g.number[x] <= g.number[y]
  /\ g.auto => Gapless(Opened(g) \ Members(g, b), f)

(***************************************************************************)
(* Numbers that went down are in order, positive and without gaps as       *)
(* before.                                                                 *)
(***************************************************************************)
LEMMA LoweredFacts ==
  ASSUME NEW g \in GuiData, Sorted(g), NEW b \in Opened(g), NEW l,
         Following(g, l) = Above(g, b)
  PROVE  Lowered(g, b, Decreased(g, l))
  <1> DEFINE n == g.number
             f == Decreased(g, l)
             O == Opened(g)
             R == O \ Members(g, b)
  <1>1. /\ n \in [Buffer -> Nat] /\ O \subseteq Buffer /\ b \in Buffer
        /\ \A x \in O : n[x] >= 1 /\ n[x] \in Nat
        /\ n[b] \in Nat /\ n[b] >= 1
    BY DataFacts DEF Sorted
  <1>2. f = [x \in Buffer |-> IF g.auto /\ x \in Above(g, b) THEN n[x] - 1 ELSE n[x]]
    BY DEF Decreased
  <1>3. \A x \in Buffer : f[x] = IF g.auto /\ x \in Above(g, b) THEN n[x] - 1 ELSE n[x]
    BY <1>2
  <1>4. \A x \in Buffer : x \in Above(g, b) <=> x \in O /\ n[x] > n[b]
    BY <1>1 DEF Above
  <1>5. f \in [Buffer -> Nat]
    <2>1. \A x \in Buffer : n[x] \in Nat
      BY <1>1
    <2>2. \A x \in Above(g, b) : n[x] - 1 \in Nat
      BY <1>1, <1>4 DEF Above
    <2>3. QED
      BY <1>2, <2>1, <2>2
  <1> HIDE DEF f, n
  <1>6. \A x \in R : x \in O /\ x \in Buffer /\ n[x] # n[b]
    BY <1>1 DEF Members, n
  <1>7. \A x \in O : n[x] = n[b] => x \in Members(g, b)
    BY DEF Members, n
  <1> HIDE DEF R, O
  <1>8. \A x \in Buffer \ O : f[x] = n[x]
    BY <1>3, <1>4
  <1>9. \A x \in O : f[x] >= 1
    BY <1>1, <1>3, <1>4
  <1>10. \A x \in O : n[x] <= n[b] => f[x] = n[x]
    BY <1>1, <1>3, <1>4
  <1>11. \A x \in O : n[x] > n[b] => f[x] >= n[b] /\ f[x] = IF g.auto THEN n[x] - 1 ELSE n[x]
    BY <1>1, <1>3, <1>4
  <1>12. \A x, y \in R : f[x] <= f[y] <=> n[x] <= n[y]
    BY <1>1, <1>3, <1>4, <1>6
  <1>13. ASSUME g.auto PROVE Gapless(R, f)
    <2>1. SUFFICES ASSUME NEW x \in R, NEW m \in 1 .. f[x]
                   PROVE  \E y \in R : f[y] = m
      BY DEF Gapless
    <2>2. x \in O /\ n[x] # n[b] /\ n[x] \in Nat /\ f[x] \in Nat /\ x \in Buffer
      BY <1>1, <1>5, <1>6
    <2>3. \A k \in 1 .. n[x] : \E y \in O : n[y] = k
      BY <1>13, <2>2 DEF Sorted, Gapless, O, n
    <2>4. CASE m < n[b]
      <3>1. m \in 1 .. n[x]
        BY <1>1, <1>10, <1>11, <1>13, <2>2, <2>4
      <3>2. PICK y \in O : n[y] = m
        BY <2>3, <3>1
      <3>3. y \in R /\ f[y] = m
        <4>1. f[y] = m
          BY <1>1, <1>10, <2>4, <3>2
        <4>2. y \notin Members(g, b)
          BY <1>1, <2>4, <3>2 DEF Members, n
        <4>3. QED
          BY <4>1, <4>2 DEF R
      <3>4. QED
        BY <3>3
    <2>5. CASE ~(m < n[b])
      <3>1. n[x] > n[b]
        BY <1>1, <1>10, <2>2, <2>5
      <3>2. f[x] = n[x] - 1
        BY <1>11, <1>13, <2>2, <3>1
      <3>3. m + 1 \in 1 .. n[x] /\ m + 1 > n[b]
        BY <1>1, <2>2, <2>5, <3>2
      <3>4. PICK y \in O : n[y] = m + 1
        BY <2>3, <3>3
      <3>5. f[y] = m
        BY <1>1, <1>11, <1>13, <3>3, <3>4
      <3>6. y \in R
        BY <1>1, <3>3, <3>4 DEF Members, n, R
      <3>7. QED
        BY <3>5, <3>6
    <2>6. QED
      BY <2>4, <2>5
  <1>14. QED
    BY <1>5, <1>8, <1>9, <1>10, <1>11, <1>12, <1>13 DEF Lowered, f, n, O, R

-----------------------------------------------------------------------------
(* Room for buffers that were put in the list                              *)

(***************************************************************************)
(* The numbers f, when room is made from position i of the list on.        *)
(***************************************************************************)
Roomy(s, n, i, f) ==
  /\ f \in [Buffer -> Nat]
  /\ \A x \in Buffer : f[x] >= n[x]
  /\ \A x \in Buffer : x \notin From(s, i) => f[x] = n[x]
  /\ \A x, y \in From(s, i) : f[x] <= f[y] <=> n[x] <= n[y]
  /\ \A x \in Before(s, i), y \in From(s, i) : f[x] < f[y]
  /\ Gapless(ToSet(s), n) => Gapless(ToSet(s), f)

\* The positions from i on with no gap in between.
Run(s, n, i) ==
  {m \in i .. Len(s) : \A k \in i + 1 .. m : n[s[k]] <= n[s[k - 1]] + 1}

(***************************************************************************)
(* The numbers of a run go up, those after it are higher than before.      *)
(***************************************************************************)
LEMMA RunFacts ==
  ASSUME NEW s \in Seq(Buffer), NEW n \in [Buffer -> Nat], Ordered(s, n),
         NEW i \in 1 .. Len(s),
         NEW j \in i .. Len(s), NEW k \in i .. Len(s), j < k
  PROVE  /\ k \in Run(s, n, i) => j \in Run(s, n, i)
         /\ (j \in Run(s, n, i) /\ k \notin Run(s, n, i)) => n[s[j]] + 1 < n[s[k]]
  <1>1. Len(s) \in Nat /\ \A m \in 1 .. Len(s) : s[m] \in Buffer /\ n[s[m]] \in Nat
    BY SeqFacts
  <1>2. ASSUME k \in Run(s, n, i) PROVE j \in Run(s, n, i)
    <2>1. i + 1 .. j \subseteq i + 1 .. k
      BY <1>1
    <2>2. QED
      BY <1>2, <2>1 DEF Run
  <1>3. ASSUME j \in Run(s, n, i), k \notin Run(s, n, i)
        PROVE  n[s[j]] + 1 < n[s[k]]
    <2>1. PICK m \in i + 1 .. k : ~(n[s[m]] <= n[s[m - 1]] + 1)
      BY <1>3 DEF Run
    <2>2. m \notin i + 1 .. j
      BY <1>3, <2>1 DEF Run
    <2>3. m \in 1 .. Len(s) /\ m - 1 \in 1 .. Len(s) /\ j <= m - 1 /\ m <= k
      BY <1>1, <2>1, <2>2
    <2>4. n[s[j]] <= n[s[m - 1]]
      <3>1. j = m - 1 \/ j < m - 1
        BY <1>1, <2>3
      <3>2. QED
        BY <1>1, <2>3, <3>1 DEF Ordered
    <2>5. n[s[m]] <= n[s[k]]
      <3>1. m = k \/ m < k
        BY <1>1, <2>3
      <3>2. QED
        BY <1>1, <2>3, <3>1 DEF Ordered
    <2>6. /\ n[s[j]] \in Nat /\ n[s[m]] \in Nat /\ n[s[m - 1]] \in Nat
          /\ n[s[k]] \in Nat
      BY <1>1, <2>3
    <2>7. \A a, b, c, d \in Nat : ~(c <= b + 1) /\ a <= b /\ c <= d => a + 1 < d
      OBVIOUS
    <2>8. QED
      BY <2>1, <2>4, <2>5, <2>6, <2>7, Zenon
  <1>4. QED
    BY <1>2, <1>3

(***************************************************************************)
(* Numbers with none left out have no gap to stop at.                      *)
(***************************************************************************)
LEMMA RunWhole ==
  ASSUME NEW s \in Seq(Buffer), NEW n \in [Buffer -> Nat], Ordered(s, n),
         Gapless(ToSet(s), n), NEW i \in 1 .. Len(s)
  PROVE  Run(s, n, i) = i .. Len(s)
  <1>1. Len(s) \in Nat /\ \A m \in 1 .. Len(s) : s[m] \in ToSet(s) /\ n[s[m]] \in Nat
    BY SeqFacts
  <1>2. ASSUME NEW k \in i + 1 .. Len(s) PROVE n[s[k]] <= n[s[k - 1]] + 1
    <2>1. k \in 1 .. Len(s) /\ k - 1 \in 1 .. Len(s)
      BY <1>1
    <2> DEFINE m == n[s[k - 1]] + 1
    <2>2. n[s[k]] \in Nat /\ n[s[k - 1]] \in Nat /\ m \in Nat
      BY <1>1, <2>1
    <2>3. SUFFICES ASSUME m < n[s[k]] PROVE FALSE
      BY <2>2
    <2>4. m \in 1 .. n[s[k]] /\ s[k] \in ToSet(s)
      BY <1>1, <2>1, <2>2, <2>3
    <2> HIDE DEF m
    <2>5. PICK y \in ToSet(s) : n[y] = m
      BY <2>4 DEF Gapless
    <2>6. PICK q \in 1 .. Len(s) : s[q] = y
      BY SeqFacts
    <2>7. CASE q <= k - 1
      <3>1. n[s[q]] <= n[s[k - 1]]
        <4>1. q = k - 1 \/ q < k - 1
          BY <1>1, <2>7
        <4>2. QED
          BY <1>1, <2>1, <4>1 DEF Ordered
      <3>2. QED
        BY <2>2, <2>5, <2>6, <3>1 DEF m
    <2>8. CASE ~(q <= k - 1)
      <3>1. n[s[k]] <= n[s[q]]
        <4>1. q = k \/ k < q
          BY <1>1, <2>8
        <4>2. QED
          BY <1>1, <2>1, <4>1 DEF Ordered
      <3>2. QED
        BY <2>2, <2>3, <2>5, <2>6, <3>1
    <2>9. QED
      BY <2>7, <2>8
  <1>3. \A m \in i .. Len(s) : i + 1 .. m \subseteq i + 1 .. Len(s)
    BY <1>1
  <1>4. QED
    BY <1>2, <1>3 DEF Run

(***************************************************************************)
(* gui_buffer_shift_numbers(): the numbers of the run from position i go   *)
(* up, the others stay.                                                    *)
(***************************************************************************)
LEMMA ShiftFacts ==
  ASSUME NEW g \in GuiData, Once(g.list), Ordered(g.list, g.number),
         NEW i \in 2 .. Len(g.list), g.number[g.list[i]] = g.number[g.list[i - 1]]
  PROVE  \E f : ShiftNumbers(g, i) = [g EXCEPT !.number = f] /\ Roomy(g.list, g.number, i, f)
  <1> DEFINE s == g.list
             n == g.number
             J == Run(s, n, i)
             P == {s[j] : j \in J}
             f == [x \in Buffer |-> IF x \in P THEN n[x] + 1 ELSE n[x]]
  <1>1. /\ s \in Seq(Buffer) /\ Len(s) \in Nat /\ n \in [Buffer -> Nat]
        /\ \A j \in 1 .. Len(s) : s[j] \in Buffer /\ n[s[j]] \in Nat /\ s[j] \in ToSet(s)
    BY DataFacts, SeqFacts
  <1>2. ShiftNumbers(g, i) = [g EXCEPT !.number = f]
    BY DEF ShiftNumbers, Run
  <1>3. J \subseteq i .. Len(s) /\ J \subseteq 1 .. Len(s)
    BY <1>1 DEF Run
  <1>4. \A x \in Buffer : f[x] = IF x \in P THEN n[x] + 1 ELSE n[x]
    OBVIOUS
  <1>5. f \in [Buffer -> Nat]
    BY <1>1
  <1>6. \A j \in 1 .. Len(s) : s[j] \in P <=> j \in J
    BY <1>3 DEF Once
  <1>7. P \subseteq From(s, i)
    BY <1>3 DEF From
  <1> HIDE DEF f
  <1>8. \A j \in 1 .. Len(s) : f[s[j]] = IF j \in J THEN n[s[j]] + 1 ELSE n[s[j]]
    BY <1>1, <1>4, <1>6
  <1> HIDE DEF P
  <1>9. i \in 1 .. Len(s) /\ i - 1 \in 1 .. Len(s) /\ i \in J
    <2>1. i \in 1 .. Len(s) /\ i - 1 \in 1 .. Len(s)
      BY <1>1
    <2>2. i + 1 .. i = {}
      BY <1>1
    <2>3. i \in i .. Len(s)
      BY <1>1
    <2>4. QED
      BY <2>1, <2>2, <2>3 DEF Run
  <1>10. \A j, k \in i .. Len(s) : j < k =>
           /\ k \in J => j \in J
           /\ (j \in J /\ k \notin J) => n[s[j]] + 1 < n[s[k]]
    BY <1>1, <1>9, RunFacts
  <1>11. \A j, k \in 1 .. Len(s) : j < k => n[s[j]] <= n[s[k]]
    BY DEF Ordered
  <1>12. i .. Len(s) \subseteq 1 .. Len(s)
    BY <1>1
  <1>13. ASSUME Gapless(ToSet(s), n) PROVE J = i .. Len(s)
    BY <1>1, <1>9, <1>13, RunWhole
  <1> HIDE DEF J
  <1>14. \A x \in Buffer : f[x] >= n[x]
    BY <1>1, <1>4
  <1>15. \A x \in Buffer : x \notin From(s, i) => f[x] = n[x]
    BY <1>4, <1>7
  <1>16. ASSUME NEW j \in i .. Len(s), NEW k \in i .. Len(s), j < k
         PROVE  f[s[j]] <= f[s[k]] /\ (f[s[k]] <= f[s[j]] <=> n[s[k]] <= n[s[j]])
    <2>1. j \in 1 .. Len(s) /\ k \in 1 .. Len(s) /\ n[s[j]] \in Nat /\ n[s[k]] \in Nat
      BY <1>1, <1>12
    <2>2. n[s[j]] <= n[s[k]]
      BY <1>11, <1>16, <2>1
    <2>3. CASE j \in J <=> k \in J
      BY <1>8, <2>1, <2>2, <2>3
    <2>4. CASE j \in J /\ k \notin J
      <3>1. n[s[j]] + 1 < n[s[k]]
        BY <1>10, <1>16, <2>4
      <3>2. QED
        BY <1>8, <2>1, <2>4, <3>1
    <2>5. QED
      BY <1>10, <1>16, <2>3, <2>4
  <1>17. ASSUME NEW j \in i .. Len(s), NEW k \in i .. Len(s)
         PROVE  f[s[j]] <= f[s[k]] <=> n[s[j]] <= n[s[k]]
    <2>1. n[s[j]] \in Nat /\ n[s[k]] \in Nat /\ f[s[j]] \in Nat /\ f[s[k]] \in Nat
      BY <1>1, <1>5, <1>12
    <2>2. j < k \/ j = k \/ k < j
      BY <1>1
    <2>3. CASE j < k
      BY <1>11, <1>12, <1>16, <2>3
    <2>4. CASE j = k
      BY <2>1, <2>4
    <2>5. CASE k < j
      BY <1>16, <2>5
    <2>6. QED
      BY <2>2, <2>3, <2>4, <2>5
  <1>18. \A x, y \in From(s, i) : f[x] <= f[y] <=> n[x] <= n[y]
    BY <1>17 DEF From
  <1>19. ASSUME NEW j \in 1 .. i - 1, NEW k \in i .. Len(s) PROVE f[s[j]] < f[s[k]]
    <2>1. j \in 1 .. Len(s) /\ k \in 1 .. Len(s) /\ j \notin i .. Len(s)
      BY <1>1
    <2>2. n[s[j]] \in Nat /\ n[s[k]] \in Nat /\ n[s[i]] \in Nat
      BY <1>1, <1>9, <2>1
    <2>3. n[s[j]] <= n[s[i]]
      <3>1. j = i - 1 \/ j < i - 1
        BY <1>1
      <3>2. QED
        BY <1>9, <1>11, <2>1, <2>2, <3>1
    <2>4. n[s[i]] <= n[s[k]] /\ (i = k \/ i < k)
      <3>1. i = k \/ i < k
        BY <1>1
      <3>2. QED
        BY <1>9, <1>11, <2>1, <2>2, <3>1
    <2>5. f[s[j]] = n[s[j]]
      BY <1>3, <1>8, <2>1
    <2>6. CASE k \in J
      <3>1. f[s[k]] = n[s[k]] + 1
        BY <1>8, <2>1, <2>6
      <3>2. \A a, b, c \in Nat : a <= b /\ b <= c => a < c + 1
        OBVIOUS
      <3>3. QED
        BY <2>2, <2>3, <2>4, <2>5, <3>1, <3>2, Zenon
    <2>7. CASE k \notin J
      <3>1. i < k /\ i \in i .. Len(s)
        BY <1>1, <1>9, <2>4, <2>7
      <3>2. n[s[i]] + 1 < n[s[k]]
        BY <1>9, <1>10, <2>7, <3>1
      <3>3. f[s[k]] = n[s[k]]
        BY <1>8, <2>1, <2>7
      <3>4. QED
        BY <2>2, <2>3, <2>5, <3>2, <3>3
    <2>8. QED
      BY <2>6, <2>7
  <1>20. \A x \in Before(s, i), y \in From(s, i) : f[x] < f[y]
    BY <1>19 DEF Before, From
  <1>21. ASSUME Gapless(ToSet(s), n) PROVE Gapless(ToSet(s), f)
    <2>1. \A j \in 1 .. Len(s) : f[s[j]] = IF j >= i THEN n[s[j]] + 1 ELSE n[s[j]]
      BY <1>1, <1>8, <1>13, <1>21
    <2>2. SUFFICES ASSUME NEW x \in ToSet(s), NEW m \in 1 .. f[x]
                   PROVE  \E y \in ToSet(s) : f[y] = m
      BY DEF Gapless
    <2>3. PICK j \in 1 .. Len(s) : s[j] = x
      BY <1>1, SeqFacts
    <2>4. \A k \in 1 .. n[s[j]] : \E q \in 1 .. Len(s) : n[s[q]] = k
      <3>1. \A k \in 1 .. n[x] : \E y \in ToSet(s) : n[y] = k
        BY <1>21, <2>2 DEF Gapless
      <3>2. \A y \in ToSet(s) : \E q \in 1 .. Len(s) : s[q] = y
        BY <1>1, SeqFacts
      <3>3. QED
        BY <2>3, <3>1, <3>2
    <2> DEFINE a == n[s[i]]
    <2>5. a \in Nat /\ a = n[s[i - 1]] /\ n[s[j]] \in Nat /\ f[s[j]] \in Nat /\ m \in Nat
      BY <1>1, <1>5, <1>9
    <2>6. /\ \A q \in 1 .. Len(s) : q >= i => n[s[q]] >= a
          /\ \A q \in 1 .. Len(s) : q < i => n[s[q]] <= a
      <3>1. \A q \in 1 .. Len(s) : q >= i => q = i \/ i < q
        BY <1>1
      <3>2. \A q \in 1 .. Len(s) : q < i => q = i - 1 \/ q < i - 1
        BY <1>1
      <3>3. QED
        BY <1>1, <1>9, <1>11, <2>5, <3>1, <3>2
    <2> DEFINE b == n[s[j]]
               c == f[s[j]]
    <2>12. /\ b \in Nat /\ c \in Nat /\ m \in 1 .. c
           /\ j >= i => b >= a /\ c = b + 1
           /\ ~(j >= i) => b <= a /\ c = b
      <3>1. j >= i \/ j < i
        BY <1>1
      <3>2. m \in 1 .. c
        BY <2>2, <2>3
      <3>3. j >= i => b >= a /\ c = b + 1
        BY <2>1, <2>6
      <3>4. ~(j >= i) => b <= a /\ c = b
        BY <2>1, <2>6, <3>1
      <3>5. b \in Nat /\ c \in Nat
        BY <2>5
      <3> HIDE DEF b, c
      <3>6. QED
        BY <3>2, <3>3, <3>4, <3>5
    <2>13. \A k \in 1 .. b : \E q \in 1 .. Len(s) : n[s[q]] = k
      BY <2>4
    <2> HIDE DEF a, b, c
    <2>7. SUFFICES \E q \in 1 .. Len(s) : f[s[q]] = m
      BY <1>1
    <2>8. CASE m = a
      <3>1. f[s[i - 1]] = n[s[i - 1]]
        BY <1>9, <2>1
      <3>2. QED
        BY <1>9, <2>5, <2>8, <3>1
    <2>9. CASE m < a
      <3>1. m \in 1 .. b
        BY <2>5, <2>9, <2>12
      <3>2. PICK q \in 1 .. Len(s) : n[s[q]] = m
        BY <2>13, <3>1
      <3>3. ~(q >= i)
        BY <2>5, <2>6, <2>9, <3>2
      <3>4. QED
        BY <2>1, <3>2, <3>3
    <2>10. CASE m > a
      <3>2. c = b + 1
        BY <2>5, <2>10, <2>12
      <3>3. CASE m = a + 1
        <4>1. f[s[i]] = n[s[i]] + 1
          BY <1>9, <2>1
        <4>2. QED
          BY <1>9, <3>3, <4>1 DEF a
      <3>4. CASE m # a + 1
        <4>1. m - 1 \in 1 .. b /\ m - 1 > a
          <5>1. \A u, v, w \in Nat : w > u /\ w # u + 1 /\ 1 <= w /\ w <= v + 1
                  => w - 1 \in 1 .. v /\ w - 1 > u
            OBVIOUS
          <5>2. a \in Nat /\ b \in Nat /\ m \in Nat /\ 1 <= m /\ m <= b + 1
            BY <2>5, <2>12, <3>2
          <5>3. QED
            BY <2>10, <3>4, <5>1, <5>2, Zenon
        <4>2. PICK q \in 1 .. Len(s) : n[s[q]] = m - 1
          BY <2>13, <4>1
        <4>3. q >= i
          BY <1>1, <2>5, <2>6, <4>1, <4>2
        <4>4. f[s[q]] = m
          BY <2>1, <2>5, <4>2, <4>3
        <4>5. QED
          BY <4>4
      <3>5. QED
        BY <3>3, <3>4
    <2>11. QED
      BY <2>5, <2>8, <2>9, <2>10
  <1>22. Roomy(s, n, i, f)
    BY <1>5, <1>14, <1>15, <1>18, <1>20, <1>21 DEF Roomy
  <1>23. QED
    BY <1>2, <1>22

(***************************************************************************)
(* So it is when it is called, and when it is not needed.                  *)
(***************************************************************************)
LEMMA MakeRoomFacts ==
  ASSUME NEW g \in GuiData, Once(g.list), Ordered(g.list, g.number), NEW i \in 1 .. Len(g.list) + 1
  PROVE  \E f : MakeRoom(g, i) = [g EXCEPT !.number = f] /\ Roomy(g.list, g.number, i, f)
  <1> DEFINE s == g.list
             n == g.number
  <1>1. /\ s \in Seq(Buffer) /\ Len(s) \in Nat /\ n \in [Buffer -> Nat]
        /\ \A j \in 1 .. Len(s) : s[j] \in Buffer /\ n[s[j]] \in Nat
    BY DataFacts, SeqFacts
  <1>2. CASE i \in 2 .. Len(s) /\ n[s[i]] = n[s[i - 1]]
    BY <1>2, ShiftFacts DEF MakeRoom
  <1>3. CASE ~(i \in 2 .. Len(s) /\ n[s[i]] = n[s[i - 1]])
    <2>1. MakeRoom(g, i) = g
      BY <1>3 DEF MakeRoom
    <2>2. g = [g EXCEPT !.number = n]
      BY DEF GuiData
    <2>3. ASSUME NEW j \in 1 .. i - 1, NEW k \in i .. Len(s) PROVE n[s[j]] < n[s[k]]
      <3>1. /\ i \in 2 .. Len(s) /\ i \in 1 .. Len(s) /\ i - 1 \in 1 .. Len(s)
            /\ j \in 1 .. Len(s) /\ k \in 1 .. Len(s)
        BY <1>1
      <3>2. /\ n[s[j]] \in Nat /\ n[s[k]] \in Nat /\ n[s[i]] \in Nat
            /\ n[s[i - 1]] \in Nat /\ n[s[i]] # n[s[i - 1]]
        BY <1>1, <1>3, <3>1
      <3>3. n[s[i - 1]] <= n[s[i]]
        BY <1>1, <3>1 DEF Ordered
      <3>4. n[s[j]] <= n[s[i - 1]]
        <4>1. j = i - 1 \/ j < i - 1
          BY <1>1
        <4>2. QED
          BY <3>1, <3>2, <4>1 DEF Ordered
      <3>5. n[s[i]] <= n[s[k]]
        <4>1. i = k \/ i < k
          BY <1>1
        <4>2. QED
          BY <3>1, <3>2, <4>1 DEF Ordered
      <3>6. \A a, b, c, d \in Nat : a <= b /\ b <= c /\ c # b /\ c <= d => a < d
        OBVIOUS
      <3>7. QED
        BY <3>2, <3>3, <3>4, <3>5, <3>6, Zenon
    <2>4. \A x \in Before(s, i), y \in From(s, i) : n[x] < n[y]
      BY <2>3 DEF Before, From
    <2>5. \A x \in Buffer : n[x] >= n[x]
      BY <1>1
    <2>6. Roomy(s, n, i, n)
      BY <1>1, <2>4, <2>5 DEF Roomy
    <2>7. QED
      BY <2>1, <2>2, <2>6
  <1>4. QED
    BY <1>2, <1>3

(***************************************************************************)
(* The buffers of t, with a number n, are put in the list r where that     *)
(* number belongs: `f' are the numbers before room is made for it.         *)
(***************************************************************************)
Fits(r, t, i, f, n) ==
  /\ Once(r) /\ Once(t) /\ ToSet(r) \intersect ToSet(t) = {}
  /\ f \in [Buffer -> Nat] /\ Ordered(r, f)
  /\ n \in Nat /\ n >= 1
  /\ \A x \in ToSet(t) : f[x] = n
  /\ \A x \in ToSet(r) : f[x] >= 1
  /\ i \in 1 .. Len(r) + 1
  /\ \A x \in Before(r, i) : f[x] < n
  /\ \A x \in From(r, i) : n <= f[x]

NextInUse(r, f, n) ==
  /\ Gapless(ToSet(r), f)
  /\ \A m \in 1 .. n - 1 : \E y \in ToSet(r) : f[y] = m

(***************************************************************************)
(* The numbers h after that: the order of the others is kept, and the      *)
(* number of those of t is theirs alone.                                   *)
(***************************************************************************)
Apart(r, t, f, h) ==
  /\ h \in [Buffer -> Nat]
  /\ \A x \in Buffer \ ToSet(r) : h[x] = f[x]
  /\ \A x, y \in ToSet(r) : h[x] <= h[y] <=> f[x] <= f[y]
  /\ \A x \in ToSet(t), y \in ToSet(r) : h[x] # h[y]

(***************************************************************************)
(* The list with t in it: in order, but for the number of t that others    *)
(* may have.                                                               *)
(***************************************************************************)
LEMMA FitsCut ==
  ASSUME NEW r, NEW t, NEW i, NEW f, NEW n, Fits(r, t, i, f, n)
  PROVE  /\ Once(Inserted(r, i, t))
         /\ ToSet(Inserted(r, i, t)) = ToSet(r) \union ToSet(t)
         /\ Ordered(Inserted(r, i, t), f)
         /\ i + Len(t) \in 1 .. Len(Inserted(r, i, t)) + 1
         /\ From(Inserted(r, i, t), i + Len(t)) = From(r, i)
         /\ Before(Inserted(r, i, t), i + Len(t)) = Before(r, i) \union ToSet(t)
  <1> DEFINE L == Inserted(r, i, t)
             p == i + Len(t)
  <1>1. /\ r \in Seq(Buffer) /\ t \in Seq(Buffer) /\ Len(r) \in Nat /\ Len(t) \in Nat
        /\ i \in 1 .. Len(r) + 1 /\ i \in Nat /\ f \in [Buffer -> Int] /\ n \in Nat
        /\ Once(r) /\ Once(t) /\ ToSet(r) \intersect ToSet(t) = {}
        /\ f \in [Buffer -> Nat]
    <2>1. Once(r) /\ Once(t) /\ f \in [Buffer -> Nat]
      BY DEF Fits
    <2>2. r \in Seq(Buffer) /\ t \in Seq(Buffer)
      BY <2>1 DEF Once
    <2>3. Len(r) \in Nat /\ Len(t) \in Nat
      BY <2>2, SeqFacts
    <2>4. i \in 1 .. Len(r) + 1
      BY DEF Fits
    <2>5. i \in Nat /\ f \in [Buffer -> Int]
      BY <2>1, <2>3, <2>4
    <2>6. QED
      BY <2>1, <2>2, <2>3, <2>4, <2>5 DEF Fits
  <1>2. /\ ToSet(r) = Before(r, i) \union From(r, i)
        /\ ToSet(t) \subseteq Buffer /\ ToSet(r) \subseteq Buffer
    BY <1>1, CutFacts, SeqFacts
  <1>3. Ordered(t, f)
    <2>1. \A k \in 1 .. Len(t) : t[k] \in ToSet(t) /\ f[t[k]] = n
      BY <1>1, SeqFacts DEF Fits
    <2>2. QED
      BY <1>1, <2>1 DEF Ordered
  <1>4. \A x \in Before(r, i), y \in ToSet(t) : f[x] <= f[y]
    <2>1. ASSUME NEW x \in Before(r, i), NEW y \in ToSet(t) PROVE f[x] <= f[y]
      <3>1. f[x] < n /\ f[y] = n /\ f[x] \in Nat
        BY <1>1, <1>2 DEF Fits
      <3>2. QED
        BY <3>1, <1>1
    <2>2. QED
      BY <2>1
  <1>5. \A x \in ToSet(t), y \in From(r, i) : f[x] <= f[y]
    BY DEF Fits
  <1>6. /\ Once(L) /\ ToSet(L) = ToSet(r) \union ToSet(t)
        /\ Len(L) = Len(r) + Len(t)
        /\ \A k \in 1 .. i - 1 : L[k] = r[k]
        /\ \A k \in i .. i + Len(t) - 1 : L[k] = t[k - i + 1]
        /\ \A k \in i .. Len(r) : L[k + Len(t)] = r[k]
    <2>1. Once(L) /\ ToSet(L) = ToSet(r) \union ToSet(t)
      BY <1>1, InsertedFacts
    <2>2. Len(L) = Len(r) + Len(t)
      BY <1>1, InsertedFacts
    <2>3. \A k \in 1 .. i - 1 : L[k] = r[k]
      BY <1>1, InsertedFacts
    <2>4. ASSUME NEW k \in i .. i + Len(t) - 1 PROVE L[k] = t[k - i + 1]
      BY <1>1, InsertedFacts
    <2>5. \A k \in i .. Len(r) : L[k + Len(t)] = r[k]
      BY <1>1, InsertedFacts
    <2>6. QED
      BY <2>1, <2>2, <2>3, <2>4, <2>5
  <1>7. Ordered(L, f)
    BY <1>1, <1>3, <1>4, <1>5, InsertedFacts DEF Fits
  <1> HIDE DEF L
  <1>8. p \in 1 .. Len(L) + 1 /\ p \in Nat
    BY <1>1, <1>6
  <1>9. From(L, p) = From(r, i)
    <2>1. ASSUME NEW k \in p .. Len(L) PROVE L[k] \in From(r, i)
      <3>1. k - Len(t) \in i .. Len(r) /\ k - Len(t) + Len(t) = k
        BY <1>1, <1>6
      <3>2. L[k] = r[k - Len(t)]
        BY <1>6, <3>1
      <3>3. QED
        BY <3>1, <3>2 DEF From
    <2>2. ASSUME NEW k \in i .. Len(r) PROVE r[k] \in From(L, p)
      <3>1. k + Len(t) \in p .. Len(L)
        BY <1>1, <1>6
      <3>2. L[k + Len(t)] = r[k]
        BY <1>6
      <3>3. QED
        BY <3>1, <3>2 DEF From
    <2>3. \A x \in From(L, p) : \E k \in p .. Len(L) : x = L[k]
      BY DEF From
    <2>4. \A x \in From(r, i) : \E k \in i .. Len(r) : x = r[k]
      BY DEF From
    <2> HIDE DEF p
    <2>5. From(L, p) \subseteq From(r, i)
      BY <2>1, <2>3
    <2>6. From(r, i) \subseteq From(L, p)
      BY <2>2, <2>4
    <2>7. QED
      BY <2>5, <2>6
  <1>10. Before(L, p) = Before(r, i) \union ToSet(t)
    <2>1. ASSUME NEW k \in 1 .. p - 1 PROVE L[k] \in Before(r, i) \union ToSet(t)
      <3>1. CASE k <= i - 1
        <4>1. k \in 1 .. i - 1
          BY <1>1, <3>1
        <4>2. QED
          BY <1>6, <4>1 DEF Before
      <3>2. CASE ~(k <= i - 1)
        <4>1. k \in i .. i + Len(t) - 1 /\ k - i + 1 \in 1 .. Len(t)
          BY <1>1, <3>2
        <4>2. L[k] = t[k - i + 1]
          BY <1>6, <4>1
        <4>3. QED
          BY <1>1, <4>1, <4>2, SeqFacts
      <3>3. QED
        BY <3>1, <3>2
    <2>2. ASSUME NEW k \in 1 .. i - 1 PROVE r[k] \in Before(L, p)
      <3>1. k \in 1 .. p - 1 /\ L[k] = r[k]
        BY <1>1, <1>6
      <3>2. QED
        BY <3>1 DEF Before
    <2>3. ASSUME NEW k \in 1 .. Len(t) PROVE t[k] \in Before(L, p)
      <3>1. /\ k + i - 1 \in i .. i + Len(t) - 1 /\ k + i - 1 \in 1 .. p - 1
            /\ (k + i - 1) - i + 1 = k
        BY <1>1
      <3>2. L[k + i - 1] = t[k]
        BY <1>6, <3>1
      <3>3. QED
        BY <3>1, <3>2 DEF Before
    <2>4. \A x \in Before(L, p) : \E k \in 1 .. p - 1 : x = L[k]
      BY DEF Before
    <2>5. \A x \in Before(r, i) : \E k \in 1 .. i - 1 : x = r[k]
      BY DEF Before
    <2>6. \A x \in ToSet(t) : \E k \in 1 .. Len(t) : x = t[k]
      BY <1>1, SeqFacts
    <2> HIDE DEF p
    <2>7. QED
      BY <2>1, <2>2, <2>3, <2>4, <2>5, <2>6
  <1>11. QED
    BY <1>6, <1>7, <1>8, <1>9, <1>10 DEF L

(***************************************************************************)
(* After room is made, numbers are in order, and without gaps if they      *)
(* were.                                                                   *)
(***************************************************************************)
LEMMA PlacedFacts ==
  ASSUME NEW g \in GuiData, NEW r, NEW t, NEW i, NEW n, Fits(r, t, i, g.number, n),
         g.list = Inserted(r, i, t), g.auto => NextInUse(r, g.number, n)
  PROVE  \E h : /\ MakeRoom(g, i + Len(t)) = [g EXCEPT !.number = h]
                /\ Apart(r, t, g.number, h)
                /\ Sorted([g EXCEPT !.number = h])
  <1> DEFINE L == g.list
             f == g.number
             p == i + Len(t)
             O == ToSet(L)
  <1>1. /\ r \in Seq(Buffer) /\ t \in Seq(Buffer) /\ Once(r) /\ Once(t)
        /\ f \in [Buffer -> Nat] /\ n \in Nat /\ n >= 1 /\ Len(t) \in Nat
        /\ ToSet(r) \subseteq Buffer /\ ToSet(t) \subseteq Buffer
        /\ ToSet(r) \intersect ToSet(t) = {}
    <2>1. Once(r) /\ Once(t) /\ f \in [Buffer -> Nat] /\ n \in Nat /\ n >= 1
          /\ ToSet(r) \intersect ToSet(t) = {}
      BY DEF Fits
    <2>2. r \in Seq(Buffer) /\ t \in Seq(Buffer)
      BY <2>1 DEF Once
    <2>3. QED
      BY <2>1, <2>2, SeqFacts
  <1>2. /\ Once(L) /\ O = ToSet(r) \union ToSet(t) /\ Ordered(L, f)
        /\ p \in 1 .. Len(L) + 1
        /\ From(L, p) = From(r, i)
        /\ Before(L, p) = Before(r, i) \union ToSet(t)
    BY FitsCut
  <1>3. PICK h : MakeRoom(g, p) = [g EXCEPT !.number = h] /\ Roomy(L, f, p, h)
    BY <1>2, MakeRoomFacts
  <1>4. i \in 1 .. Len(r) + 1
    BY DEF Fits
  <1>5. /\ ToSet(r) = Before(r, i) \union From(r, i)
        /\ Before(r, i) \intersect From(r, i) = {}
        /\ O = Before(L, p) \union From(L, p)
        /\ Before(L, p) \intersect From(L, p) = {}
    BY <1>1, <1>2, <1>4, CutFacts
  <1>6. /\ h \in [Buffer -> Nat]
        /\ \A x \in Buffer : h[x] >= f[x]
        /\ \A x \in Buffer : x \notin From(r, i) => h[x] = f[x]
        /\ \A x, y \in From(r, i) : h[x] <= h[y] <=> f[x] <= f[y]
        /\ \A x \in Before(r, i) \union ToSet(t), y \in From(r, i) : h[x] < h[y]
        /\ Gapless(O, f) => Gapless(O, h)
    BY <1>2, <1>3 DEF Roomy
  <1>7. /\ \A x \in ToSet(t) : f[x] = n
        /\ \A x \in ToSet(r) : f[x] >= 1
        /\ \A x \in Before(r, i) : f[x] < n
        /\ \A x \in From(r, i) : n <= f[x]
    BY DEF Fits
  <1>8. L \in Seq(Buffer) /\ \A k \in 1 .. Len(L) : L[k] \in O /\ L[k] \in Buffer
    BY <1>2, SeqFacts DEF Once
  <1> HIDE DEF p, O, L, f
  <1>9. Apart(r, t, f, h)
    <2>1. \A x \in Buffer \ ToSet(r) : h[x] = f[x]
      BY <1>5, <1>6
    <2>2. \A x \in ToSet(r) : f[x] \in Nat /\ h[x] \in Nat
      BY <1>1, <1>6
    <2>3. \A x, y \in ToSet(r) : h[x] <= h[y] <=> f[x] <= f[y]
      <3>1. ASSUME NEW x \in ToSet(r), NEW y \in ToSet(r)
            PROVE  h[x] <= h[y] <=> f[x] <= f[y]
        <4>1. CASE x \in Before(r, i) /\ y \in Before(r, i)
          <5>1. h[x] = f[x] /\ h[y] = f[y]
            BY <1>1, <1>5, <1>6, <4>1
          <5>2. QED
            BY <5>1
        <4>2. CASE x \in From(r, i) /\ y \in From(r, i)
          BY <1>6, <4>2
        <4>3. CASE x \in Before(r, i) /\ y \in From(r, i)
          <5>1. h[x] < h[y] /\ f[x] < n /\ n <= f[y]
            BY <1>6, <1>7, <4>3
          <5>2. QED
            BY <1>1, <2>2, <5>1
        <4>4. CASE x \in From(r, i) /\ y \in Before(r, i)
          <5>1. h[y] < h[x] /\ f[y] < n /\ n <= f[x]
            BY <1>6, <1>7, <4>4
          <5>2. QED
            BY <1>1, <2>2, <5>1
        <4>5. QED
          BY <1>5, <4>1, <4>2, <4>3, <4>4
      <3>2. QED
        BY <3>1
    <2>4. ASSUME NEW x \in ToSet(t), NEW y \in ToSet(r) PROVE h[x] # h[y]
      <3>1. x \in Buffer /\ y \in Buffer /\ x \notin From(r, i)
        BY <1>1, <1>5
      <3>2. h[x] = n /\ h[y] \in Nat
        BY <1>6, <1>7, <3>1
      <3>3. CASE y \in Before(r, i)
        <4>1. h[y] = f[y] /\ f[y] < n
          BY <1>5, <1>6, <1>7, <3>1, <3>3
        <4>2. QED
          BY <1>1, <3>2, <4>1
      <3>4. CASE y \in From(r, i)
        <4>1. h[x] < h[y]
          BY <1>6, <3>4
        <4>2. QED
          BY <1>1, <3>2, <4>1
      <3>5. QED
        BY <1>5, <3>3, <3>4
    <2>5. QED
      BY <1>6, <2>1, <2>3, <2>4 DEF Apart
  <1>10. Ordered(L, h)
    <2>1. SUFFICES ASSUME NEW j \in 1 .. Len(L), NEW k \in 1 .. Len(L), j < k
                   PROVE  h[L[j]] <= h[L[k]]
      BY DEF Ordered
    <2>2. f[L[j]] <= f[L[k]]
      BY <1>2, <2>1 DEF Ordered
    <2>3. Len(L) \in Nat /\ h[L[j]] \in Nat /\ h[L[k]] \in Nat
      BY <1>6, <1>8, SeqFacts
    <2>4. CASE k < p
      <3>1. j \in 1 .. p - 1 /\ k \in 1 .. p - 1
        BY <1>2, <2>1, <2>3, <2>4
      <3>2. L[j] \in Before(L, p) /\ L[k] \in Before(L, p)
        BY <3>1 DEF Before
      <3>3. h[L[j]] = f[L[j]] /\ h[L[k]] = f[L[k]]
        BY <1>2, <1>5, <1>6, <1>8, <3>2
      <3>4. QED
        BY <2>2, <3>3
    <2>5. CASE j >= p
      <3>1. j \in p .. Len(L) /\ k \in p .. Len(L)
        BY <1>2, <2>1, <2>3, <2>5
      <3>2. L[j] \in From(r, i) /\ L[k] \in From(r, i)
        BY <1>2, <3>1 DEF From
      <3>3. QED
        BY <1>6, <2>2, <3>2
    <2>6. CASE j < p /\ k >= p
      <3>1. j \in 1 .. p - 1 /\ k \in p .. Len(L)
        BY <1>2, <2>1, <2>3, <2>6
      <3>2. L[j] \in Before(r, i) \union ToSet(t) /\ L[k] \in From(r, i)
        BY <1>2, <3>1 DEF From, Before
      <3>3. h[L[j]] < h[L[k]]
        BY <1>6, <3>2
      <3>4. QED
        BY <2>3, <3>3
    <2>7. QED
      BY <1>2, <2>3, <2>4, <2>5, <2>6
  <1>11. \A x \in O : h[x] >= 1
    <2>1. ASSUME NEW x \in O PROVE h[x] >= 1
      <3>1. x \in Buffer /\ f[x] >= 1
        BY <1>1, <1>2, <1>7
      <3>2. h[x] >= f[x] /\ h[x] \in Nat /\ f[x] \in Nat
        BY <1>1, <1>6, <3>1
      <3>3. QED
        BY <3>1, <3>2
    <2>2. QED
      BY <2>1
  <1>12. ASSUME g.auto PROVE Gapless(O, h)
    <2>1. /\ \A x \in ToSet(r) : \A m \in 1 .. f[x] : \E y \in ToSet(r) : f[y] = m
          /\ \A m \in 1 .. n - 1 : \E y \in ToSet(r) : f[y] = m
      BY <1>12 DEF NextInUse, Gapless, f
    <2>2. SUFFICES Gapless(O, f)
      BY <1>6
    <2>3. SUFFICES ASSUME NEW x \in O, NEW m \in 1 .. f[x]
                   PROVE  \E y \in O : f[y] = m
      BY DEF Gapless
    <2>4. CASE x \in ToSet(r)
      BY <1>2, <2>1, <2>4
    <2>5. CASE x \in ToSet(t)
      <3>1. f[x] = n
        BY <1>7, <2>5
      <3>2. m = n \/ m \in 1 .. n - 1
        BY <1>1, <3>1
      <3>3. QED
        BY <1>2, <2>1, <2>5, <3>1, <3>2
    <2>6. QED
      BY <1>2, <2>4, <2>5
  <1> DEFINE G == [g EXCEPT !.number = h]
  <1>13. G.list = L /\ G.number = h /\ G.auto = g.auto /\ Opened(G) = O
    BY DEF GuiData, L, O, Opened
  <1>14. Sorted(G)
    <2> HIDE DEF G
    <2>1. QED
      BY <1>2, <1>10, <1>11, <1>12, <1>13 DEF Sorted
  <1>15. QED
    BY <1>3, <1>9, <1>14 DEF f, p, L

-----------------------------------------------------------------------------
(* Groups with one active buffer and shared lines; windows are counted     *)

(***************************************************************************)
(* What an update of some of the data leaves.                              *)
(***************************************************************************)
LEMMA NewDisplayed ==
  ASSUME NEW g \in GuiData, NEW d \in [Buffer -> Nat]
  PROVE  LET h == [g EXCEPT !.displayed = d]
         IN  /\ h \in GuiData /\ h.list = g.list /\ h.number = g.number
             /\ h.active = g.active /\ h.zoomed = g.zoomed /\ h.mixed = g.mixed
             /\ h.own = g.own /\ h.shown = g.shown /\ h.displayed = d
             /\ h.content = g.content /\ h.auto = g.auto /\ h.hidden = g.hidden
  BY DEF GuiData

-----------------------------------------------------------------------------
(* Groups                                                                  *)

(***************************************************************************)
(* O: the buffers of the list, with numbers n.  One of those with the      *)
(* number of x is active; the members of a group share lines.              *)
(***************************************************************************)
OneIn(O, n, active, x) ==
  /\ \E y \in O : n[y] = n[x] /\ active[y] # 0
  /\ \A y, z \in O : n[y] = n[x] /\ n[z] = n[x] /\ active[y] # 0 /\ active[z] # 0 => y = z

SharedLines(O, n, mixed, content, own) ==
  /\ \A x \in O : mixed[x] <=> \E y \in O : y # x /\ n[y] = n[x]
  /\ \A x, y \in O : n[x] = n[y] => content[x] = content[y]
  /\ \A x \in O : \A y \in content[x] : y \in O /\ n[y] = n[x]
  /\ \A x \in Buffer : own[x] \/ mixed[x]
  /\ \A x \in Buffer : mixed[x] \/ content[x] = {}

\* A buffer that is not in the list has the data of a new one.
AsNew(O, active, mixed) == \A x \in Buffer \ O : active[x] # 0 /\ ~ mixed[x]

Sound(g) ==
  /\ \A x \in Opened(g) : OneIn(Opened(g), g.number, g.active, x)
  /\ SharedLines(Opened(g), g.number, g.mixed, g.content, g.own)
  /\ AsNew(Opened(g), g.active, g.mixed)

Good(g) == g \in GuiData /\ Sorted(g) /\ Sound(g)

\* All but the active one of the group of b is as it must be.
SoundBut(g, b) ==
  /\ \A x \in Opened(g) : g.number[x] # g.number[b] =>
       OneIn(Opened(g), g.number, g.active, x)
  /\ SharedLines(Opened(g), g.number, g.mixed, g.content, g.own)
  /\ AsNew(Opened(g), g.active, g.mixed)

\* What is left when only numbers, groups and counts change.
Same(g, h) ==
  /\ Opened(h) = Opened(g) /\ h.auto = g.auto /\ h.shown = g.shown
  /\ h.hidden = g.hidden
  /\ \A x \in Buffer \ Opened(g) : h.displayed[x] = g.displayed[x]

LEMMA SameTwice ==
  ASSUME NEW g, NEW h, NEW k, Same(g, h), Same(h, k)
  PROVE  Same(g, k)
  BY DEF Same

(***************************************************************************)
(* Who is in a group, and whether it is one of several.                    *)
(***************************************************************************)
LEMMA MembersFacts ==
  ASSUME NEW g \in GuiData, NEW b \in Buffer
  PROVE  /\ Members(g, b) = {x \in Opened(g) : g.number[x] = g.number[b]}
         /\ Members(g, b) \subseteq Opened(g) /\ Opened(g) \subseteq Buffer
         /\ IsFiniteSet(Members(g, b))
         /\ b \in Opened(g) => b \in Members(g, b)
  <1>1. Opened(g) \subseteq Buffer
    BY DataFacts
  <1>2. IsFiniteSet(Opened(g))
    BY <1>1, FS_Subset, BufferAssumption
  <1>3. Members(g, b) \in SUBSET Opened(g)
    BY DEF Members
  <1>4. IsFiniteSet(Members(g, b))
    BY <1>2, <1>3, FS_Subset
  <1>5. QED
    BY <1>1, <1>3, <1>4 DEF Members

LEMMA MergedFacts ==
  ASSUME NEW g \in GuiData, NEW b \in Opened(g)
  PROVE  Merged(g, b) <=> \E x \in Opened(g) : x # b /\ g.number[x] = g.number[b]
  <1> DEFINE M == Members(g, b)
  <1>1. b \in Buffer /\ IsFiniteSet(M) /\ b \in M
    BY MembersFacts, DataFacts
  <1>2. \A x : x \in M <=> x \in Opened(g) /\ g.number[x] = g.number[b]
    BY DEF Members
  <1> HIDE DEF M
  <1>3. Cardinality(M) \in Nat /\ (Cardinality(M) = 0 <=> M = {})
    BY <1>1, FS_CardinalityType, FS_EmptySet
  <1>4. Cardinality(M) = 1 <=> \E x : M = {x}
    BY <1>1, FS_Singleton
  <1>5. Cardinality(M) > 1 <=> M # {b}
    <2>1. M # {}
      BY <1>1
    <2>2. Cardinality(M) > 1 <=> ~(\E x : M = {x})
      BY <1>3, <1>4, <2>1
    <2>3. QED
      BY <1>1, <2>2
  <1>6. QED
    BY <1>1, <1>2, <1>5 DEF Merged, M

(***************************************************************************)
(* Which of a group is active has to do with who is in the group only.     *)
(***************************************************************************)
LEMMA SameGroups ==
  ASSUME NEW g, NEW h, Sound(g), Opened(h) = Opened(g),
         h.active = g.active, h.mixed = g.mixed, h.content = g.content, h.own = g.own,
         \A x, y \in Opened(g) : h.number[x] = h.number[y] <=> g.number[x] = g.number[y]
  PROVE  Sound(h)
  <1> DEFINE O == Opened(g)
  <1>1. ASSUME NEW x \in O PROVE OneIn(O, h.number, h.active, x)
    <2>1. OneIn(O, g.number, g.active, x)
      BY DEF Sound
    <2>2. QED
      BY <2>1 DEF OneIn
  <1>2. SharedLines(O, h.number, h.mixed, h.content, h.own)
    <2>1. SharedLines(O, g.number, g.mixed, g.content, g.own)
      BY DEF Sound
    <2>2. QED
      BY <2>1 DEF SharedLines
  <1>3. QED
    BY <1>1, <1>2 DEF Sound

(***************************************************************************)
(* SetActive: the level of the one that was active goes to b.              *)
(***************************************************************************)
Activated(g, b, w, a) ==
  /\ w \in [Buffer -> BOOLEAN] /\ a \in [Buffer -> 0..2]
  /\ \A x \in Buffer \ Members(g, b) : a[x] = g.active[x] /\ w[x] = g.own[x]
  /\ \A x \in Members(g, b) : a[x] # 0 <=> x = b
  /\ g.own[b] => w[b]
  /\ \A x \in Members(g, b) :
       OneIn(Opened(g), g.number, g.active, b) /\ g.active[x] = 2 => a[b] = 2

(***************************************************************************)
(* gui_buffer_set_active_buffer(), as one update of the levels and lines.  *)
(***************************************************************************)
LEMMA SetActiveFacts ==
  ASSUME NEW g \in GuiData, NEW b \in Opened(g)
  PROVE  \E w \in [Buffer -> BOOLEAN], a \in [Buffer -> 0..2] :
           SetActive(g, b) = [g EXCEPT !.own = w, !.active = a] /\ Activated(g, b, w, a)
  <1> DEFINE M == Members(g, b)
             A == {x \in M : g.active[x] # 0}
             was == FirstOf(g.list, A)
             level == IF was = NoBuffer THEN 1 ELSE g.active[was]
             w == [x \in Buffer |-> IF x \notin M THEN g.own[x]
                                    ELSE IF x = b THEN level = 2 \/ g.own[x]
                                    ELSE g.active[x] # 2 /\ g.own[x]]
             a == [x \in Buffer |-> IF x \notin M THEN g.active[x]
                                    ELSE IF x = b THEN level ELSE 0]
  <1>1. SetActive(g, b) = [g EXCEPT !.own = w, !.active = a]
    BY DEF SetActive, GuiData
  <1>2. /\ g.active \in [Buffer -> 0..2] /\ g.own \in [Buffer -> BOOLEAN]
        /\ g.list \in Seq(Buffer) /\ Opened(g) = ToSet(g.list) /\ Opened(g) \subseteq Buffer
        /\ b \in Buffer /\ b \in M /\ M \subseteq Opened(g)
    BY DataFacts, MembersFacts
  <1>3. was = NoBuffer \/ was \in A
    BY <1>2, FirstOfFacts
  <1>4. was = NoBuffer => A = {}
    <2>1. was = NoBuffer <=> ToSet(g.list) \intersect A = {}
      BY <1>2, FirstOfFacts
    <2>2. QED
      BY <1>2, <2>1
  <1>5. level \in 0..2 /\ level # 0
    <2>1. CASE was = NoBuffer
      BY <2>1
    <2>2. CASE was # NoBuffer
      <3>1. was \in Buffer /\ g.active[was] # 0 /\ level = g.active[was]
        BY <1>2, <1>3, <2>2
      <3>2. QED
        BY <1>2, <3>1
    <2>3. QED
      BY <2>1, <2>2
  <1>6. ASSUME NEW x \in M, OneIn(Opened(g), g.number, g.active, b), g.active[x] = 2
        PROVE  level = 2
    <2>1. x \in A /\ was # NoBuffer /\ was \in A
      BY <1>3, <1>4, <1>6
    <2>2. /\ x \in Opened(g) /\ was \in Opened(g)
          /\ g.number[x] = g.number[b] /\ g.number[was] = g.number[b]
          /\ g.active[x] # 0 /\ g.active[was] # 0
      BY <2>1 DEF Members
    <2>3. was = x
      BY <1>6, <2>2 DEF OneIn
    <2>4. QED
      BY <1>6, <2>1, <2>3
  <1> HIDE DEF level, M
  <1>7. w \in [Buffer -> BOOLEAN] /\ a \in [Buffer -> 0..2]
    <2>1. \A x \in Buffer : g.own[x] \in BOOLEAN /\ g.active[x] \in 0..2
      BY <1>2
    <2>2. \A x \in Buffer : w[x] \in BOOLEAN
      BY <2>1
    <2>3. \A x \in Buffer : a[x] \in 0..2
      BY <1>5, <2>1
    <2>4. w = [x \in Buffer |-> w[x]] /\ a = [x \in Buffer |-> a[x]]
      OBVIOUS
    <2> HIDE DEF w, a
    <2>5. QED
      BY <2>2, <2>3, <2>4
  <1>8. \A x \in Buffer \ M : a[x] = g.active[x] /\ w[x] = g.own[x]
    OBVIOUS
  <1>9. \A x \in M : a[x] # 0 <=> x = b
    BY <1>2, <1>5
  <1>10. g.own[b] => w[b]
    BY <1>2
  <1>11. a[b] = level
    BY <1>2
  <1> HIDE DEF w, a
  <1>12. Activated(g, b, w, a)
    BY <1>6, <1>7, <1>8, <1>9, <1>10, <1>11 DEF Activated, M
  <1>13. QED
    BY <1>1, <1>7, <1>12

(***************************************************************************)
(* It makes a group sound that lacks just one active buffer.               *)
(***************************************************************************)
LEMMA SetActiveSound ==
  ASSUME NEW g \in GuiData, NEW b \in Opened(g), SoundBut(g, b)
  PROVE  /\ SetActive(g, b) \in GuiData
         /\ Sound(SetActive(g, b)) /\ Same(g, SetActive(g, b))
         /\ SetActive(g, b).list = g.list /\ SetActive(g, b).number = g.number
         /\ SetActive(g, b).zoomed = g.zoomed /\ SetActive(g, b).displayed = g.displayed
         /\ SetActive(g, b).mixed = g.mixed /\ SetActive(g, b).content = g.content
  <1> DEFINE O == Opened(g)
             n == g.number
  <1>1. PICK w \in [Buffer -> BOOLEAN], a \in [Buffer -> 0..2] :
          SetActive(g, b) = [g EXCEPT !.own = w, !.active = a] /\ Activated(g, b, w, a)
    BY SetActiveFacts
  <1> DEFINE h == SetActive(g, b)
  <1>3. /\ h \in GuiData /\ h.list = g.list /\ h.number = g.number
        /\ h.active = a /\ h.zoomed = g.zoomed /\ h.mixed = g.mixed
        /\ h.own = w /\ h.shown = g.shown /\ h.displayed = g.displayed
        /\ h.auto = g.auto /\ h.hidden = g.hidden /\ h.content = g.content
    <2> DEFINE k == [g EXCEPT !.own = w, !.active = a]
    <2>1. /\ k \in GuiData /\ k.list = g.list /\ k.number = g.number
          /\ k.active = a /\ k.zoomed = g.zoomed /\ k.mixed = g.mixed
          /\ k.own = w /\ k.shown = g.shown /\ k.displayed = g.displayed
          /\ k.auto = g.auto /\ k.hidden = g.hidden /\ k.content = g.content
      BY DEF GuiData
    <2>2. h = k
      BY <1>1
    <2> HIDE DEF h, k
    <2>3. QED
      BY <2>1, <2>2
  <1>4. Opened(h) = O
    BY <1>3 DEF Opened
  <1>5. /\ O \subseteq Buffer /\ b \in Buffer
        /\ \A x \in O : x \in Members(g, b) <=> n[x] = n[b]
        /\ \A x \in Members(g, b) : x \in O
    BY DataFacts DEF Members
  <1>6. /\ \A x \in Buffer \ Members(g, b) : a[x] = g.active[x] /\ w[x] = g.own[x]
        /\ \A x \in Members(g, b) : a[x] # 0 <=> x = b
        /\ g.own[b] => w[b]
    BY <1>1 DEF Activated
  <1>7. ASSUME NEW x \in O PROVE OneIn(O, n, a, x)
    <2>1. CASE n[x] = n[b]
      <3>1. \A y \in O : n[y] = n[x] => (a[y] # 0 <=> y = b)
        BY <1>5, <1>6, <2>1
      <3>2. QED
        BY <2>1, <3>1 DEF OneIn
    <2>2. CASE n[x] # n[b]
      <3>1. OneIn(O, n, g.active, x)
        BY <2>2 DEF SoundBut
      <3>2. \A y \in O : n[y] = n[x] => a[y] = g.active[y]
        BY <1>5, <1>6, <2>2
      <3>3. QED
        BY <3>1, <3>2 DEF OneIn
    <2>3. QED
      BY <2>1, <2>2
  <1>8. SharedLines(O, n, g.mixed, g.content, w)
    <2>1. SharedLines(O, n, g.mixed, g.content, g.own)
      BY DEF SoundBut
    <2>2. ASSUME NEW x \in Buffer PROVE w[x] \/ g.mixed[x]
      <3>1. CASE x \notin Members(g, b) \/ x = b
        BY <1>6, <2>1, <3>1 DEF SharedLines
      <3>2. CASE x \in Members(g, b) /\ x # b
        <4>1. x \in O /\ n[x] = n[b] /\ b # x
          BY <1>5, <3>2
        <4>2. QED
          BY <2>1, <4>1 DEF SharedLines
      <3>3. QED
        BY <3>1, <3>2
    <2>3. QED
      BY <2>1, <2>2 DEF SharedLines
  <1>9. AsNew(O, a, g.mixed)
    <2>1. AsNew(O, g.active, g.mixed)
      BY DEF SoundBut
    <2>2. QED
      BY <1>5, <1>6, <2>1 DEF AsNew
  <1> HIDE DEF h
  <1>10. Sound(h)
    BY <1>3, <1>4, <1>7, <1>8, <1>9 DEF Sound
  <1>11. Same(g, h)
    BY <1>3, <1>4 DEF Same
  <1>12. QED
    BY <1>3, <1>10, <1>11 DEF h

(***************************************************************************)
(* gui_buffer_set_active_buffer() keeps the data good.                     *)
(***************************************************************************)
LEMMA SetActiveGood ==
  ASSUME NEW g, Good(g), NEW b \in Opened(g)
  PROVE  /\ Good(SetActive(g, b)) /\ Same(g, SetActive(g, b))
         /\ SetActive(g, b).list = g.list /\ SetActive(g, b).number = g.number
         /\ SetActive(g, b).zoomed = g.zoomed /\ SetActive(g, b).displayed = g.displayed
  <1> DEFINE h == SetActive(g, b)
  <1>1. g \in GuiData /\ SoundBut(g, b) /\ Sorted(g)
    BY DEF Good, Sound, SoundBut
  <1>2. /\ h \in GuiData /\ Sound(h) /\ Same(g, h)
        /\ h.list = g.list /\ h.number = g.number
        /\ h.zoomed = g.zoomed /\ h.displayed = g.displayed
    BY <1>1, SetActiveSound
  <1> HIDE DEF h
  <1>3. Sorted(h)
    BY <1>1, <1>2 DEF Sorted, Same
  <1>4. QED
    BY <1>2, <1>3 DEF Good, h

(***************************************************************************)
(* CountDisplayed changes one count of each buffer of the list.            *)
(***************************************************************************)
LEMMA LookingFinite ==
  ASSUME NEW g, NEW b
  PROVE  IsFiniteSet(Looking(g, b)) /\ Cardinality(Looking(g, b)) \in Nat
  <1>1. Looking(g, b) \in SUBSET Window
    BY DEF Looking
  <1>2. IsFiniteSet(Looking(g, b))
    BY <1>1, FS_Subset, BufferAssumption
  <1>3. QED
    BY <1>2, FS_CardinalityType

(***************************************************************************)
(* gui_buffer_compute_num_displayed() changes one field.                   *)
(***************************************************************************)
LEMMA CountFacts ==
  ASSUME NEW g \in GuiData
  PROVE  \E d \in [Buffer -> Nat] :
           /\ CountDisplayed(g) = [g EXCEPT !.displayed = d]
           /\ \A x \in Buffer \ Opened(g) : d[x] = g.displayed[x]
           /\ \A x \in Opened(g) : g.zoomed[x] \/ d[x] = Cardinality(Looking(g, x))
  <1> DEFINE d == [x \in Buffer |-> IF x \notin Opened(g) THEN g.displayed[x]
                                    ELSE IF g.zoomed[x] /\ g.active[x] # 2 THEN 0
                                    ELSE Cardinality(Looking(g, x))]
  <1>1. CountDisplayed(g) = [g EXCEPT !.displayed = d]
    BY DEF CountDisplayed, GuiData
  <1>2. \A x \in Buffer : g.displayed[x] \in Nat /\ Cardinality(Looking(g, x)) \in Nat
    BY LookingFinite, DataFacts
  <1>3. d \in [Buffer -> Nat]
    BY <1>2
  <1>4. \A x \in Buffer \ Opened(g) : d[x] = g.displayed[x]
    OBVIOUS
  <1>5. \A x \in Opened(g) : g.zoomed[x] \/ d[x] = Cardinality(Looking(g, x))
    BY DataFacts
  <1> HIDE DEF d
  <1>6. QED
    BY <1>1, <1>3, <1>4, <1>5

(***************************************************************************)
(* gui_buffer_compute_num_displayed() keeps the data good.                 *)
(***************************************************************************)
LEMMA CountGood ==
  ASSUME NEW g \in GuiData, Sorted(g), Sound(g)
  PROVE  /\ Good(CountDisplayed(g)) /\ Same(g, CountDisplayed(g))
         /\ CountDisplayed(g).list = g.list /\ CountDisplayed(g).number = g.number
         /\ CountDisplayed(g).active = g.active /\ CountDisplayed(g).zoomed = g.zoomed
  <1>1. PICK d \in [Buffer -> Nat] :
          /\ CountDisplayed(g) = [g EXCEPT !.displayed = d]
          /\ \A x \in Buffer \ Opened(g) : d[x] = g.displayed[x]
          /\ \A x \in Opened(g) : g.zoomed[x] \/ d[x] = Cardinality(Looking(g, x))
    BY CountFacts
  <1> DEFINE h == CountDisplayed(g)
  <1>2. /\ h \in GuiData /\ h.list = g.list /\ h.number = g.number
        /\ h.active = g.active /\ h.zoomed = g.zoomed /\ h.mixed = g.mixed
        /\ h.own = g.own /\ h.shown = g.shown /\ h.displayed = d
        /\ h.auto = g.auto /\ h.hidden = g.hidden /\ h.content = g.content
    BY <1>1, NewDisplayed
  <1> HIDE DEF h
  <1>3. Opened(h) = Opened(g)
    BY <1>2 DEF Opened
  <1>4. Sound(h)
    BY <1>2, <1>3, SameGroups
  <1>5. Sorted(h)
    BY <1>2, <1>3 DEF Sorted
  <1>6. QED
    BY <1>1, <1>2, <1>3, <1>4, <1>5 DEF Good, Same, h

-----------------------------------------------------------------------------
(* Merging                                                                 *)

(***************************************************************************)
(* The counts of windows, as DisplayedUnlessZoomed says.                   *)
(***************************************************************************)
Counted(g) ==
  \A b \in Opened(g) :
    \/ g.displayed[b] = Cardinality(Looking(g, b))
    \/ \E x \in Opened(g) : /\ g.number[x] = g.number[b]
                            /\ g.zoomed[x] \/ g.active[x] = 2

(***************************************************************************)
(* It makes the counts right.                                              *)
(***************************************************************************)
LEMMA CountCounted ==
  ASSUME NEW g \in GuiData
  PROVE  Counted(CountDisplayed(g))
  <1>1. PICK d \in [Buffer -> Nat] :
          /\ CountDisplayed(g) = [g EXCEPT !.displayed = d]
          /\ \A x \in Buffer \ Opened(g) : d[x] = g.displayed[x]
          /\ \A x \in Opened(g) : g.zoomed[x] \/ d[x] = Cardinality(Looking(g, x))
    BY CountFacts
  <1> DEFINE h == CountDisplayed(g)
  <1>2. /\ h \in GuiData /\ h.list = g.list /\ h.number = g.number
        /\ h.zoomed = g.zoomed /\ h.shown = g.shown /\ h.displayed = d
    BY <1>1, NewDisplayed
  <1> HIDE DEF h
  <1>3. Opened(h) = Opened(g) /\ \A x : Looking(h, x) = Looking(g, x)
    BY <1>2 DEF Opened, Looking
  <1>4. Counted(h)
    BY <1>1, <1>2, <1>3 DEF Counted
  <1>5. QED
    BY <1>4 DEF h

(***************************************************************************)
(* The lines of a group are mixed.                                         *)
(***************************************************************************)
LEMMA MixFacts ==
  ASSUME NEW g \in GuiData, NEW b \in Opened(g), NEW t \in Members(g, b), t # b,
         NEW S \in SUBSET Buffer, b \in S, \A x \in Members(g, b) : x \in S,
         \A x \in Members(g, b) : g.content[x] \subseteq S
  PROVE  \E lines \in SUBSET S :
           Mix(g, b) = [g EXCEPT
             !.mixed = [x \in Buffer |-> x \in Members(g, b) \/ g.mixed[x]],
             !.content = [x \in Buffer |-> IF x \in Members(g, b) THEN lines ELSE g.content[x]],
             !.own = [x \in Buffer |-> x \notin Members(g, b) /\ g.own[x]]]
  <1> DEFINE other == FirstOf(g.list, Members(g, b) \ {b})
             lines == Lines(g, other) \union Lines(g, b)
  <1>1. /\ g.content \in [Buffer -> SUBSET Buffer] /\ g.list \in Seq(Buffer)
        /\ Opened(g) = ToSet(g.list) /\ Opened(g) \subseteq Buffer /\ b \in Buffer
        /\ Members(g, b) \subseteq Opened(g) /\ b \in Members(g, b)
    BY DataFacts, MembersFacts
  <1>2. other \in Members(g, b)
    <2>1. t \in ToSet(g.list) \intersect (Members(g, b) \ {b})
      BY <1>1
    <2>2. /\ other = NoBuffer <=> ToSet(g.list) \intersect (Members(g, b) \ {b}) = {}
          /\ other # NoBuffer => other \in ToSet(g.list) \intersect (Members(g, b) \ {b})
      BY <1>1, FirstOfFacts
    <2> HIDE DEF other
    <2>3. QED
      BY <2>1, <2>2
  <1> HIDE DEF other
  <1>3. \A x \in Members(g, b) : Lines(g, x) \subseteq S
    BY DEF Lines
  <1>4. lines \in SUBSET S
    BY <1>1, <1>2, <1>3
  <1>5. Mix(g, b) = [g EXCEPT
             !.mixed = [x \in Buffer |-> x \in Members(g, b) \/ g.mixed[x]],
             !.content = [x \in Buffer |-> IF x \in Members(g, b) THEN lines ELSE g.content[x]],
             !.own = [x \in Buffer |-> x \notin Members(g, b) /\ g.own[x]]]
    BY DEF Mix, other, GuiData
  <1> HIDE DEF lines
  <1>6. QED
    BY <1>4, <1>5

(***************************************************************************)
(* The groups of b and t, which have got the number of t.                  *)
(***************************************************************************)
Joined(g, b, t, f) ==
  \A x, y \in Opened(g) :
    f[x] = f[y] <=> \/ g.number[x] = g.number[y]
                    \/ {g.number[x], g.number[y]} = {g.number[b], g.number[t]}

(***************************************************************************)
(* After a merge the lines of the group are shared, and b is to be the     *)
(* active one.                                                             *)
(***************************************************************************)
LEMMA MixSound ==
  ASSUME NEW g, Sound(g), NEW b \in Opened(g), NEW t \in Opened(g),
         g.number[b] # g.number[t],
         NEW p \in GuiData, Opened(p) = Opened(g), Joined(g, b, t, p.number),
         p.active = g.active, p.mixed = g.mixed, p.content = g.content, p.own = g.own
  PROVE  /\ Mix(p, b) \in GuiData /\ SoundBut(Mix(p, b), b)
         /\ Mix(p, b).list = p.list /\ Mix(p, b).number = p.number
         /\ Mix(p, b).auto = p.auto /\ Mix(p, b).shown = p.shown
         /\ Mix(p, b).hidden = p.hidden /\ Mix(p, b).displayed = p.displayed
  <1> DEFINE O == Opened(g)
             n == g.number
             f == p.number
             M == Members(p, b)
             h == Mix(p, b)
  <1>1. /\ O \subseteq Buffer /\ b \in O /\ p.mixed \in [Buffer -> BOOLEAN]
        /\ p.content \in [Buffer -> SUBSET Buffer]
        /\ p.own \in [Buffer -> BOOLEAN]
    BY DataFacts
  <1>2. \A x, y \in O : f[x] = f[y] <=> \/ n[x] = n[y]
                                        \/ {n[x], n[y]} = {n[b], n[t]}
    BY DEF Joined
  <1>3. \A x \in O : x \in M <=> n[x] = n[b] \/ n[x] = n[t]
    <2>1. ASSUME NEW x \in O PROVE x \in M <=> n[x] = n[b] \/ n[x] = n[t]
      <3>1. x \in M <=> f[x] = f[b]
        BY DEF Members
      <3>2. f[x] = f[b] <=> n[x] = n[b] \/ n[x] = n[t]
        BY <1>2
      <3>3. QED
        BY <3>1, <3>2
    <2>2. QED
      BY <2>1
  <1>4. M \subseteq O /\ t \in M /\ t # b /\ b \in M
    <2>1. M \subseteq O
      BY DEF Members
    <2>2. QED
      BY <1>3, <2>1
  <1>5. \A x \in M : p.content[x] \subseteq M
    <2>1. ASSUME NEW x \in M, NEW y \in p.content[x] PROVE y \in M
      <3>1. y \in O /\ n[y] = n[x] /\ x \in O
        BY <1>4 DEF Sound, SharedLines
      <3>2. QED
        BY <1>3, <3>1
    <2>2. QED
      BY <2>1
  <1>6. PICK lines \in SUBSET M :
          h = [p EXCEPT !.mixed = [x \in Buffer |-> x \in M \/ p.mixed[x]],
                        !.content = [x \in Buffer |-> IF x \in M THEN lines ELSE p.content[x]],
                        !.own = [x \in Buffer |-> x \notin M /\ p.own[x]]]
    <2>1. M \in SUBSET Buffer /\ b \in Opened(p)
      BY <1>1, <1>4
    <2>2. /\ t \in Members(p, b) /\ t # b /\ b \in M /\ \A x \in Members(p, b) : x \in M
          /\ \A x \in Members(p, b) : p.content[x] \subseteq M
      BY <1>4, <1>5
    <2> HIDE DEF M
    <2>3. \E lines \in SUBSET M :
           Mix(p, b) = [p EXCEPT
             !.mixed = [x \in Buffer |-> x \in Members(p, b) \/ p.mixed[x]],
             !.content = [x \in Buffer |-> IF x \in Members(p, b) THEN lines ELSE p.content[x]],
             !.own = [x \in Buffer |-> x \notin Members(p, b) /\ p.own[x]]]
      BY <2>1, <2>2, MixFacts
    <2>4. QED
      BY <2>3 DEF M
  <1> DEFINE m == [x \in Buffer |-> x \in M \/ p.mixed[x]]
             c == [x \in Buffer |-> IF x \in M THEN lines ELSE p.content[x]]
             w == [x \in Buffer |-> x \notin M /\ p.own[x]]
  <1>7. m \in [Buffer -> BOOLEAN] /\ c \in [Buffer -> SUBSET Buffer] /\ w \in [Buffer -> BOOLEAN]
    <2>1. \A x \in Buffer : w[x] \in BOOLEAN /\ m[x] \in BOOLEAN
      BY <1>1
    <2>2. lines \in SUBSET Buffer
      BY <1>1, <1>4
    <2>3. \A x \in Buffer : c[x] \in SUBSET Buffer
      BY <1>1, <2>2
    <2>4. w = [x \in Buffer |-> w[x]] /\ m = [x \in Buffer |-> m[x]] /\ c = [x \in Buffer |-> c[x]]
      OBVIOUS
    <2> HIDE DEF w, m, c
    <2>5. QED
      BY <2>1, <2>3, <2>4
  <1>8. /\ \A x \in M : m[x] /\ c[x] = lines /\ ~ w[x]
        /\ \A x \in Buffer \ M :
             (m[x] <=> p.mixed[x]) /\ c[x] = p.content[x] /\ (w[x] <=> p.own[x])
    BY <1>1, <1>4
  <1>9. h = [p EXCEPT !.mixed = m, !.content = c, !.own = w]
    BY <1>6
  <1> HIDE DEF h, m, w, c
  <1>10. /\ h \in GuiData /\ h.list = p.list /\ h.number = f
         /\ h.active = p.active /\ h.zoomed = p.zoomed /\ h.mixed = m
         /\ h.own = w /\ h.shown = p.shown /\ h.displayed = p.displayed
         /\ h.auto = p.auto /\ h.hidden = p.hidden /\ h.content = c
    BY <1>7, <1>9 DEF GuiData
  <1> HIDE DEF f
  <1>11. Opened(h) = O
    BY <1>10 DEF Opened
  <1>12. ASSUME NEW x \in O, f[x] # f[b] PROVE OneIn(O, f, g.active, x)
    <2>1. OneIn(O, n, g.active, x)
      BY DEF Sound
    <2>2. \A y \in O : f[y] = f[x] <=> n[y] = n[x]
      <3>1. n[x] # n[b] /\ n[x] # n[t]
        BY <1>2, <1>12
      <3>2. ASSUME NEW y \in O PROVE f[y] = f[x] <=> n[y] = n[x]
        BY <1>2, <3>1
      <3>3. QED
        BY <3>2
    <2>3. QED
      BY <2>1, <2>2 DEF OneIn
  <1>13. SharedLines(O, f, m, c, w)
    <2>1. SharedLines(O, n, g.mixed, g.content, g.own)
      BY DEF Sound
    <2>2. \A x, y \in O : x \in M => (f[x] = f[y] <=> y \in M)
      BY <1>2, <1>3, <1>4
    <2>3. \A x, y \in O : x \notin M => (f[x] = f[y] <=> n[x] = n[y])
      <3>1. ASSUME NEW x \in O, NEW y \in O, x \notin M PROVE f[x] = f[y] <=> n[x] = n[y]
        <4>1. n[x] # n[b] /\ n[x] # n[t]
          BY <1>3, <3>1
        <4>2. QED
          BY <1>2, <4>1
      <3>2. QED
        BY <3>1
    <2>4. ASSUME NEW x \in O PROVE m[x] <=> \E y \in O : y # x /\ f[y] = f[x]
      <3>1. CASE x \in M
        <4>1. \E y \in O : y # x /\ f[y] = f[x]
          <5>1. f[b] = f[x] /\ f[t] = f[x] /\ (b # x \/ t # x)
            BY <1>4, <2>2, <3>1
          <5>2. QED
            BY <5>1
        <4>2. QED
          BY <1>8, <3>1, <4>1
      <3>2. CASE x \notin M
        <4>1. m[x] <=> g.mixed[x]
          BY <1>1, <1>8, <3>2
        <4>2. \A y \in O : f[y] = f[x] <=> n[y] = n[x]
          BY <2>3, <3>2
        <4>3. QED
          BY <2>1, <4>1, <4>2 DEF SharedLines
      <3>3. QED
        BY <3>1, <3>2
    <2>5. ASSUME NEW x \in O, NEW y \in O, f[x] = f[y] PROVE c[x] = c[y]
      <3>1. CASE x \in M
        BY <1>8, <2>2, <2>5, <3>1
      <3>2. CASE x \notin M
        <4>1. y \notin M /\ n[x] = n[y]
          BY <2>2, <2>3, <2>5, <3>2
        <4>2. c[x] = g.content[x] /\ c[y] = g.content[y]
          BY <1>1, <1>8, <3>2, <4>1
        <4>3. QED
          BY <2>1, <4>1, <4>2 DEF SharedLines
      <3>3. QED
        BY <3>1, <3>2
    <2>6. ASSUME NEW x \in O, NEW y \in c[x] PROVE y \in O /\ f[y] = f[x]
      <3>1. CASE x \in M
        BY <1>4, <1>8, <2>2, <2>6, <3>1
      <3>2. CASE x \notin M
        <4>1. y \in O /\ n[y] = n[x]
          BY <1>1, <1>8, <2>1, <2>6, <3>2 DEF SharedLines
        <4>2. QED
          BY <2>3, <3>2, <4>1
      <3>3. QED
        BY <3>1, <3>2
    <2>7. ASSUME NEW x \in Buffer PROVE w[x] \/ m[x]
      BY <1>8, <2>1 DEF SharedLines
    <2>8. ASSUME NEW x \in Buffer PROVE m[x] \/ c[x] = {}
      BY <1>8, <2>1 DEF SharedLines
    <2>9. QED
      BY <2>4, <2>5, <2>6, <2>7, <2>8 DEF SharedLines
  <1>14. AsNew(O, g.active, m)
    <2>1. AsNew(O, g.active, g.mixed)
      BY DEF Sound
    <2>2. \A x \in Buffer \ O : m[x] <=> g.mixed[x]
      BY <1>4, <1>8
    <2>3. QED
      BY <2>1, <2>2 DEF AsNew
  <1>15. SoundBut(h, b)
    BY <1>10, <1>11, <1>12, <1>13, <1>14 DEF SoundBut
  <1>16. QED
    BY <1>10, <1>15 DEF h, f

(***************************************************************************)
(* gui_buffer_merge() puts the group of b after that of t.                 *)
(***************************************************************************)
MergePlaced(g, b, t) ==
  LET rest == Without(g, Members(g, b))
      lower == Decreased(g, Last(Group(g, b)))
  IN [g EXCEPT !.list = Inserted(rest, FirstIn(rest, {Last(Group(g, t))}) + 1, Group(g, b)),
               !.number = [x \in Buffer |-> IF x \in Members(g, b) THEN lower[t] ELSE lower[x]]]

(***************************************************************************)
(* The list and numbers of the two groups together.                        *)
(***************************************************************************)
LEMMA MergePlacedFacts ==
  ASSUME NEW g, Good(g), NEW b \in Opened(g), NEW t \in Opened(g), g.number[b] # g.number[t]
  PROVE  LET p == MergePlaced(g, b, t)
         IN  /\ p \in GuiData /\ Sorted(p) /\ Joined(g, b, t, p.number)
             /\ Opened(p) = Opened(g)
             /\ p.active = g.active /\ p.mixed = g.mixed /\ p.own = g.own
          /\ p.content = g.content
             /\ p.auto = g.auto /\ p.shown = g.shown /\ p.hidden = g.hidden
             /\ p.displayed = g.displayed
  <1> DEFINE O == Opened(g)
             n == g.number
             M == Members(g, b)
             group == Group(g, b)
             rest == Without(g, M)
             last == Last(Group(g, t))
             lower == Decreased(g, Last(group))
             k == FirstIn(rest, {last})
             i == k + 1
             L == Inserted(rest, i, group)
             f == [x \in Buffer |-> IF x \in M THEN lower[t] ELSE lower[x]]
             p == MergePlaced(g, b, t)
  <1>1. g \in GuiData /\ Sorted(g) /\ Once(g.list) /\ Ordered(g.list, n)
    BY DEF Good, Sorted
  <1>2. /\ O \subseteq Buffer /\ b \in Buffer /\ t \in Buffer /\ n \in [Buffer -> Nat]
        /\ n \in [Buffer -> Int] /\ M \subseteq O
    BY <1>1, DataFacts, MembersFacts
  <1>3. \A x \in O : x \in M <=> n[x] = n[b]
    BY DEF Members
  <1>4. Lowered(g, b, lower)
    <2>1. Following(g, Last(group)) = Above(g, b)
      BY <1>1, FollowingGroup
    <2>2. QED
      BY <1>1, <2>1, LoweredFacts
  <1>5. /\ lower \in [Buffer -> Nat]
        /\ \A x \in O : lower[x] >= 1
        /\ \A x, y \in O \ M : lower[x] <= lower[y] <=> n[x] <= n[y]
        /\ g.auto => Gapless(O \ M, lower)
    BY <1>4 DEF Lowered
  <1>6. last \in O \ M /\ n[last] = n[t] /\ t \in O \ M
    <2>1. last \in Members(g, t)
      BY <1>1, FollowingGroup
    <2>2. last \in O /\ n[last] = n[t]
      BY <2>1 DEF Members
    <2>3. QED
      BY <1>3, <2>2
  <1>7. /\ rest \in Seq(Buffer) /\ Once(rest) /\ ToSet(rest) = O \ M
        /\ Ordered(rest, n)
    BY <1>1, <1>2, WithoutFacts
  <1>8. /\ group \in Seq(Buffer) /\ Once(group) /\ ToSet(group) = M
    BY <1>1, <1>2, GroupFacts
  <1>9. k \in 1 .. Len(rest) /\ rest[k] = last /\ Len(rest) \in Nat
    <2>1. /\ k \in 0 .. Len(rest)
          /\ k = 0 <=> ToSet(rest) \intersect {last} = {}
          /\ k # 0 => rest[k] \in {last}
      BY <1>7, FirstInFacts
    <2>2. last \in ToSet(rest) \intersect {last} /\ Len(rest) \in Nat
      BY <1>6, <1>7, SeqFacts
    <2> HIDE DEF k
    <2>3. k # 0
      BY <2>1, <2>2
    <2>4. QED
      BY <2>1, <2>2, <2>3
  <1>10. p = [g EXCEPT !.list = L, !.number = f]
    BY DEF MergePlaced
  <1>11. f \in [Buffer -> Nat] /\ f \in [Buffer -> Int]
    <2>1. \A x \in Buffer : lower[x] \in Nat
      BY <1>5
    <2> HIDE DEF lower
    <2>2. QED
      BY <1>2, <2>1
  <1>12. /\ \A x \in M : f[x] = lower[t]
         /\ \A x \in O \ M : f[x] = lower[x]
    BY <1>2
  <1> HIDE DEF f, lower, k
  <1>13. Ordered(rest, f)
    <2>1. \A x, y \in ToSet(rest) : n[x] <= n[y] => f[x] <= f[y]
      BY <1>5, <1>7, <1>12
    <2>2. QED
      BY <1>2, <1>7, <1>11, <2>1, OrderedAlike
  <1>14. Ordered(group, f)
    <2>1. \A x, y \in M : f[x] = f[y]
      BY <1>12
    <2>2. QED
      BY <1>1, <1>2, <1>11, <2>1, GroupOrdered
  <1>15. i \in 1 .. Len(rest) + 1
    BY <1>9
  <1>16. \A j \in 1 .. Len(rest) : rest[j] \in O \ M /\ n[rest[j]] \in Nat
    BY <1>2, <1>7, SeqFacts
  <1>17. ASSUME NEW j \in 1 .. i - 1 PROVE f[rest[j]] <= lower[t]
    <2>1. j \in 1 .. Len(rest) /\ (j < k \/ j = k)
      BY <1>9
    <2>2. n[rest[j]] <= n[t]
      <3>1. CASE j < k
        BY <1>6, <1>7, <1>9, <2>1, <3>1 DEF Ordered
      <3>2. CASE j = k
        BY <1>6, <1>9, <1>16, <3>2
      <3>3. QED
        BY <2>1, <3>1, <3>2
    <2>3. QED
      BY <1>5, <1>6, <1>12, <1>16, <2>1, <2>2
  <1>18. ASSUME NEW j \in i .. Len(rest) PROVE lower[t] <= f[rest[j]]
    <2>1. j \in 1 .. Len(rest) /\ k < j
      BY <1>9
    <2>2. n[t] <= n[rest[j]]
      BY <1>6, <1>7, <1>9, <2>1 DEF Ordered
    <2>3. QED
      BY <1>5, <1>6, <1>12, <1>16, <2>1, <2>2
  <1>19. \A x \in Before(rest, i), y \in ToSet(group) : f[x] <= f[y]
    BY <1>8, <1>12, <1>17 DEF Before
  <1>20. \A x \in ToSet(group), y \in From(rest, i) : f[x] <= f[y]
    BY <1>8, <1>12, <1>18 DEF From
  <1>21. ToSet(rest) \intersect ToSet(group) = {} /\ ToSet(rest) \union ToSet(group) = O
    BY <1>2, <1>7, <1>8
  <1>22. Once(L) /\ ToSet(L) = O
    <2>1. Once(L)
      BY <1>7, <1>8, <1>15, <1>21, InsertedFacts
    <2>2. ToSet(L) = ToSet(rest) \union ToSet(group)
      BY <1>7, <1>8, <1>15, <1>21, InsertedFacts
    <2>3. QED
      BY <1>21, <2>1, <2>2
  <1>23. Ordered(L, f)
    BY <1>7, <1>8, <1>11, <1>13, <1>14, <1>15, <1>19, <1>20, <1>21, InsertedFacts
  <1>24. \A x \in O : f[x] >= 1
    BY <1>5, <1>6, <1>12
  <1>25. ASSUME g.auto PROVE Gapless(O, f)
    <2>1. Gapless(O \ M, lower)
      BY <1>5, <1>25
    <2>2. ASSUME NEW x \in O, NEW m \in 1 .. f[x] PROVE \E y \in O : f[y] = m
      <3>1. \E z \in O \ M : f[x] = lower[z]
        BY <1>6, <1>12
      <3>2. PICK z \in O \ M : f[x] = lower[z]
        BY <3>1
      <3>3. PICK y \in O \ M : lower[y] = m
        BY <2>1, <2>2, <3>2 DEF Gapless
      <3>4. QED
        BY <1>12, <3>3
    <2>3. QED
      BY <2>2 DEF Gapless
  <1>26. Joined(g, b, t, f)
    <2>1. ASSUME NEW x \in O, NEW y \in O
          PROVE  f[x] = f[y] <=> n[x] = n[y] \/ {n[x], n[y]} = {n[b], n[t]}
      <3>1. \A u, v \in O \ M : lower[u] = lower[v] <=> n[u] = n[v]
        <4>1. \A u \in O \ M : lower[u] \in Nat /\ n[u] \in Nat
          BY <1>2, <1>5
        <4>2. ASSUME NEW u \in O \ M, NEW v \in O \ M
              PROVE  lower[u] = lower[v] <=> n[u] = n[v]
          <5>1. /\ lower[u] <= lower[v] <=> n[u] <= n[v]
                /\ lower[v] <= lower[u] <=> n[v] <= n[u]
            BY <1>5
          <5>2. \A c, d \in Nat : c = d <=> c <= d /\ d <= c
            OBVIOUS
          <5>3. QED
            BY <4>1, <5>1, <5>2, Zenon
        <4>3. QED
          BY <4>2
      <3>2. CASE x \in M /\ y \in M
        BY <1>3, <1>12, <3>2
      <3>3. CASE x \in M /\ y \notin M
        <4>1. f[x] = f[y] <=> n[y] = n[t]
          BY <1>6, <1>12, <3>1, <3>3
        <4>2. n[x] = n[b] /\ n[y] # n[b]
          BY <1>3, <3>3
        <4>3. QED
          BY <4>1, <4>2
      <3>4. CASE x \notin M /\ y \in M
        <4>1. f[x] = f[y] <=> n[x] = n[t]
          BY <1>6, <1>12, <3>1, <3>4
        <4>2. n[y] = n[b] /\ n[x] # n[b]
          BY <1>3, <3>4
        <4>3. QED
          BY <4>1, <4>2
      <3>5. CASE x \notin M /\ y \notin M
        <4>1. f[x] = f[y] <=> n[x] = n[y]
          BY <1>12, <3>1, <3>5
        <4>2. n[x] # n[b] /\ n[y] # n[b]
          BY <1>3, <3>5
        <4>3. QED
          BY <4>1, <4>2
      <3>6. QED
        BY <3>2, <3>3, <3>4, <3>5
    <2>2. QED
      BY <2>1 DEF Joined
  <1>27. L \in Seq(Buffer)
    BY <1>22 DEF Once
  <1> HIDE DEF L, p
  <1>28. /\ p \in GuiData /\ p.list = L /\ p.number = f
         /\ p.active = g.active /\ p.zoomed = g.zoomed /\ p.mixed = g.mixed
         /\ p.own = g.own /\ p.shown = g.shown /\ p.displayed = g.displayed
         /\ p.auto = g.auto /\ p.hidden = g.hidden /\ p.content = g.content
    BY <1>1, <1>10, <1>11, <1>27 DEF GuiData
  <1>29. Opened(p) = O
    BY <1>22, <1>28 DEF Opened
  <1>30. Sorted(p)
    BY <1>22, <1>23, <1>24, <1>25, <1>28, <1>29 DEF Sorted
  <1>31. QED
    BY <1>26, <1>28, <1>29, <1>30 DEF p

(***************************************************************************)
(* gui_buffer_merge(), with the lines mixed and the active buffer chosen.  *)
(***************************************************************************)
LEMMA MergeGood ==
  ASSUME NEW g, Good(g), NEW b \in Opened(g), NEW t \in Opened(g)
  PROVE  /\ Good(Merge(g, b, t)) /\ Same(g, Merge(g, b, t))
         /\ Counted(g) => Counted(Merge(g, b, t))
  <1>1. CASE g.number[b] = g.number[t]
    <2>1. Merge(g, b, t) = g
      BY <1>1 DEF Merge
    <2>2. QED
      BY <2>1 DEF Same
  <1>2. CASE g.number[b] # g.number[t]
    <2> DEFINE p == MergePlaced(g, b, t)
               h == Mix(p, b)
               a == SetActive(h, b)
    <2>1. Merge(g, b, t) = CountDisplayed(a)
      BY <1>2 DEF Merge, MergePlaced
    <2>2. /\ p \in GuiData /\ Sorted(p) /\ Joined(g, b, t, p.number)
          /\ Opened(p) = Opened(g)
          /\ p.active = g.active /\ p.mixed = g.mixed /\ p.own = g.own
          /\ p.content = g.content
          /\ p.auto = g.auto /\ p.shown = g.shown /\ p.hidden = g.hidden
          /\ p.displayed = g.displayed
      BY <1>2, MergePlacedFacts
    <2> HIDE DEF p
    <2>3. /\ h \in GuiData /\ SoundBut(h, b)
          /\ h.list = p.list /\ h.number = p.number
          /\ h.auto = p.auto /\ h.shown = p.shown
          /\ h.hidden = p.hidden /\ h.displayed = p.displayed
      BY <1>2, <2>2, MixSound DEF Good
    <2> HIDE DEF h
    <2>4. Opened(h) = Opened(g)
      BY <2>2, <2>3 DEF Opened
    <2>5. Sorted(h)
      BY <2>2, <2>3, <2>4 DEF Sorted
    <2>6. Same(g, h)
      BY <2>2, <2>3, <2>4 DEF Same
    <2>7. /\ a \in GuiData /\ Sound(a) /\ Same(h, a)
          /\ a.list = h.list /\ a.number = h.number
      BY <2>3, <2>4, SetActiveSound
    <2> HIDE DEF a
    <2>8. Sorted(a)
      BY <2>5, <2>7 DEF Sorted, Same
    <2>9. Good(CountDisplayed(a)) /\ Same(a, CountDisplayed(a)) /\ Counted(CountDisplayed(a))
      BY <2>7, <2>8, CountGood, CountCounted
    <2>10. Same(g, CountDisplayed(a))
      BY <2>6, <2>7, <2>9, SameTwice
    <2>11. QED
      BY <2>1, <2>9, <2>10
  <1>3. QED
    BY <1>1, <1>2

-----------------------------------------------------------------------------
(* Unmerging                                                               *)

(***************************************************************************)
(* The others of a group, from the one after b.                            *)
(***************************************************************************)
LEMMA RoundFacts ==
  ASSUME NEW g \in GuiData, Once(g.list), NEW b \in Opened(g)
  PROVE  Round(g, b) \in Seq(Buffer) /\ ToSet(Round(g, b)) = Members(g, b) \ {b}
  <1> DEFINE s == Group(g, b)
             i == FirstIn(s, {b})
             M == Members(g, b)
  <1>1. b \in Buffer
    BY DataFacts
  <1>2. s \in Seq(Buffer) /\ Once(s) /\ ToSet(s) = M /\ b \in M
    BY <1>1, GroupFacts
  <1>3. Round(g, b) = SubSeq(s, i + 1, Len(s)) \o SubSeq(s, 1, i - 1)
    BY DEF Round
  <1> HIDE DEF s, M
  <1>4. Len(s) \in Nat
    BY <1>2, SeqFacts
  <1>5. /\ i \in 0 .. Len(s)
        /\ i = 0 <=> ToSet(s) \intersect {b} = {}
        /\ i # 0 => s[i] \in {b}
    BY <1>2, FirstInFacts
  <1> HIDE DEF i
  <1>6. i \in 1 .. Len(s) /\ s[i] = b
    BY <1>2, <1>5
  <1> DEFINE u == SubSeq(s, i + 1, Len(s))
             v == SubSeq(s, 1, i - 1)
  <1>7. /\ i + 1 \in 1 .. Len(s) + 1 /\ Len(s) \in 0 .. Len(s) /\ i + 1 <= Len(s) + 1
        /\ 1 \in 1 .. Len(s) + 1 /\ i - 1 \in 0 .. Len(s) /\ 1 <= (i - 1) + 1
    BY <1>4, <1>6
  <1>8. u \in Seq(Buffer) /\ ToSet(u) = {s[k] : k \in i + 1 .. Len(s)}
    BY <1>2, <1>7, PieceFacts
  <1>9. v \in Seq(Buffer) /\ ToSet(v) = {s[k] : k \in 1 .. i - 1}
    BY <1>2, <1>7, PieceFacts
  <1> HIDE DEF u, v
  <1>10. u \o v \in Seq(Buffer) /\ ToSet(u \o v) = ToSet(u) \union ToSet(v)
    BY <1>8, <1>9, ConcatFacts
  <1>11. ASSUME NEW x \in M \ {b} PROVE x \in ToSet(u) \union ToSet(v)
    <2>1. PICK k \in 1 .. Len(s) : s[k] = x
      BY <1>2, SeqFacts
    <2>2. k \in i + 1 .. Len(s) \/ k \in 1 .. i - 1
      BY <1>4, <1>6, <2>1
    <2>3. QED
      BY <1>8, <1>9, <2>1, <2>2
  <1>12. ASSUME NEW k \in 1 .. Len(s), k # i PROVE s[k] \in M \ {b}
    BY <1>2, <1>6, <1>12, SeqFacts DEF Once
  <1>13. ASSUME NEW x \in ToSet(u) \union ToSet(v) PROVE x \in M \ {b}
    <2>1. \E k \in 1 .. Len(s) : k # i /\ x = s[k]
      <3>1. CASE x \in ToSet(u)
        <4>1. PICK k \in i + 1 .. Len(s) : x = s[k]
          BY <1>8, <3>1
        <4>2. k \in 1 .. Len(s) /\ k # i
          BY <1>4, <1>6
        <4>3. QED
          BY <4>1, <4>2
      <3>2. CASE x \in ToSet(v)
        <4>1. PICK k \in 1 .. i - 1 : x = s[k]
          BY <1>9, <3>2
        <4>2. k \in 1 .. Len(s) /\ k # i
          BY <1>4, <1>6
        <4>3. QED
          BY <4>1, <4>2
      <3>3. QED
        BY <1>13, <3>1, <3>2
    <2>2. QED
      BY <1>12, <2>1
  <1>14. ToSet(u) \union ToSet(v) = M \ {b}
    BY <1>11, <1>13
  <1>15. Round(g, b) = u \o v
    BY <1>3 DEF u, v
  <1>16. QED
    BY <1>10, <1>14, <1>15 DEF M

LEMMA ReverseFacts ==
  ASSUME NEW s \in Seq(Buffer)
  PROVE  Reverse(s) \in Seq(Buffer) /\ ToSet(Reverse(s)) = ToSet(s)
  <1> DEFINE r == Reverse(s)
  <1>1. Len(s) \in Nat
    BY SeqFacts
  <1>2. r = [i \in 1 .. Len(s) |-> s[(Len(s) - i) + 1]]
    BY DEF Reverse
  <1>3. \A i \in 1 .. Len(s) : (Len(s) - i) + 1 \in 1 .. Len(s)
    BY <1>1
  <1>4. r \in [1 .. Len(s) -> Buffer]
    BY <1>2, <1>3, SeqFacts
  <1>5. r \in Seq(Buffer) /\ Len(r) = Len(s)
    <2>1. r \in Seq(Buffer)
      BY <1>1, <1>4
    <2>2. DOMAIN r = 1 .. Len(s) /\ DOMAIN r = 1 .. Len(r) /\ Len(r) \in Nat
      BY <1>2, <2>1, SeqFacts
    <2> HIDE DEF r
    <2>3. QED
      BY <1>1, <2>1, <2>2
  <1>6. \A i \in 1 .. Len(s) : r[i] = s[(Len(s) - i) + 1]
    BY <1>2
  <1> HIDE DEF r
  <1>7. ASSUME NEW x \in ToSet(s) PROVE x \in ToSet(r)
    <2>1. PICK k \in 1 .. Len(s) : s[k] = x
      BY SeqFacts
    <2>2. (Len(s) - k) + 1 \in 1 .. Len(s) /\ (Len(s) - ((Len(s) - k) + 1)) + 1 = k
      BY <1>1
    <2>3. r[(Len(s) - k) + 1] = x
      BY <1>6, <2>1, <2>2
    <2>4. QED
      BY <1>5, <2>2, <2>3, SeqFacts
  <1>8. ASSUME NEW x \in ToSet(r) PROVE x \in ToSet(s)
    <2>1. PICK k \in 1 .. Len(s) : r[k] = x
      BY <1>5, SeqFacts
    <2>2. QED
      BY <1>3, <1>6, <2>1, SeqFacts
  <1>9. QED
    BY <1>5, <1>7, <1>8 DEF r

(***************************************************************************)
(* The buffer that becomes active when b leaves is another of its group.   *)
(***************************************************************************)
LEMMA SuccessorFacts ==
  ASSUME NEW g \in GuiData, Once(g.list), NEW b \in Opened(g)
  PROVE  /\ Successor(g, b) = NoBuffer \/ Successor(g, b) \in Members(g, b) \ {b}
         /\ Merged(g, b) => Successor(g, b) # NoBuffer
         /\ NextActive(g, b, FALSE) = NoBuffer \/ NextActive(g, b, FALSE) \in Members(g, b) \ {b}
         /\ PreviousActive(g, b) = NoBuffer \/ PreviousActive(g, b) \in Members(g, b) \ {b}
  <1> DEFINE r == Round(g, b)
             M == Members(g, b) \ {b}
  <1>1. r \in Seq(Buffer) /\ ToSet(r) = M
    BY RoundFacts
  <1>2. Reverse(r) \in Seq(Buffer) /\ ToSet(Reverse(r)) = M
    BY <1>1, ReverseFacts
  <1> HIDE DEF r, M
  <1>3. \A T : FirstOf(r, T) = NoBuffer \/ FirstOf(r, T) \in M
    BY <1>1, FirstOfFacts
  <1>4. \A T : FirstOf(Reverse(r), T) = NoBuffer \/ FirstOf(Reverse(r), T) \in M
    BY <1>2, FirstOfFacts
  <1>5. /\ NextActive(g, b, FALSE) = FirstOf(r, Buffer \ g.hidden)
        /\ NextActive(g, b, TRUE) = FirstOf(r, Buffer)
        /\ PreviousActive(g, b) = FirstOf(Reverse(r), Buffer \ g.hidden)
    BY DEF NextActive, PreviousActive, r
  <1>6. ASSUME Merged(g, b) PROVE NextActive(g, b, TRUE) # NoBuffer
    <2>1. PICK x \in Opened(g) : x # b /\ g.number[x] = g.number[b]
      BY <1>6, MergedFacts
    <2>2. x \in M /\ x \in Buffer
      BY <2>1, DataFacts DEF Members, M
    <2>3. FirstOf(r, Buffer) = NoBuffer <=> ToSet(r) \intersect Buffer = {}
      BY <1>1, FirstOfFacts
    <2>4. QED
      BY <1>1, <1>5, <2>2, <2>3
  <1>7. QED
    BY <1>3, <1>4, <1>5, <1>6 DEF Successor, M

-----------------------------------------------------------------------------
(* A buffer leaves its group                                               *)

\* The data of a buffer that is alone, and of those it leaves.
Leaves(M, b, active, mixed, content, own) ==
  /\ active[b] # 0 /\ ~ mixed[b] /\ content[b] = {} /\ own[b]
  /\ \E y \in M \ {b} : active[y] # 0
  /\ \A y, z \in M \ {b} : active[y] # 0 /\ active[z] # 0 => y = z
  /\ \A x \in M \ {b} : mixed[x] <=> \E y \in M \ {b} : y # x
  /\ \A x, y \in M \ {b} : content[x] = content[y]
  /\ \A x \in M \ {b} : content[x] \subseteq M \ {b}
  /\ \A x \in M \ {b} : own[x] \/ mixed[x]
  /\ \A x \in M \ {b} : mixed[x] \/ content[x] = {}

\* Others keep theirs.
OthersKeep(M, g, h) ==
  \A x \in Buffer \ M : /\ h.active[x] = g.active[x]
                        /\ h.mixed[x] = g.mixed[x]
                        /\ h.content[x] = g.content[x]
                        /\ h.own[x] = g.own[x]

PartedFrom(g, b, h) ==
  /\ h \in GuiData
  /\ h.list = g.list /\ h.number = g.number /\ h.zoomed = g.zoomed
  /\ h.shown = g.shown /\ h.displayed = g.displayed /\ h.auto = g.auto
  /\ h.hidden = g.hidden
  /\ OthersKeep(Members(g, b), g, h)
  /\ Leaves(Members(g, b), b, h.active, h.mixed, h.content, h.own)

(***************************************************************************)
(* One of two leaves: neither has mixed_lines.  One of more leaves: the    *)
(* others keep theirs, without its lines.                                  *)
(***************************************************************************)
LEMMA PartedTwo ==
  ASSUME NEW g, Good(g), NEW b \in Opened(g), Cardinality(Members(g, b)) = 2
  PROVE  PartedFrom(g, b, Parted(g, b))
  <1> DEFINE M == Members(g, b)
             a == [x \in Buffer |-> IF x \in M THEN 1 ELSE g.active[x]]
             m == [x \in Buffer |-> x \notin M /\ g.mixed[x]]
             c == [x \in Buffer |-> IF x \in M THEN {} ELSE g.content[x]]
             w == [x \in Buffer |-> x \in M \/ g.own[x]]
             h == Parted(g, b)
  <1>1. g \in GuiData
    BY DEF Good
  <1>2. /\ b \in Buffer /\ b \in M /\ M \subseteq Buffer /\ IsFiniteSet(M)
        /\ g.active \in [Buffer -> 0..2] /\ g.mixed \in [Buffer -> BOOLEAN]
        /\ g.content \in [Buffer -> SUBSET Buffer] /\ g.own \in [Buffer -> BOOLEAN]
    BY <1>1, DataFacts, MembersFacts
  <1>3. h = [g EXCEPT !.active = a, !.mixed = m, !.content = c, !.own = w]
    BY <1>1 DEF Parted, GuiData
  <1>4. \E y : M \ {b} = {y}
    <2> HIDE DEF M
    <2>1. Cardinality(M \ {b}) = Cardinality(M) - 1 /\ IsFiniteSet(M \ {b})
      BY <1>2, FS_RemoveElement
    <2>2. Cardinality(M \ {b}) = 1
      BY <2>1 DEF M
    <2>3. QED
      BY <2>1, <2>2, FS_Singleton
  <1>5. PICK y : M \ {b} = {y}
    BY <1>4
  <1> HIDE DEF M
  <1>6. /\ a \in [Buffer -> 0..2] /\ m \in [Buffer -> BOOLEAN]
        /\ c \in [Buffer -> SUBSET Buffer] /\ w \in [Buffer -> BOOLEAN]
    <2>1. \A x \in Buffer : /\ a[x] \in 0..2 /\ m[x] \in BOOLEAN
                            /\ c[x] \in SUBSET Buffer /\ w[x] \in BOOLEAN
      BY <1>2
    <2>2. /\ a = [x \in Buffer |-> a[x]] /\ m = [x \in Buffer |-> m[x]]
          /\ c = [x \in Buffer |-> c[x]] /\ w = [x \in Buffer |-> w[x]]
      OBVIOUS
    <2> HIDE DEF a, m, c, w
    <2>3. QED
      BY <2>1, <2>2
  <1>7. /\ \A x \in M : a[x] = 1 /\ ~ m[x] /\ c[x] = {} /\ w[x]
        /\ \A x \in Buffer \ M : a[x] = g.active[x] /\ c[x] = g.content[x]
    BY <1>2
  <1>8. \A x \in Buffer \ M : m[x] = g.mixed[x] /\ w[x] = g.own[x]
    <2>1. \A x \in Buffer : g.mixed[x] \in BOOLEAN /\ g.own[x] \in BOOLEAN
      BY <1>2
    <2>2. QED
      BY <2>1
  <1> HIDE DEF a, m, c, w, h
  <1>9. /\ h \in GuiData
        /\ h.list = g.list /\ h.number = g.number /\ h.zoomed = g.zoomed
        /\ h.shown = g.shown /\ h.displayed = g.displayed /\ h.auto = g.auto
        /\ h.hidden = g.hidden
        /\ h.active = a /\ h.mixed = m /\ h.content = c /\ h.own = w
    BY <1>1, <1>3, <1>6 DEF GuiData
  <1>10. OthersKeep(M, g, h)
    BY <1>7, <1>8, <1>9 DEF OthersKeep
  <1>11. Leaves(M, b, a, m, c, w)
    <2>1. y \in M
      BY <1>5
    <2>2. QED
      BY <1>2, <1>5, <1>7, <2>1 DEF Leaves
  <1>12. QED
    BY <1>9, <1>10, <1>11 DEF PartedFrom, M, h

LEMMA PartedMore ==
  ASSUME NEW g, Good(g), NEW b \in Opened(g), Merged(g, b), Cardinality(Members(g, b)) # 2
  PROVE  PartedFrom(g, b, Parted(g, b))
  <1> DEFINE M == Members(g, b)
             z == Successor(g, b)
             next == SetActive(g, z)
             h == Parted(g, b)
  <1>1. g \in GuiData /\ Sorted(g) /\ Sound(g) /\ Once(g.list)
    BY DEF Good, Sorted
  <1>2. /\ b \in Buffer /\ b \in M /\ M \subseteq Buffer /\ IsFiniteSet(M)
        /\ M \subseteq Opened(g)
        /\ g.active \in [Buffer -> 0..2] /\ g.mixed \in [Buffer -> BOOLEAN]
        /\ g.content \in [Buffer -> SUBSET Buffer] /\ g.own \in [Buffer -> BOOLEAN]
    BY <1>1, DataFacts, MembersFacts
  <1>3. z \in M \ {b} /\ z \in Opened(g)
    <2>1. z \in M \ {b}
      BY <1>1, SuccessorFacts
    <2>2. QED
      BY <1>2, <2>1
  <1> HIDE DEF z
  <1>4. Members(g, z) = M
    BY <1>3 DEF Members
  <1>5. ASSUME NEW x \in M \ {b} PROVE \E y \in M \ {b} : y # x
    <2>1. Cardinality(M) \in Nat /\ Cardinality(M) > 1 /\ Cardinality(M) # 2
      BY <1>2, FS_CardinalityType DEF Merged
    <2> HIDE DEF M
    <2>2. Cardinality(M \ {b}) = Cardinality(M) - 1 /\ IsFiniteSet(M \ {b})
      BY <1>2, FS_RemoveElement
    <2>3. Cardinality(M \ {b}) # 1
      BY <2>1, <2>2
    <2>4. M \ {b} # {x}
      BY <2>2, <2>3, FS_Singleton
    <2>5. QED
      BY <2>4
  <1>6. PICK w \in [Buffer -> BOOLEAN], a \in [Buffer -> 0..2] :
          next = [g EXCEPT !.own = w, !.active = a] /\ Activated(g, z, w, a)
    BY <1>1, <1>3, SetActiveFacts
  <1>7. Sound(next) /\ Opened(next) = Opened(g)
    BY <1>1, <1>3, SetActiveGood DEF Good, Same
  <1>8. /\ next \in GuiData /\ next.list = g.list /\ next.number = g.number
        /\ next.zoomed = g.zoomed /\ next.shown = g.shown /\ next.hidden = g.hidden
        /\ next.displayed = g.displayed /\ next.auto = g.auto
        /\ next.active = a /\ next.mixed = g.mixed /\ next.content = g.content
        /\ next.own = w
    <2> HIDE DEF next
    <2>1. QED
      BY <1>1, <1>6 DEF GuiData
  <1> DEFINE d == [a EXCEPT ![b] = 1]
             m == [g.mixed EXCEPT ![b] = FALSE]
             c == [x \in Buffer |-> IF x = b THEN {} ELSE IF x \in M THEN g.content[x] \ {b}
                                    ELSE g.content[x]]
             v == [w EXCEPT ![b] = TRUE]
  <1>9. h = [next EXCEPT !.active = d, !.mixed = m, !.content = c, !.own = v]
    <2>1. h = [next EXCEPT !.active[b] = 1, !.mixed[b] = FALSE,
                 !.content = [x \in Buffer |-> IF x = b THEN {} ELSE IF x \in M THEN @[x] \ {b}
                                               ELSE @[x]],
                 !.own[b] = TRUE]
      BY DEF Parted, z
    <2> HIDE DEF next, h, M
    <2>2. QED
      BY <1>8, <2>1 DEF GuiData
  <1> HIDE DEF M, next, h
  <1>10. /\ d \in [Buffer -> 0..2] /\ m \in [Buffer -> BOOLEAN]
         /\ c \in [Buffer -> SUBSET Buffer] /\ v \in [Buffer -> BOOLEAN]
    <2>1. \A x \in Buffer : c[x] \in SUBSET Buffer
      BY <1>2
    <2>2. c = [x \in Buffer |-> c[x]]
      OBVIOUS
    <2>3. c \in [Buffer -> SUBSET Buffer]
      <3> HIDE DEF c
      <3>1. QED
        BY <2>1, <2>2
    <2>4. QED
      BY <1>2, <2>3
  <1>11. /\ d[b] = 1 /\ ~ m[b] /\ c[b] = {} /\ v[b]
         /\ \A x \in Buffer \ {b} : d[x] = a[x] /\ m[x] = g.mixed[x] /\ v[x] = w[x]
         /\ \A x \in M \ {b} : c[x] = g.content[x] \ {b}
         /\ \A x \in Buffer \ M : c[x] = g.content[x]
    BY <1>2
  <1> HIDE DEF d, m, c, v
  <1>12. /\ h \in GuiData
         /\ h.list = g.list /\ h.number = g.number /\ h.zoomed = g.zoomed
         /\ h.shown = g.shown /\ h.displayed = g.displayed /\ h.auto = g.auto
         /\ h.hidden = g.hidden
         /\ h.active = d /\ h.mixed = m /\ h.content = c /\ h.own = v
    BY <1>8, <1>9, <1>10 DEF GuiData
  <1>13. /\ \A x \in Buffer \ M : a[x] = g.active[x] /\ w[x] = g.own[x]
         /\ \A x \in M : a[x] # 0 <=> x = z
    BY <1>4, <1>6 DEF Activated
  <1>14. OthersKeep(M, g, h)
    BY <1>2, <1>11, <1>12, <1>13 DEF OthersKeep
  <1>15. Leaves(M, b, d, m, c, v)
    <2>1. SharedLines(Opened(g), g.number, g.mixed, g.content, w)
      BY <1>7, <1>8 DEF Sound
    <2>2. \A x \in M : x \in Opened(g) /\ g.number[x] = g.number[b]
      BY DEF M, Members
    <2>3. /\ \A x, y \in M : g.content[x] = g.content[y]
          /\ \A x \in Buffer : w[x] \/ g.mixed[x]
      BY <2>1, <2>2 DEF SharedLines
    <2>4. ASSUME NEW x \in M \ {b} PROVE m[x] /\ (v[x] \/ m[x])
      <3>1. x \in Opened(g) /\ b # x /\ b \in Opened(g) /\ g.number[b] = g.number[x] /\ x \in Buffer
        BY <1>2, <2>2
      <3>2. g.mixed[x]
        BY <2>1, <3>1 DEF SharedLines
      <3>3. QED
        BY <1>11, <3>1, <3>2
    <2>5. ASSUME NEW x \in M \ {b}, NEW y \in c[x] PROVE y \in M \ {b}
      <3>1. y \in g.content[x] /\ y # b /\ x \in Opened(g) /\ g.number[x] = g.number[b]
        BY <1>11, <2>2, <2>5
      <3>2. y \in Opened(g) /\ g.number[y] = g.number[x]
        BY <2>1, <3>1 DEF SharedLines
      <3>3. QED
        BY <3>1, <3>2 DEF M, Members
    <2>6. \A x \in M \ {b} : d[x] # 0 <=> x = z
      BY <1>2, <1>11, <1>13
    <2>7. ASSUME NEW x \in M \ {b}, NEW y \in M \ {b} PROVE c[x] = c[y]
      <3>1. g.content[x] = g.content[y]
        BY <2>3
      <3>2. c[x] = g.content[x] \ {b} /\ c[y] = g.content[y] \ {b}
        BY <1>11
      <3>3. QED
        BY <3>1, <3>2
    <2>8. QED
      BY <1>3, <1>5, <1>11, <2>4, <2>5, <2>6, <2>7 DEF Leaves
  <1>16. QED
    BY <1>12, <1>14, <1>15 DEF PartedFrom, M, h

(***************************************************************************)
(* gui_buffer_unmerge() up to the numbers, for a group of any size.        *)
(***************************************************************************)
LEMMA PartedFacts ==
  ASSUME NEW g, Good(g), NEW b \in Opened(g), Merged(g, b)
  PROVE  PartedFrom(g, b, Parted(g, b))
  BY PartedTwo, PartedMore

(***************************************************************************)
(* Numbers f that take b out of its group.                                 *)
(***************************************************************************)
Split(O, n, f, b) ==
  \A x, y \in O : f[x] = f[y] <=> x = y \/ (x # b /\ y # b /\ n[x] = n[y])

(***************************************************************************)
(* Numbers and lines together: b alone, the others sound.                  *)
(***************************************************************************)
LEMMA SplitSound ==
  ASSUME NEW g, Good(g), NEW b \in Opened(g), Merged(g, b), NEW k, PartedFrom(g, b, k),
         NEW u, Opened(u) = Opened(g), u.active = k.active, u.mixed = k.mixed,
         u.content = k.content, u.own = k.own, Split(Opened(g), g.number, u.number, b)
  PROVE  Sound(u)
  <1> DEFINE O == Opened(g)
             n == g.number
             f == u.number
             M == Members(g, b)
  <1>1. /\ O \subseteq Buffer /\ M \subseteq O /\ b \in M
        /\ \A x \in O : x \in M <=> n[x] = n[b]
    BY DataFacts, MembersFacts DEF Good, Members
  <1>2. /\ \A x \in O : OneIn(O, n, g.active, x)
        /\ SharedLines(O, n, g.mixed, g.content, g.own)
        /\ AsNew(O, g.active, g.mixed)
    BY DEF Good, Sound
  <1>3. OthersKeep(M, g, k) /\ Leaves(M, b, k.active, k.mixed, k.content, k.own)
    BY DEF PartedFrom
  <1>4. \A x \in Buffer \ M : /\ k.active[x] = g.active[x] /\ k.mixed[x] = g.mixed[x]
                              /\ k.content[x] = g.content[x] /\ k.own[x] = g.own[x]
    BY <1>3 DEF OthersKeep
  <1>5. \A x, y \in O : f[x] = f[y] <=> x = y \/ (x # b /\ y # b /\ n[x] = n[y])
    BY DEF Split
  <1>6. \A y \in O : f[b] = f[y] <=> y = b
    BY <1>5
  <1>7. \A x \in M \ {b} : \A y \in O : f[x] = f[y] <=> y \in M \ {b}
    <2>1. ASSUME NEW x \in M \ {b}, NEW y \in O PROVE f[x] = f[y] <=> y \in M \ {b}
      <3>1. x \in O /\ x # b /\ n[x] = n[b]
        BY <1>1
      <3>2. QED
        BY <1>1, <1>5, <3>1
    <2>2. QED
      BY <2>1
  <1>8. \A x \in O \ M : \A y \in O : f[x] = f[y] <=> n[x] = n[y]
    <2>1. ASSUME NEW x \in O \ M, NEW y \in O PROVE f[x] = f[y] <=> n[x] = n[y]
      <3>1. n[x] # n[b] /\ x # b
        BY <1>1
      <3>2. QED
        BY <1>5, <3>1
    <2>2. QED
      BY <2>1
  <1>9. \A x \in O \ M : \A y \in O : n[x] = n[y] => y \in O \ M
    BY <1>1
  <1> HIDE DEF f, n, M, O
  <1>10. ASSUME NEW x \in O PROVE OneIn(O, f, k.active, x)
    <2>1. CASE x = b
      BY <1>1, <1>3, <1>6, <2>1 DEF OneIn, Leaves
    <2>2. CASE x \in M \ {b}
      <3>1. /\ \E y \in M \ {b} : k.active[y] # 0
            /\ \A y, z \in M \ {b} : k.active[y] # 0 /\ k.active[z] # 0 => y = z
        BY <1>3 DEF Leaves
      <3>2. M \ {b} \subseteq O
        BY <1>1
      <3>3. \A y \in O : f[y] = f[x] <=> y \in M \ {b}
        BY <1>7, <2>2
      <3>4. QED
        BY <3>1, <3>2, <3>3 DEF OneIn
    <2>3. CASE x \notin M
      <3>1. OneIn(O, n, g.active, x)
        BY <1>2
      <3>2. \A y \in O : /\ f[y] = f[x] <=> n[y] = n[x]
                         /\ n[y] = n[x] => k.active[y] = g.active[y]
        BY <1>1, <1>4, <1>8, <1>9, <2>3
      <3>3. QED
        BY <3>1, <3>2 DEF OneIn
    <2>4. QED
      BY <2>1, <2>2, <2>3
  <1>11. SharedLines(O, f, k.mixed, k.content, k.own)
    <2>1. ASSUME NEW x \in O PROVE k.mixed[x] <=> \E y \in O : y # x /\ f[y] = f[x]
      <3>1. CASE x = b
        BY <1>3, <1>6, <3>1 DEF Leaves
      <3>2. CASE x \in M \ {b}
        <4>1. k.mixed[x] <=> \E y \in M \ {b} : y # x
          BY <1>3, <3>2 DEF Leaves
        <4>2. \A y \in O : f[y] = f[x] <=> y \in M \ {b}
          BY <1>7, <3>2
        <4>3. QED
          BY <1>1, <4>1, <4>2
      <3>3. CASE x \notin M
        <4>1. g.mixed[x] <=> \E y \in O : y # x /\ n[y] = n[x]
          BY <1>2 DEF SharedLines
        <4>2. k.mixed[x] = g.mixed[x] /\ \A y \in O : f[y] = f[x] <=> n[y] = n[x]
          BY <1>1, <1>4, <1>8, <3>3
        <4>3. QED
          BY <4>1, <4>2
      <3>4. QED
        BY <3>1, <3>2, <3>3
    <2>2. ASSUME NEW x \in O, NEW y \in O, f[x] = f[y] PROVE k.content[x] = k.content[y]
      <3>1. CASE x = b
        BY <1>6, <2>2, <3>1
      <3>2. CASE x \in M \ {b}
        BY <1>3, <1>7, <2>2, <3>2 DEF Leaves
      <3>3. CASE x \notin M
        <4>1. n[x] = n[y] /\ y \notin M
          BY <1>8, <1>9, <2>2, <3>3
        <4>2. g.content[x] = g.content[y]
          BY <1>2, <4>1 DEF SharedLines
        <4>3. QED
          BY <1>1, <1>4, <3>3, <4>1, <4>2
      <3>4. QED
        BY <3>1, <3>2, <3>3
    <2>3. ASSUME NEW x \in O, NEW y \in k.content[x] PROVE y \in O /\ f[y] = f[x]
      <3>1. CASE x = b
        BY <1>3, <2>3, <3>1 DEF Leaves
      <3>2. CASE x \in M \ {b}
        <4>1. y \in M \ {b}
          BY <1>3, <2>3, <3>2 DEF Leaves
        <4>2. QED
          BY <1>1, <1>7, <3>2, <4>1
      <3>3. CASE x \notin M
        <4>1. y \in g.content[x]
          BY <1>1, <1>4, <2>3, <3>3
        <4>2. y \in O /\ n[y] = n[x]
          BY <1>2, <4>1 DEF SharedLines
        <4>3. QED
          BY <1>8, <3>3, <4>2
      <3>4. QED
        BY <3>1, <3>2, <3>3
    <2>4. ASSUME NEW x \in Buffer
          PROVE  (k.own[x] \/ k.mixed[x]) /\ (k.mixed[x] \/ k.content[x] = {})
      <3>1. CASE x = b
        BY <1>3, <3>1 DEF Leaves
      <3>2. CASE x \in M \ {b}
        BY <1>3, <3>2 DEF Leaves
      <3>3. CASE x \notin M
        BY <1>2, <1>4, <3>3 DEF SharedLines
      <3>4. QED
        BY <3>1, <3>2, <3>3
    <2>5. QED
      BY <2>1, <2>2, <2>3, <2>4 DEF SharedLines
  <1>12. AsNew(O, k.active, k.mixed)
    BY <1>1, <1>2, <1>4 DEF AsNew
  <1>13. QED
    BY <1>10, <1>11, <1>12 DEF Sound, O, f

(***************************************************************************)
(* The number that gui_buffer_unmerge() gives.                             *)
(***************************************************************************)
LEMMA UnmergedNumberFacts ==
  ASSUME NEW g, Good(g), NEW b \in Opened(g), NEW n \in Nat
  PROVE  /\ UnmergedNumber(g, b, n) \in Nat /\ UnmergedNumber(g, b, n) >= 1
         /\ g.auto => \E y \in Opened(g) : UnmergedNumber(g, b, n) <= g.number[y] + 1
  <1> DEFINE e == Last(g.list)
             u == UnmergedNumber(g, b, n)
  <1>1. g \in GuiData /\ g.list \in Seq(Buffer) /\ Opened(g) = ToSet(g.list)
        /\ g.number \in [Buffer -> Nat] /\ b \in Buffer
    BY DataFacts DEF Good
  <1>2. e \in Opened(g) /\ e \in Buffer
    <2>1. PICK i \in 1 .. Len(g.list) : g.list[i] = b
      BY <1>1, SeqFacts
    <2>2. Len(g.list) \in 1 .. Len(g.list)
      BY <1>1, <2>1, SeqFacts
    <2>3. e = g.list[Len(g.list)]
      BY DEF Last
    <2>4. QED
      BY <1>1, <2>2, <2>3, SeqFacts
  <1>3. g.number[e] \in Nat /\ g.number[b] \in Nat
    BY <1>1, <1>2
  <1>4. u = IF n < 1 \/ n = g.number[b] THEN g.number[b] + 1
            ELSE IF g.auto /\ n > g.number[e] + 1 THEN g.number[e] + 1 ELSE n
    BY DEF UnmergedNumber
  <1> HIDE DEF u, e
  <1> DEFINE nb == g.number[b]
             ne == g.number[e]
  <1>5. nb \in Nat /\ ne \in Nat
    BY <1>3
  <1>6. u = IF n < 1 \/ n = nb THEN nb + 1
            ELSE IF g.auto /\ n > ne + 1 THEN ne + 1 ELSE n
    BY <1>4
  <1> HIDE DEF nb, ne
  <1>7. u \in Nat /\ u >= 1 /\ (g.auto => u <= nb + 1 \/ u <= ne + 1)
    BY <1>5, <1>6
  <1>8. QED
    BY <1>2, <1>7 DEF nb, ne, u

(***************************************************************************)
(* No other buffer has the number of b.                                    *)
(***************************************************************************)
Alone(g, b) == \A y \in Opened(g) : g.number[y] = g.number[b] => y = b

(***************************************************************************)
(* gui_buffer_unmerge() keeps the data good, and leaves b alone.           *)
(***************************************************************************)
LEMMA UnmergeGood ==
  ASSUME NEW g, Good(g), NEW b \in Opened(g), NEW n \in Nat
  PROVE  /\ Good(Unmerge(g, b, n)) /\ Same(g, Unmerge(g, b, n))
         /\ Counted(g) => Counted(Unmerge(g, b, n))
         /\ Alone(Unmerge(g, b, n), b)
         /\ \A x \in Opened(g) : Alone(g, x) => Alone(Unmerge(g, b, n), x)
  <1>1. CASE ~ Merged(g, b)
    <2>1. Unmerge(g, b, n) = g
      BY <1>1 DEF Unmerge
    <2>2. Alone(g, b)
      BY <1>1, MergedFacts DEF Good, Alone
    <2>3. QED
      BY <2>1, <2>2 DEF Same
  <1>2. CASE Merged(g, b)
    <2> DEFINE O == Opened(g)
               number == UnmergedNumber(g, b, n)
               rest == Without(g, {b})
               i == PositionOf(rest, g.number, number)
               k == Parted(g, b)
               t == <<b>>
               L == Inserted(rest, i, t)
               f == [g.number EXCEPT ![b] = number]
               p == [k EXCEPT !.list = L, !.number = f]
    <2>1. g \in GuiData /\ Sorted(g) /\ Once(g.list) /\ Ordered(g.list, g.number)
      BY DEF Good, Sorted
    <2>2. /\ O \subseteq Buffer /\ b \in Buffer /\ g.number \in [Buffer -> Nat]
          /\ g.number \in [Buffer -> Int]
      BY <2>1, DataFacts
    <2>3. PartedFrom(g, b, k)
      BY <1>2, PartedFacts
    <2>4. /\ k \in GuiData /\ k.number = g.number /\ k.displayed = g.displayed
          /\ k.auto = g.auto /\ k.shown = g.shown /\ k.hidden = g.hidden
          /\ k.zoomed = g.zoomed
      BY <2>3 DEF PartedFrom
    <2> HIDE DEF k
    <2>5. Unmerge(g, b, n) = CountDisplayed(MakeRoom(p, i + 1))
      <3>1. Unmerge(g, b, n) = CountDisplayed(MakeRoom(
              [k EXCEPT !.list = Inserted(rest, i, <<b>>), !.number[b] = number], i + 1))
        BY <1>2 DEF Unmerge, k
      <3> HIDE DEF rest, number, i
      <3>2. [k EXCEPT !.list = Inserted(rest, i, <<b>>), !.number[b] = number] = p
        BY <2>4 DEF GuiData
      <3>3. QED
        BY <3>1, <3>2
    <2>6. /\ number \in Nat /\ number >= 1
          /\ g.auto => \E y \in O : number <= g.number[y] + 1
      BY UnmergedNumberFacts
    <2>7. /\ rest \in Seq(Buffer) /\ Once(rest) /\ ToSet(rest) = O \ {b}
          /\ Ordered(rest, g.number)
      BY <2>1, <2>2, WithoutFacts
    <2> HIDE DEF number, rest
    <2>8. /\ i \in 1 .. Len(rest) + 1
          /\ \A x \in Before(rest, i) : g.number[x] < number
          /\ \A x \in From(rest, i) : number <= g.number[x]
      <3>1. number \in Int
        BY <2>6
      <3>2. QED
        BY <2>2, <2>7, <3>1, PositionFacts
    <2> HIDE DEF i
    <2>9. t \in Seq(Buffer) /\ Once(t) /\ ToSet(t) = {b} /\ Len(t) = 1
      <3>1. t \in Seq(Buffer) /\ Len(t) = 1 /\ t[1] = b
        BY <2>2
      <3> HIDE DEF t
      <3>2. 1 .. 1 = {1}
        OBVIOUS
      <3>3. Once(t)
        BY <3>1 DEF Once
      <3>4. ToSet(t) = {t[j] : j \in 1 .. 1}
        BY <3>1, SeqFacts
      <3>5. QED
        BY <3>1, <3>2, <3>3, <3>4
    <2> HIDE DEF t
    <2>10. f \in [Buffer -> Nat] /\ f \in [Buffer -> Int] /\ f[b] = number
           /\ \A x \in Buffer \ {b} : f[x] = g.number[x]
      BY <2>2, <2>6
    <2> HIDE DEF f
    <2>11. /\ ToSet(rest) = Before(rest, i) \union From(rest, i)
      BY <2>7, <2>8, CutFacts
    <2>12. \A x \in ToSet(rest) : x \in O /\ x # b /\ f[x] = g.number[x]
      BY <2>2, <2>7, <2>10
    <2>13. Fits(rest, t, i, f, number)
      <3>1. Ordered(rest, f)
        <4>1. \A x, y \in ToSet(rest) : g.number[x] <= g.number[y] => f[x] <= f[y]
          BY <2>12
        <4>2. QED
          BY <2>2, <2>7, <2>10, <4>1, OrderedAlike
      <3>2. ToSet(rest) \intersect ToSet(t) = {}
        BY <2>7, <2>9
      <3>3. \A x \in ToSet(rest) : f[x] >= 1
        BY <2>1, <2>12 DEF Sorted
      <3>4. \A x \in ToSet(t) : f[x] = number
        BY <2>9, <2>10
      <3>5. /\ \A x \in Before(rest, i) : f[x] < number
            /\ \A x \in From(rest, i) : number <= f[x]
        BY <2>8, <2>11, <2>12
      <3>6. QED
        BY <2>6, <2>7, <2>8, <2>9, <2>10, <3>1, <3>2, <3>3, <3>4, <3>5 DEF Fits
    <2>14. PICK z \in O : z # b /\ g.number[z] = g.number[b]
      BY <1>2, <2>1, MergedFacts
    <2>15. ASSUME g.auto PROVE NextInUse(rest, f, number)
      <3>1. \A x \in O : \A m \in 1 .. g.number[x] : \E y \in O : g.number[y] = m
        BY <2>1, <2>15 DEF Sorted, Gapless
      <3>2. ASSUME NEW x \in O, NEW m \in 1 .. g.number[x]
            PROVE  \E y \in ToSet(rest) : f[y] = m
        <4>1. PICK y \in O : g.number[y] = m
          BY <3>1
        <4>2. CASE y = b
          <5>1. z \in ToSet(rest) /\ f[z] = m
            BY <2>7, <2>12, <2>14, <4>1, <4>2
          <5>2. QED
            BY <5>1
        <4>3. CASE y # b
          <5>1. y \in ToSet(rest) /\ f[y] = m
            BY <2>7, <2>12, <4>1, <4>3
          <5>2. QED
            BY <5>1
        <4>4. QED
          BY <4>2, <4>3
      <3>3. Gapless(ToSet(rest), f)
        <4>1. ASSUME NEW x \in ToSet(rest), NEW m \in 1 .. f[x]
              PROVE  \E y \in ToSet(rest) : f[y] = m
          BY <2>12, <3>2
        <4>2. QED
          BY <4>1 DEF Gapless
      <3>4. ASSUME NEW m \in 1 .. number - 1 PROVE \E y \in ToSet(rest) : f[y] = m
        <4>1. PICK y \in O : number <= g.number[y] + 1
          BY <2>6, <2>15
        <4>2. g.number[y] \in Nat
          BY <2>2
        <4>3. m \in 1 .. g.number[y]
          <5> DEFINE ny == g.number[y]
          <5>1. ny \in Nat /\ number <= ny + 1
            BY <4>1, <4>2
          <5> HIDE DEF ny
          <5>2. m \in 1 .. ny
            BY <2>6, <5>1
          <5>3. QED
            BY <5>2 DEF ny
        <4>4. QED
          BY <3>2, <4>3
      <3>5. QED
        BY <3>3, <3>4 DEF NextInUse
    <2>16. L \in Seq(Buffer) /\ ToSet(L) = O
      <3>1. Once(L) /\ ToSet(L) = ToSet(rest) \union ToSet(t)
        BY <2>13, FitsCut
      <3> HIDE DEF L
      <3>2. ToSet(L) = O
        BY <2>7, <2>9, <3>1
      <3>3. QED
        BY <3>1, <3>2 DEF Once
    <2> HIDE DEF L
    <2>17. /\ p \in GuiData /\ p.list = L /\ p.number = f /\ p.auto = g.auto
           /\ p.shown = g.shown /\ p.hidden = g.hidden /\ p.displayed = g.displayed
           /\ p.active = k.active /\ p.mixed = k.mixed /\ p.content = k.content
           /\ p.own = k.own
      BY <2>4, <2>10, <2>16 DEF GuiData
    <2> HIDE DEF p
    <2>18. PICK h : /\ MakeRoom(p, i + Len(t)) = [p EXCEPT !.number = h]
                    /\ Apart(rest, t, f, h)
                    /\ Sorted([p EXCEPT !.number = h])
      <3>1. p.list = Inserted(rest, i, t)
        BY <2>17 DEF L
      <3>2. Fits(rest, t, i, p.number, number) /\ (p.auto => NextInUse(rest, p.number, number))
        BY <2>13, <2>15, <2>17
      <3>3. QED
        BY <2>17, <3>1, <3>2, PlacedFacts
    <2> DEFINE q == [p EXCEPT !.number = h]
    <2>19. /\ h \in [Buffer -> Nat]
           /\ \A x, y \in O \ {b} : h[x] <= h[y] <=> g.number[x] <= g.number[y]
           /\ \A y \in O \ {b} : h[b] # h[y]
      <3>1. h \in [Buffer -> Nat]
        BY <2>18 DEF Apart
      <3>2. \A x, y \in ToSet(rest) : h[x] <= h[y] <=> f[x] <= f[y]
        BY <2>18 DEF Apart
      <3>3. \A x \in ToSet(t), y \in ToSet(rest) : h[x] # h[y]
        BY <2>18 DEF Apart
      <3>4. QED
        BY <2>7, <2>9, <2>12, <3>1, <3>2, <3>3
    <2>20. Split(O, g.number, h, b)
      <3>1. ASSUME NEW x \in O, NEW y \in O
            PROVE  h[x] = h[y] <=> x = y \/ (x # b /\ y # b /\ g.number[x] = g.number[y])
        <4>1. CASE x = b \/ y = b
          BY <2>19, <4>1
        <4>2. CASE x # b /\ y # b
          <5>1. /\ h[x] <= h[y] <=> g.number[x] <= g.number[y]
                /\ h[y] <= h[x] <=> g.number[y] <= g.number[x]
            BY <2>19, <4>2
          <5>2. h[x] \in Nat /\ h[y] \in Nat /\ g.number[x] \in Nat /\ g.number[y] \in Nat
            BY <2>2, <2>19
          <5>3. \A c, d \in Nat : c = d <=> c <= d /\ d <= c
            OBVIOUS
          <5>4. h[x] = h[y] <=> g.number[x] = g.number[y]
            BY <5>1, <5>2, <5>3, Zenon
          <5>5. QED
            BY <4>2, <5>4
        <4>3. QED
          BY <4>1, <4>2
      <3>2. QED
        BY <3>1 DEF Split
    <2>21. /\ q \in GuiData /\ q.list = L /\ q.number = h /\ q.auto = g.auto
           /\ q.shown = g.shown /\ q.hidden = g.hidden /\ q.displayed = g.displayed
           /\ q.active = k.active /\ q.mixed = k.mixed /\ q.content = k.content
           /\ q.own = k.own
      BY <2>17, <2>19 DEF GuiData
    <2>22. Sorted(q) /\ MakeRoom(p, i + 1) = q
      BY <2>9, <2>18
    <2> HIDE DEF q
    <2>23. Opened(q) = O
      BY <2>16, <2>21 DEF Opened
    <2>24. Sound(q)
      BY <1>2, <2>3, <2>20, <2>21, <2>23, SplitSound
    <2> DEFINE r == CountDisplayed(q)
    <2>25. /\ Good(r) /\ Same(q, r) /\ r.number = h /\ Counted(r)
      BY <2>21, <2>22, <2>24, CountGood, CountCounted
    <2> HIDE DEF r
    <2>26. Same(g, q)
      BY <2>21, <2>23 DEF Same
    <2>27. Same(g, r) /\ Opened(r) = O
      BY <2>25, <2>26, SameTwice DEF Same
    <2>28. Alone(r, b) /\ \A x \in O : Alone(g, x) => Alone(r, x)
      BY <2>20, <2>25, <2>27 DEF Split, Alone
    <2>29. Unmerge(g, b, n) = r
      BY <2>5, <2>22 DEF r
    <2>30. QED
      BY <2>25, <2>27, <2>28, <2>29
  <1>3. QED
    BY <1>1, <1>2

(***************************************************************************)
(* gui_buffer_unmerge_all() leaves no buffer merged.                       *)
(***************************************************************************)
LEMMA UnmergeAllGood ==
  ASSUME NEW g, Good(g)
  PROVE  /\ Good(UnmergeAll(g)) /\ Same(g, UnmergeAll(g))
         /\ Counted(g) => Counted(UnmergeAll(g))
         /\ \A x \in Opened(g) : Alone(UnmergeAll(g), x)
  <1> DEFINE s == g.list
             L == Loop("unmerge", 0, g, s, Len(s))
             S == {n \in 0 .. Len(s) : /\ Good(L[n]) /\ Same(g, L[n])
                                       /\ Counted(g) => Counted(L[n])
                                       /\ \A j \in 1 .. n : Alone(L[n], s[j])}
  <1>1. s \in Seq(Buffer) /\ Len(s) \in Nat /\ Opened(g) = ToSet(s)
    BY DataFacts, SeqFacts DEF Good
  <1>2. L[0] = g /\ \A n \in 0 .. Len(s) - 1 : L[n + 1] = LoopStep("unmerge", 0, L[n], s[n + 1])
    BY <1>1, LoopFacts
  <1>3. UnmergeAll(g) = L[Len(s)]
    BY LoopsOfModule
  <1> HIDE DEF L
  <1>4. 0 \in S
    BY <1>1, <1>2 DEF Same
  <1>5. ASSUME NEW n \in 0 .. Len(s) - 1, n \in S PROVE n + 1 \in S
    <2> DEFINE a == L[n]
               b == s[n + 1]
               u == Unmerge(a, b, 0)
    <2>1. n + 1 \in 0 .. Len(s) /\ n + 1 \in 1 .. Len(s)
      BY <1>1
    <2>2. /\ Good(a) /\ Same(g, a)
          /\ Counted(g) => Counted(a)
          /\ \A j \in 1 .. n : Alone(a, s[j])
      BY <1>5
    <2>3. Opened(a) = Opened(g) /\ \A j \in 1 .. Len(s) : s[j] \in Opened(a)
      BY <1>1, <2>2, SeqFacts DEF Same
    <2>4. L[n + 1] = u
      BY <1>2 DEF LoopStep
    <2>5. b \in Opened(a)
      BY <2>1, <2>3
    <2> HIDE DEF a, b, s
    <2>6. /\ Good(u) /\ Same(a, u) /\ Alone(u, b)
          /\ Counted(a) => Counted(u)
          /\ \A x \in Opened(a) : Alone(a, x) => Alone(u, x)
      BY <2>2, <2>5, UnmergeGood
    <2> HIDE DEF u
    <2>7. Same(g, u)
      BY <2>2, <2>6, SameTwice
    <2>8. ASSUME NEW j \in 1 .. n + 1 PROVE Alone(u, s[j])
      <3>1. j = n + 1 \/ j \in 1 .. n
        OBVIOUS
      <3>2. j \in 1 .. Len(s)
        BY <1>1
      <3>3. QED
        BY <2>2, <2>3, <2>6, <3>1, <3>2 DEF b
    <2>9. QED
      BY <2>1, <2>2, <2>4, <2>6, <2>7, <2>8
  <1> HIDE DEF S
  <1>6. Len(s) \in S
    BY <1>1, <1>4, <1>5, UpTo
  <1>7. /\ Good(L[Len(s)]) /\ Same(g, L[Len(s)])
        /\ Counted(g) => Counted(L[Len(s)])
        /\ \A j \in 1 .. Len(s) : Alone(L[Len(s)], s[j])
    BY <1>6 DEF S
  <1>8. \A x \in Opened(g) : \E j \in 1 .. Len(s) : s[j] = x
    BY <1>1, SeqFacts
  <1>9. QED
    BY <1>3, <1>7, <1>8

-----------------------------------------------------------------------------
(* Moving: groups that change their numbers                                *)

\* The windows show buffers of the list.
ShownOpen(g) == \A w \in Window : g.shown[w] = NoBuffer \/ g.shown[w] \in Opened(g)

\* Those merged in g, and only they, are merged in h.
SameClasses(O, n, f) == \A x, y \in O : f[x] = f[y] <=> n[x] = n[y]

(***************************************************************************)
(* Groups that only change their numbers remain sound.                     *)
(***************************************************************************)
LEMMA RenumberedGood ==
  ASSUME NEW g \in GuiData, Sound(g), NEW h \in GuiData, Sorted(h), Opened(h) = Opened(g),
         SameClasses(Opened(g), g.number, h.number),
         h.active = g.active, h.zoomed = g.zoomed, h.mixed = g.mixed,
         h.content = g.content, h.own = g.own, h.shown = g.shown,
         h.displayed = g.displayed, h.auto = g.auto, h.hidden = g.hidden
  PROVE  /\ Good(h) /\ Same(g, h)
         /\ (ShownOpen(g) /\ Counted(g)) => Counted(h)
  <1>1. Sound(h)
    BY SameGroups DEF SameClasses
  <1>2. Same(g, h)
    BY DEF Same
  <1>3. ASSUME ShownOpen(g), Counted(g) PROVE Counted(h)
    <2>1. ASSUME NEW b \in Opened(g) PROVE Looking(h, b) = Looking(g, b)
      BY <1>3 DEF Looking, ShownOpen, SameClasses
    <2>2. ASSUME NEW b \in Opened(g)
          PROVE  \/ h.displayed[b] = Cardinality(Looking(h, b))
                 \/ \E x \in Opened(h) : /\ h.number[x] = h.number[b]
                                         /\ h.zoomed[x] \/ h.active[x] = 2
      <3>1. CASE g.displayed[b] = Cardinality(Looking(g, b))
        BY <2>1, <3>1
      <3>2. CASE \E x \in Opened(g) : /\ g.number[x] = g.number[b]
                                      /\ g.zoomed[x] \/ g.active[x] = 2
        BY <3>2 DEF SameClasses
      <3>3. QED
        BY <1>3, <3>1, <3>2 DEF Counted
    <2>3. QED
      BY <2>2 DEF Counted
  <1>4. QED
    BY <1>1, <1>2, <1>3 DEF Good

(***************************************************************************)
(* Numbers that are ordered alike are equal alike.                         *)
(***************************************************************************)
LEMMA EqualByOrder ==
  ASSUME NEW O, NEW n, NEW f, \A x \in O : n[x] \in Nat /\ f[x] \in Nat,
         \A x, y \in O : f[x] <= f[y] <=> n[x] <= n[y]
  PROVE  SameClasses(O, n, f)
  <1>1. ASSUME NEW x \in O, NEW y \in O PROVE f[x] = f[y] <=> n[x] = n[y]
    <2>1. (f[x] <= f[y] <=> n[x] <= n[y]) /\ (f[y] <= f[x] <=> n[y] <= n[x])
      OBVIOUS
    <2>2. f[x] \in Nat /\ f[y] \in Nat /\ n[x] \in Nat /\ n[y] \in Nat
      OBVIOUS
    <2>3. \A c, d \in Nat : c = d <=> c <= d /\ d <= c
      OBVIOUS
    <2>4. QED
      BY <2>1, <2>2, <2>3, Zenon
  <1>2. QED
    BY <1>1 DEF SameClasses

(***************************************************************************)
(* gui_buffer_move_to_number()                                             *)
(***************************************************************************)
LEMMA MoveGood ==
  ASSUME NEW g, Good(g), NEW b \in Opened(g), NEW n \in Nat, n >= 1
  PROVE  /\ Good(Move(g, b, n)) /\ Same(g, Move(g, b, n))
         /\ (ShownOpen(g) /\ Counted(g)) => Counted(Move(g, b, n))
  <1> DEFINE O == Opened(g)
             M == Members(g, b)
             group == Group(g, b)
             rest == Without(g, M)
             lower == Decreased(g, Last(group))
             i == PositionOf(rest, lower, n)
             number == IF i > Len(rest) /\ g.auto THEN lower[Last(rest)] + 1 ELSE n
             L == Inserted(rest, i, group)
             f == [x \in Buffer |-> IF x \in M THEN number ELSE lower[x]]
             p == [g EXCEPT !.list = L, !.number = f]
  <1>1. CASE n = g.number[b] \/ (g.auto /\ rest = <<>>)
    <2>1. Move(g, b, n) = g
      BY <1>1 DEF Move
    <2>2. QED
      BY <2>1 DEF Same
  <1>2. CASE ~ (n = g.number[b] \/ (g.auto /\ rest = <<>>))
    <2>1. g \in GuiData /\ Sorted(g) /\ Sound(g) /\ Once(g.list) /\ Ordered(g.list, g.number)
      BY DEF Good, Sorted
    <2>2. /\ O \subseteq Buffer /\ b \in Buffer /\ g.number \in [Buffer -> Nat]
          /\ g.number \in [Buffer -> Int] /\ M \subseteq O
          /\ \A x \in O : x \in M <=> g.number[x] = g.number[b]
      BY <2>1, DataFacts, MembersFacts DEF Members
    <2>3. Move(g, b, n) = MakeRoom(p, i + Len(group))
      BY <1>2 DEF Move
    <2>4. Lowered(g, b, lower)
      <3>1. Following(g, Last(group)) = Above(g, b)
        BY <2>1, FollowingGroup
      <3>2. QED
        BY <2>1, <3>1, LoweredFacts
    <2>5. /\ lower \in [Buffer -> Nat] /\ lower \in [Buffer -> Int]
          /\ \A x \in O : lower[x] >= 1
          /\ \A x, y \in O \ M : lower[x] <= lower[y] <=> g.number[x] <= g.number[y]
          /\ g.auto => Gapless(O \ M, lower)
      <3>1. lower \in [Buffer -> Nat]
        BY <2>4 DEF Lowered
      <3> HIDE DEF lower
      <3>2. lower \in [Buffer -> Int]
        BY <3>1
      <3>3. QED
        BY <2>4, <3>1, <3>2 DEF Lowered
    <2>6. /\ rest \in Seq(Buffer) /\ Once(rest) /\ ToSet(rest) = O \ M
          /\ Ordered(rest, g.number)
      BY <2>1, <2>2, WithoutFacts
    <2>7. /\ group \in Seq(Buffer) /\ Once(group) /\ ToSet(group) = M
      BY <2>1, <2>2, GroupFacts
    <2>8. g.auto => rest # <<>>
      BY <1>2
    <2> HIDE DEF lower, rest, group
    <2>9. Ordered(rest, lower)
      <3>1. \A x, y \in ToSet(rest) : g.number[x] <= g.number[y] => lower[x] <= lower[y]
        BY <2>5, <2>6
      <3>2. QED
        BY <2>2, <2>5, <2>6, <3>1, OrderedAlike
    <2>10. /\ i \in 1 .. Len(rest) + 1
           /\ \A x \in Before(rest, i) : lower[x] < n
           /\ \A x \in From(rest, i) : n <= lower[x]
      <3>1. n \in Int
        OBVIOUS
      <3>2. QED
        BY <2>5, <2>6, <2>9, <3>1, PositionFacts
    <2> HIDE DEF i
    <2>11. /\ ToSet(rest) = Before(rest, i) \union From(rest, i)
           /\ Len(rest) \in Nat
      BY <2>6, <2>10, CutFacts, SeqFacts
    <2>12. ASSUME g.auto
           PROVE  /\ Last(rest) \in ToSet(rest) /\ Len(rest) \in 1 .. Len(rest)
                  /\ Last(rest) = rest[Len(rest)]
      <3>1. rest # <<>>
        BY <2>8, <2>12
      <3>2. Len(rest) \in 1 .. Len(rest)
        BY <2>6, <2>11, <3>1
      <3>3. Last(rest) = rest[Len(rest)]
        BY DEF Last
      <3>4. QED
        BY <2>6, <3>2, <3>3, SeqFacts
    <2>13. number \in Nat /\ number >= 1
      <3>1. CASE i > Len(rest) /\ g.auto
        <4>1. lower[Last(rest)] \in Nat /\ number = lower[Last(rest)] + 1
          BY <2>2, <2>5, <2>6, <2>12, <3>1
        <4>2. QED
          BY <4>1
      <3>2. CASE ~ (i > Len(rest) /\ g.auto)
        BY <3>2
      <3>3. QED
        BY <3>1, <3>2
    <2>14. \A x \in Before(rest, i) : lower[x] < number
      <3>1. CASE i > Len(rest) /\ g.auto
        <4>1. ASSUME NEW j \in 1 .. i - 1 PROVE lower[rest[j]] < number
          <5>1. j \in 1 .. Len(rest) /\ Len(rest) \in 1 .. Len(rest)
                /\ (j < Len(rest) \/ j = Len(rest))
            BY <2>10, <2>11, <2>12, <3>1
          <5>2. lower[rest[j]] \in Nat /\ lower[rest[Len(rest)]] \in Nat
            BY <2>5, <2>6, <5>1, SeqFacts
          <5>3. lower[rest[j]] <= lower[rest[Len(rest)]]
            BY <2>9, <5>1, <5>2 DEF Ordered
          <5>4. number = lower[rest[Len(rest)]] + 1
            BY <2>12, <3>1
          <5>5. \A c, d \in Nat : c <= d => c < d + 1
            OBVIOUS
          <5> HIDE DEF number
          <5>6. QED
            BY <5>2, <5>3, <5>4, <5>5
        <4> HIDE DEF number
        <4>2. QED
          BY <4>1 DEF Before
      <3>2. CASE ~ (i > Len(rest) /\ g.auto)
        BY <2>10, <3>2
      <3>3. QED
        BY <3>1, <3>2
    <2>15. \A x \in From(rest, i) : number <= lower[x]
      <3>1. CASE i > Len(rest) /\ g.auto
        <4>1. From(rest, i) = {}
          BY <2>10, <2>11, <3>1 DEF From
        <4>2. QED
          BY <4>1
      <3>2. CASE ~ (i > Len(rest) /\ g.auto)
        BY <2>10, <3>2
      <3>3. QED
        BY <3>1, <3>2
    <2>16. ASSUME g.auto, NEW m \in 1 .. number - 1
           PROVE  \E y \in ToSet(rest) : lower[y] = m
      <3>1. \A x \in ToSet(rest) : \A j \in 1 .. lower[x] : \E y \in ToSet(rest) : lower[y] = j
        BY <2>5, <2>6, <2>16 DEF Gapless
      <3>2. \E x \in ToSet(rest) : m \in 1 .. lower[x]
        <4>1. CASE i > Len(rest)
          <5>1. number = lower[Last(rest)] + 1 /\ Last(rest) \in ToSet(rest)
            BY <2>12, <2>16, <4>1
          <5>2. lower[Last(rest)] \in Nat
            BY <2>5, <2>6, <5>1, SeqFacts
          <5> HIDE DEF number
          <5>3. m \in 1 .. lower[Last(rest)]
            BY <2>16, <5>1, <5>2
          <5>4. QED
            BY <5>1, <5>3
        <4>2. CASE ~ (i > Len(rest))
          <5>1. i \in i .. Len(rest) /\ i \in 1 .. Len(rest)
            BY <2>10, <2>11, <4>2
          <5>2. rest[i] \in From(rest, i) /\ rest[i] \in ToSet(rest)
            BY <2>6, <5>1, SeqFacts DEF From
          <5>3. number <= lower[rest[i]] /\ lower[rest[i]] \in Nat
            BY <2>5, <2>6, <2>15, <5>2, SeqFacts
          <5> HIDE DEF number
          <5>4. m \in 1 .. lower[rest[i]]
            BY <2>13, <2>16, <5>3
          <5>5. QED
            BY <5>2, <5>4
        <4>3. QED
          BY <4>1, <4>2
      <3>3. QED
        BY <3>1, <3>2
    <2> HIDE DEF number
    <2>17. /\ f \in [Buffer -> Nat]
           /\ \A x \in M : f[x] = number
           /\ \A x \in ToSet(rest) : f[x] = lower[x]
      <3>1. \A x \in Buffer : f[x] \in Nat
        BY <2>5, <2>13
      <3>2. f = [x \in Buffer |-> f[x]]
        OBVIOUS
      <3>3. \A x \in M : f[x] = number
        BY <2>2
      <3>4. \A x \in ToSet(rest) : f[x] = lower[x]
        BY <2>2, <2>6
      <3> HIDE DEF f
      <3>5. QED
        BY <3>1, <3>2, <3>3, <3>4
    <2> HIDE DEF f
    <2>18. f \in [Buffer -> Int]
      BY <2>17
    <2>19. Fits(rest, group, i, f, number)
      <3>1. Ordered(rest, f)
        <4>1. \A x, y \in ToSet(rest) : lower[x] <= lower[y] => f[x] <= f[y]
          BY <2>17
        <4>2. QED
          BY <2>5, <2>6, <2>9, <2>18, <4>1, OrderedAlike
      <3>2. ToSet(rest) \intersect ToSet(group) = {}
        BY <2>6, <2>7
      <3>3. \A x \in ToSet(rest) : f[x] >= 1
        BY <2>5, <2>6, <2>17
      <3>4. /\ \A x \in Before(rest, i) : f[x] < number
            /\ \A x \in From(rest, i) : number <= f[x]
        BY <2>11, <2>14, <2>15, <2>17
      <3>5. QED
        BY <2>6, <2>7, <2>10, <2>13, <2>17, <3>1, <3>2, <3>3, <3>4 DEF Fits
    <2>20. ASSUME g.auto PROVE NextInUse(rest, f, number)
      <3>1. Gapless(ToSet(rest), f)
        <4>1. Gapless(ToSet(rest), lower)
          BY <2>5, <2>6, <2>20
        <4>2. QED
          BY <2>17, <4>1 DEF Gapless
      <3>2. \A m \in 1 .. number - 1 : \E y \in ToSet(rest) : f[y] = m
        BY <2>16, <2>17, <2>20
      <3>3. QED
        BY <3>1, <3>2 DEF NextInUse
    <2>21. L \in Seq(Buffer) /\ ToSet(L) = O
      <3>1. Once(L) /\ ToSet(L) = ToSet(rest) \union ToSet(group)
        BY <2>19, FitsCut
      <3> HIDE DEF L
      <3>2. ToSet(L) = O
        BY <2>2, <2>6, <2>7, <3>1
      <3>3. QED
        BY <3>1, <3>2 DEF Once
    <2> HIDE DEF L
    <2>22. /\ p \in GuiData /\ p.list = L /\ p.number = f /\ p.auto = g.auto
           /\ p.shown = g.shown /\ p.hidden = g.hidden /\ p.displayed = g.displayed
           /\ p.active = g.active /\ p.zoomed = g.zoomed
           /\ p.mixed = g.mixed /\ p.content = g.content /\ p.own = g.own
      BY <2>1, <2>17, <2>21 DEF GuiData
    <2> HIDE DEF p
    <2>23. PICK h : /\ MakeRoom(p, i + Len(group)) = [p EXCEPT !.number = h]
                    /\ Apart(rest, group, f, h)
                    /\ Sorted([p EXCEPT !.number = h])
      <3>1. p.list = Inserted(rest, i, group)
        BY <2>22 DEF L
      <3>2. Fits(rest, group, i, p.number, number) /\ (p.auto => NextInUse(rest, p.number, number))
        BY <2>19, <2>20, <2>22
      <3>3. QED
        BY <2>22, <3>1, <3>2, PlacedFacts
    <2> DEFINE q == [p EXCEPT !.number = h]
    <2>24. /\ h \in [Buffer -> Nat]
           /\ \A x \in M : h[x] = number
           /\ \A x, y \in ToSet(rest) : h[x] <= h[y] <=> lower[x] <= lower[y]
           /\ \A x \in M, y \in ToSet(rest) : h[x] # h[y]
      <3>1. h \in [Buffer -> Nat] /\ \A x \in Buffer \ ToSet(rest) : h[x] = f[x]
        BY <2>23 DEF Apart
      <3>2. \A x, y \in ToSet(rest) : h[x] <= h[y] <=> f[x] <= f[y]
        BY <2>23 DEF Apart
      <3>3. \A x \in ToSet(group), y \in ToSet(rest) : h[x] # h[y]
        BY <2>23 DEF Apart
      <3>4. \A x \in M : x \in Buffer \ ToSet(rest)
        BY <2>2, <2>6
      <3>5. QED
        BY <2>7, <2>17, <3>1, <3>2, <3>3, <3>4
    <2>25. SameClasses(O, g.number, h)
      <3>1. SameClasses(O \ M, g.number, h)
        <4>1. \A x \in O \ M : g.number[x] \in Nat /\ h[x] \in Nat
          BY <2>2, <2>24
        <4>2. \A x, y \in O \ M : h[x] <= h[y] <=> g.number[x] <= g.number[y]
          BY <2>5, <2>6, <2>24
        <4>3. QED
          BY <4>1, <4>2, EqualByOrder
      <3>2. ASSUME NEW x \in O, NEW y \in O PROVE h[x] = h[y] <=> g.number[x] = g.number[y]
        <4>1. CASE x \in M /\ y \in M
          BY <2>2, <2>24, <4>1
        <4>2. CASE x \in M /\ y \notin M
          BY <2>2, <2>6, <2>24, <4>2
        <4>3. CASE x \notin M /\ y \in M
          BY <2>2, <2>6, <2>24, <4>3
        <4>4. CASE x \notin M /\ y \notin M
          BY <3>1, <4>4 DEF SameClasses
        <4>5. QED
          BY <4>1, <4>2, <4>3, <4>4
      <3>3. QED
        BY <3>2 DEF SameClasses
    <2>26. /\ q \in GuiData /\ q.list = L /\ q.number = h /\ q.auto = g.auto
           /\ q.shown = g.shown /\ q.hidden = g.hidden /\ q.displayed = g.displayed
           /\ q.active = g.active /\ q.zoomed = g.zoomed
           /\ q.mixed = g.mixed /\ q.content = g.content /\ q.own = g.own
      BY <2>22, <2>24 DEF GuiData
    <2>27. Sorted(q) /\ Move(g, b, n) = q
      <3> HIDE DEF group, i
      <3>1. Move(g, b, n) = MakeRoom(p, i + Len(group))
        BY <2>3 DEF p, L, f, number, rest, lower
      <3>2. QED
        BY <2>23, <3>1
    <2> HIDE DEF q
    <2>28. Opened(q) = O
      BY <2>21, <2>26 DEF Opened
    <2>29. /\ Good(q) /\ Same(g, q)
           /\ (ShownOpen(g) /\ Counted(g)) => Counted(q)
      BY <2>1, <2>25, <2>26, <2>27, <2>28, RenumberedGood
    <2>30. QED
      BY <2>27, <2>29
  <1>3. QED
    BY <1>1, <1>2

-----------------------------------------------------------------------------
(* Swapping                                                                *)

(***************************************************************************)
(* Two pieces of a list, one after the other.                              *)
(***************************************************************************)
Piece(s, S, f) == Once(s) /\ ToSet(s) = S /\ Ordered(s, f)

LEMMA PiecesJoined ==
  ASSUME NEW s, NEW t, NEW S, NEW T, NEW f \in [Buffer -> Int],
         Piece(s, S, f), Piece(t, T, f), \A x \in S, y \in T : f[x] < f[y]
  PROVE  Piece(s \o t, S \union T, f)
  <1>1. /\ s \in Seq(Buffer) /\ t \in Seq(Buffer) /\ Once(s) /\ Once(t)
        /\ ToSet(s) = S /\ ToSet(t) = T /\ Ordered(s, f) /\ Ordered(t, f)
    BY DEF Piece, Once
  <1>2. S \subseteq Buffer /\ T \subseteq Buffer
    BY <1>1, SeqFacts
  <1>3. ToSet(s) \intersect ToSet(t) = {}
    <2>1. SUFFICES ASSUME NEW x \in S, x \in T PROVE FALSE
      BY <1>1
    <2>2. f[x] < f[x] /\ f[x] \in Int
      BY <1>2, <2>1
    <2>3. QED
      BY <2>2
  <1>4. \A x \in ToSet(s), y \in ToSet(t) : f[x] <= f[y]
    <2>1. \A x \in S, y \in T : f[x] \in Int /\ f[y] \in Int
      BY <1>2
    <2>2. QED
      BY <1>1, <2>1
  <1>5. Once(s \o t)
    BY <1>1, <1>3, ConcatOnce
  <1>6. ToSet(s \o t) = S \union T
    BY <1>1, ConcatFacts
  <1>7. Ordered(s \o t, f)
    BY <1>1, <1>4, ConcatOrdered
  <1>8. QED
    BY <1>5, <1>6, <1>7 DEF Piece

(***************************************************************************)
(* gui_buffer_swap()                                                       *)
(***************************************************************************)
LEMMA SwapGood ==
  ASSUME NEW g, Good(g), NEW b \in Opened(g), NEW c \in Opened(g)
  PROVE  /\ Good(Swap(g, b, c)) /\ Same(g, Swap(g, b, c))
         /\ (ShownOpen(g) /\ Counted(g)) => Counted(Swap(g, b, c))
  <1> DEFINE O == Opened(g)
             n == g.number
             low == IF n[b] < n[c] THEN b ELSE c
             high == IF n[b] < n[c] THEN c ELSE b
             below == {x \in O : n[x] < n[low]}
             above == {x \in O : n[x] > n[high]}
             between == {x \in O : n[low] < n[x] /\ n[x] < n[high]}
             ML == Members(g, low)
             MH == Members(g, high)
             f == [x \in Buffer |-> IF x \in Members(g, b) THEN n[c]
                                    ELSE IF x \in Members(g, c) THEN n[b] ELSE n[x]]
             L == Kept(g.list, below) \o Group(g, high) \o Kept(g.list, between)
                    \o Group(g, low) \o Kept(g.list, above)
             q == [g EXCEPT !.list = L, !.number = f]
  <1>1. CASE n[b] = n[c]
    <2>1. Swap(g, b, c) = g
      BY <1>1 DEF Swap
    <2>2. QED
      BY <2>1 DEF Same
  <1>2. CASE n[b] # n[c]
    <2>1. g \in GuiData /\ Sorted(g) /\ Sound(g) /\ Once(g.list) /\ Ordered(g.list, n)
      BY DEF Good, Sorted
    <2>2. /\ O \subseteq Buffer /\ n \in [Buffer -> Nat] /\ n \in [Buffer -> Int]
          /\ g.list \in Seq(Buffer) /\ O = ToSet(g.list) /\ b \in Buffer /\ c \in Buffer
      BY <2>1, DataFacts
    <2>3. /\ low \in O /\ high \in O /\ low \in Buffer /\ high \in Buffer
          /\ {b, c} = {low, high} /\ n[low] < n[high]
          /\ n[low] \in Nat /\ n[high] \in Nat
      <3>1. n[b] \in Nat /\ n[c] \in Nat
        BY <2>2
      <3>2. QED
        BY <1>2, <2>2, <3>1
    <2>4. Swap(g, b, c) = q
      BY <1>2 DEF Swap
    <2>5. /\ \A x \in O : x \in ML <=> n[x] = n[low]
          /\ \A x \in O : x \in MH <=> n[x] = n[high]
          /\ ML \subseteq O /\ MH \subseteq O /\ low \in ML /\ high \in MH
      BY <2>3 DEF Members
    <2>6. /\ f \in [Buffer -> Nat] /\ f \in [Buffer -> Int]
          /\ \A x \in ML : f[x] = n[high]
          /\ \A x \in MH : f[x] = n[low]
          /\ \A x \in Buffer : x \notin ML /\ x \notin MH => f[x] = n[x]
      <3>1. \A x \in Buffer : n[x] \in Nat
        BY <2>2
      <3>2. \A x \in Buffer : f[x] \in Nat
        BY <2>2, <3>1
      <3>3. f = [x \in Buffer |-> f[x]]
        OBVIOUS
      <3>4. \A x \in Buffer : f[x] = IF x \in Members(g, b) THEN n[c]
                                     ELSE IF x \in Members(g, c) THEN n[b] ELSE n[x]
        OBVIOUS
      <3> HIDE DEF f
      <3>5. f \in [Buffer -> Nat] /\ f \in [Buffer -> Int]
        BY <3>2, <3>3
      <3>6. \A x : ~(x \in Members(g, b) /\ x \in Members(g, c))
        BY <1>2 DEF Members
      <3>7. CASE n[b] < n[c]
        <4>1. low = b /\ high = c
          BY <3>7
        <4>2. QED
          BY <2>2, <2>5, <3>4, <3>5, <3>6, <4>1
      <3>8. CASE ~(n[b] < n[c])
        <4>1. low = c /\ high = b
          BY <3>8
        <4>2. QED
          BY <2>2, <2>5, <3>4, <3>5, <3>6, <4>1
      <3>9. QED
        BY <3>7, <3>8
    <2> HIDE DEF f, low, high, n
    <2>7. ASSUME NEW S \in SUBSET O, \A x \in S : x \notin ML /\ x \notin MH
          PROVE  Piece(Kept(g.list, S), S, f)
      <3> DEFINE k == Kept(g.list, S)
      <3>1. k \in Seq(Buffer) /\ ToSet(k) = S /\ Once(k) /\ Ordered(k, n)
        <4>1. ToSet(k) = O \intersect S /\ k \in Seq(Buffer) /\ Once(k)
          BY <2>1, <2>2, KeptFacts
        <4>2. \A h \in [Buffer -> Int] : Ordered(g.list, h) => Ordered(k, h)
          BY <2>2, KeptFacts
        <4>3. n \in [Buffer -> Int] /\ Ordered(g.list, n)
          BY <2>1, <2>2
        <4> HIDE DEF k
        <4>4. QED
          BY <2>7, <4>1, <4>2, <4>3
      <3> HIDE DEF k
      <3>2. \A x, y \in ToSet(k) : n[x] <= n[y] => f[x] <= f[y]
        BY <2>2, <2>6, <2>7, <3>1
      <3>3. Ordered(k, f)
        BY <2>2, <2>6, <3>1, <3>2, OrderedAlike
      <3>4. QED
        BY <3>1, <3>3 DEF Piece, k
    <2>8. ASSUME NEW x \in {low, high} PROVE Piece(Group(g, x), Members(g, x), f)
      <3>1. x \in Buffer /\ x \in O
        BY <2>3
      <3>2. Once(Group(g, x)) /\ ToSet(Group(g, x)) = Members(g, x)
        BY <2>1, <3>1, GroupFacts
      <3>3. \A y, z \in Members(g, x) : f[y] = f[z]
        BY <2>6
      <3>4. Ordered(Group(g, x), f)
        BY <2>1, <2>6, <3>1, <3>3, GroupOrdered
      <3>5. QED
        BY <3>2, <3>4 DEF Piece
    <2>9. /\ \A x \in below : f[x] = n[x] /\ n[x] < n[low] /\ n[x] \in Nat
          /\ \A x \in between : f[x] = n[x] /\ n[low] < n[x] /\ n[x] < n[high] /\ n[x] \in Nat
          /\ \A x \in above : f[x] = n[x] /\ n[high] < n[x] /\ n[x] \in Nat
      <3>1. ASSUME NEW x \in O, n[x] # n[low], n[x] # n[high] PROVE f[x] = n[x]
        BY <2>2, <2>5, <2>6, <3>1
      <3>2. \A x \in O : n[x] \in Nat
        BY <2>2
      <3>3. ASSUME NEW x \in below PROVE f[x] = n[x] /\ n[x] < n[low] /\ n[x] \in Nat
        BY <2>3, <3>1, <3>2
      <3>4. ASSUME NEW x \in between
            PROVE  f[x] = n[x] /\ n[low] < n[x] /\ n[x] < n[high] /\ n[x] \in Nat
        BY <2>3, <3>1, <3>2
      <3>5. ASSUME NEW x \in above PROVE f[x] = n[x] /\ n[high] < n[x] /\ n[x] \in Nat
        BY <2>3, <3>1, <3>2
      <3>6. QED
        BY <3>3, <3>4, <3>5
    <2>10. /\ below \in SUBSET O /\ between \in SUBSET O /\ above \in SUBSET O
           /\ \A x \in below \union between \union above : x \notin ML /\ x \notin MH
      BY <2>2, <2>3, <2>5
    <2>11. /\ Piece(Kept(g.list, below), below, f)
           /\ Piece(Kept(g.list, between), between, f)
           /\ Piece(Kept(g.list, above), above, f)
      BY <2>7, <2>10
    <2>12. Piece(Group(g, low), ML, f) /\ Piece(Group(g, high), MH, f)
      BY <2>8
    <2>13. below \union MH \union between \union ML \union above = O
      <3>1. ASSUME NEW x \in O
            PROVE  x \in below \union MH \union between \union ML \union above
        <4>1. n[x] \in Nat
          BY <2>2
        <4>2. n[x] < n[low] \/ n[x] = n[low] \/ (n[low] < n[x] /\ n[x] < n[high])
              \/ n[x] = n[high] \/ n[x] > n[high]
          BY <2>3, <4>1
        <4>3. QED
          BY <2>5, <4>2
      <3>2. QED
        BY <2>5, <2>10, <3>1
    <2> HIDE DEF below, between, above, ML, MH
    <2> DEFINE nl == n[low]
               nh == n[high]
    <2>14. /\ \A x \in below : f[x] \in Nat /\ f[x] < nl
           /\ \A x \in MH : f[x] = nl
           /\ \A x \in between : f[x] \in Nat /\ nl < f[x] /\ f[x] < nh
           /\ \A x \in ML : f[x] = nh
           /\ \A x \in above : f[x] \in Nat /\ nh < f[x]
           /\ nl \in Nat /\ nh \in Nat /\ nl < nh
      BY <2>3, <2>6, <2>9
    <2> HIDE DEF nl, nh
    <2> DEFINE l2 == Kept(g.list, below) \o Group(g, high)
               l3 == l2 \o Kept(g.list, between)
               l4 == l3 \o Group(g, low)
               s2 == below \union MH
               s3 == s2 \union between
               s4 == s3 \union ML
    <2>15. Piece(l2, s2, f)
      <3>1. \A x \in below, y \in MH : f[x] < f[y]
        BY <2>14
      <3>2. QED
        BY <2>6, <2>11, <2>12, <3>1, PiecesJoined
    <2>16. Piece(l3, s3, f)
      <3>1. \A x \in s2, y \in between : f[x] < f[y]
        BY <2>14
      <3> HIDE DEF l2, s2
      <3>2. QED
        BY <2>6, <2>11, <2>15, <3>1, PiecesJoined
    <2>17. Piece(l4, s4, f)
      <3>1. \A x \in s3, y \in ML : f[x] < f[y]
        BY <2>14
      <3> HIDE DEF l3, s3
      <3>2. QED
        BY <2>6, <2>12, <2>16, <3>1, PiecesJoined
    <2>18. Piece(L, O, f)
      <3>1. \A x \in s4, y \in above : f[x] < f[y]
        BY <2>14
      <3>2. s4 \union above = O
        BY <2>13
      <3>3. L = l4 \o Kept(g.list, above)
        OBVIOUS
      <3> HIDE DEF l4, s4, L
      <3>4. Piece(l4 \o Kept(g.list, above), s4 \union above, f)
        BY <2>6, <2>11, <2>17, <3>1, PiecesJoined
      <3>5. QED
        BY <3>2, <3>3, <3>4
    <2> HIDE DEF L
    <2>19. L \in Seq(Buffer) /\ Once(L) /\ ToSet(L) = O /\ Ordered(L, f)
      BY <2>18 DEF Piece, Once
    <2>20. SameClasses(O, n, f)
      <3>1. ASSUME NEW x \in O, NEW y \in O PROVE f[x] = f[y] <=> n[x] = n[y]
        <4>1. x \notin ML /\ x \notin MH => n[x] # n[low] /\ n[x] # n[high] /\ f[x] = n[x]
          BY <2>2, <2>5, <2>6 DEF ML, MH
        <4>2. y \notin ML /\ y \notin MH => n[y] # n[low] /\ n[y] # n[high] /\ f[y] = n[y]
          BY <2>2, <2>5, <2>6 DEF ML, MH
        <4>3. n[low] # n[high]
          BY <2>3
        <4>4. /\ x \in ML => n[x] = n[low] /\ f[x] = n[high]
              /\ x \in MH => n[x] = n[high] /\ f[x] = n[low]
              /\ y \in ML => n[y] = n[low] /\ f[y] = n[high]
              /\ y \in MH => n[y] = n[high] /\ f[y] = n[low]
          BY <2>5, <2>6 DEF ML, MH
        <4>5. QED
          BY <4>1, <4>2, <4>3, <4>4
      <3>2. QED
        BY <3>1 DEF SameClasses
    <2>21. \A x \in O : \E y \in O : f[x] = n[y]
      <3>1. ASSUME NEW x \in O PROVE \E y \in O : f[x] = n[y]
        <4>1. f[x] = n[low] \/ f[x] = n[high] \/ f[x] = n[x]
          BY <2>2, <2>6
        <4>2. QED
          BY <2>3, <4>1
      <3>2. QED
        BY <3>1
    <2>22. \A y \in O : \E x \in O : f[x] = n[y]
      <3>1. ASSUME NEW y \in O PROVE \E x \in O : f[x] = n[y]
        <4>1. CASE y \in ML
          <5>1. high \in O /\ high \in MH /\ f[high] = n[low] /\ n[y] = n[low]
            BY <2>3, <2>5, <2>6, <4>1 DEF ML, MH
          <5>2. QED
            BY <5>1
        <4>2. CASE y \in MH
          <5>1. low \in O /\ low \in ML /\ f[low] = n[high] /\ n[y] = n[high]
            BY <2>3, <2>5, <2>6, <4>2 DEF ML, MH
          <5>2. QED
            BY <5>1
        <4>3. CASE y \notin ML /\ y \notin MH
          BY <2>2, <2>6, <4>3
        <4>4. QED
          BY <4>1, <4>2, <4>3
      <3>2. QED
        BY <3>1
    <2>23. \A x \in O : f[x] >= 1
      BY <2>1, <2>21 DEF Sorted, n
    <2>24. ASSUME g.auto PROVE Gapless(O, f)
      <3>1. Gapless(O, n)
        BY <2>1, <2>24 DEF Sorted, n
      <3>2. ASSUME NEW x \in O, NEW m \in 1 .. f[x] PROVE \E y \in O : f[y] = m
        <4>1. PICK z \in O : f[x] = n[z]
          BY <2>21
        <4>2. PICK y \in O : n[y] = m
          BY <3>1, <3>2, <4>1 DEF Gapless
        <4>3. QED
          BY <2>22, <4>2
      <3>3. QED
        BY <3>2 DEF Gapless
    <2>25. /\ q \in GuiData /\ q.list = L /\ q.number = f /\ q.auto = g.auto
           /\ q.shown = g.shown /\ q.hidden = g.hidden /\ q.displayed = g.displayed
           /\ q.active = g.active /\ q.zoomed = g.zoomed
           /\ q.mixed = g.mixed /\ q.content = g.content /\ q.own = g.own
      BY <2>1, <2>6, <2>19 DEF GuiData
    <2> HIDE DEF q
    <2>26. Opened(q) = O
      BY <2>19, <2>25 DEF Opened
    <2>27. Sorted(q)
      BY <2>19, <2>23, <2>24, <2>25, <2>26 DEF Sorted
    <2>28. /\ Good(q) /\ Same(g, q)
           /\ (ShownOpen(g) /\ Counted(g)) => Counted(q)
      BY <2>1, <2>20, <2>25, <2>26, <2>27, RenumberedGood DEF n
    <2>29. QED
      BY <2>4, <2>28
  <1>3. QED
    BY <1>1, <1>2

-----------------------------------------------------------------------------
(* Renumbering, and the option                                             *)

(***************************************************************************)
(* How many of N are lower than v.                                         *)
(***************************************************************************)
Rank(N, v) == Cardinality({k \in N : k < v})

(***************************************************************************)
(* The rank of a number grows with it, one by one, and leaves none out.    *)
(***************************************************************************)
LEMMA RankFacts ==
  ASSUME NEW N \in SUBSET Nat, IsFiniteSet(N)
  PROVE  /\ \A v \in Nat : Rank(N, v) \in Nat
         /\ \A v, w \in N : v < w => Rank(N, v) < Rank(N, w)
         /\ \A v \in N : Rank(N, v) < Cardinality(N)
  <1> DEFINE R(v) == {k \in N : k < v}
  <1>1. ASSUME NEW v \in Nat PROVE IsFiniteSet(R(v)) /\ Cardinality(R(v)) \in Nat
    <2>1. R(v) \in SUBSET N
      OBVIOUS
    <2>2. IsFiniteSet(R(v))
      BY <2>1, FS_Subset
    <2>3. QED
      BY <2>2, FS_CardinalityType
  <1>2. ASSUME NEW v \in N, NEW w \in N, v < w PROVE Cardinality(R(v)) < Cardinality(R(w))
    <2>1. R(v) \in SUBSET R(w)
      <3>1. ASSUME NEW k \in R(v) PROVE k \in R(w)
        <4>1. k \in Nat /\ v \in Nat /\ w \in Nat /\ k \in N /\ k < v
          OBVIOUS
        <4>2. k < w
          BY <1>2, <4>1
        <4>3. QED
          BY <4>1, <4>2
      <3> HIDE DEF R
      <3>2. QED
        BY <3>1
    <2>2. v \in R(w) /\ v \notin R(v)
      BY <1>2
    <2>3. IsFiniteSet(R(w))
      BY <1>1
    <2>4. Cardinality(R(v)) \in Nat /\ Cardinality(R(w)) \in Nat
      BY <1>1
    <2> HIDE DEF R
    <2>5. /\ Cardinality(R(v)) <= Cardinality(R(w))
          /\ Cardinality(R(w)) = Cardinality(R(v)) => R(w) = R(v)
      BY <2>1, <2>3, FS_Subset
    <2>6. QED
      BY <2>2, <2>4, <2>5
  <1>3. ASSUME NEW v \in N PROVE Cardinality(R(v)) < Cardinality(N)
    <2>1. R(v) \in SUBSET N /\ v \notin R(v)
      OBVIOUS
    <2>2. Cardinality(R(v)) \in Nat /\ Cardinality(N) \in Nat
      BY <1>1, FS_CardinalityType
    <2> HIDE DEF R
    <2>3. /\ Cardinality(R(v)) <= Cardinality(N)
          /\ Cardinality(N) = Cardinality(R(v)) => N = R(v)
      BY <2>1, FS_Subset
    <2>4. QED
      BY <2>1, <2>2, <2>3
  <1>4. QED
    BY <1>1, <1>2, <1>3 DEF Rank

LEMMA RankBelow ==
  ASSUME NEW N \in SUBSET Nat, IsFiniteSet(N), NEW v \in N, Rank(N, v) > 0
  PROVE  \E w \in N : w < v /\ Rank(N, v) = Rank(N, w) + 1
  <1> DEFINE R(u) == {k \in N : k < u}
             D == {d \in Nat : d >= 1 /\ v - d \in N}
  <1>1. R(v) # {}
    BY FS_EmptySet DEF Rank
  <1>2. PICK k \in R(v) : TRUE
    BY <1>1
  <1>3. v \in Nat /\ k \in Nat /\ k \in N /\ k < v
    BY <1>2
  <1>4. v - k \in D
    <2>1. v - k \in Nat /\ v - k >= 1 /\ v - (v - k) = k
      BY <1>3
    <2>2. QED
      BY <1>3, <2>1
  <1>5. PICK d \in D : \A e \in D : ~(e < d)
    <2>1. D \in SUBSET Nat /\ D # {}
      BY <1>4
    <2> HIDE DEF D
    <2>2. QED
      BY <2>1, LeastElement
  <1> DEFINE w == v - d
  <1>6. d \in Nat /\ d >= 1 /\ w \in N /\ w \in Nat /\ w < v
    BY <1>3, <1>5
  <1>7. ASSUME NEW j \in N, j < v PROVE j < w \/ j = w
    <2>1. j \in Nat /\ v - j \in Nat /\ v - j >= 1 /\ v - (v - j) = j
      BY <1>3, <1>7
    <2>2. v - j \in D
      BY <1>7, <2>1
    <2>3. ~(v - j < d)
      BY <1>5, <2>2
    <2>4. QED
      BY <1>3, <1>6, <2>1, <2>3
  <1> HIDE DEF w, D
  <1>8. R(v) = R(w) \union {w}
    <2>1. ASSUME NEW j \in R(v) PROVE j \in R(w) \union {w}
      BY <1>7, <2>1
    <2>2. ASSUME NEW j \in R(w) PROVE j \in R(v)
      <3>1. j \in N /\ j \in Nat /\ j < w
        BY <2>2
      <3>2. QED
        BY <1>3, <1>6, <3>1
    <2>3. w \in R(v)
      BY <1>6
    <2> HIDE DEF R
    <2>4. QED
      BY <2>1, <2>2, <2>3
  <1>9. IsFiniteSet(R(w)) /\ w \notin R(w)
    <2>1. R(w) \in SUBSET N
      OBVIOUS
    <2>2. IsFiniteSet(R(w))
      BY <2>1, FS_Subset
    <2>3. QED
      BY <1>6, <2>2
  <1>10. Cardinality(R(v)) = Cardinality(R(w)) + 1
    <2> HIDE DEF R
    <2>1. QED
      BY <1>8, <1>9, FS_AddElement
  <1>11. QED
    BY <1>6, <1>10 DEF Rank

LEMMA RankOnto ==
  ASSUME NEW N \in SUBSET Nat, IsFiniteSet(N), NEW v \in N, NEW j \in 0 .. Rank(N, v)
  PROVE  \E w \in N : Rank(N, w) = j
  <1> DEFINE S == {w \in N : Rank(N, w) >= j}
  <1>1. \A w \in N : Rank(N, w) \in Nat
    BY RankFacts
  <1>2. j \in Nat
    OBVIOUS
  <1>3. v \in S
    BY <1>1
  <1>4. PICK w \in S : \A u \in S : ~(u < w)
    <2>1. S \in SUBSET Nat /\ S # {}
      BY <1>3
    <2> HIDE DEF S
    <2>2. QED
      BY <2>1, LeastElement
  <1>5. w \in N /\ Rank(N, w) \in Nat /\ Rank(N, w) >= j
    BY <1>1, <1>4
  <1>6. CASE Rank(N, w) > j
    <2>1. Rank(N, w) > 0
      BY <1>2, <1>5, <1>6
    <2>2. PICK u \in N : u < w /\ Rank(N, w) = Rank(N, u) + 1
      BY <1>5, <2>1, RankBelow
    <2>3. Rank(N, u) \in Nat
      BY <1>1
    <2>4. Rank(N, u) >= j
      BY <1>2, <1>6, <2>2, <2>3
    <2>5. QED
      BY <1>4, <2>2, <2>4
  <1>7. CASE ~(Rank(N, w) > j)
    <2>1. Rank(N, w) = j
      BY <1>2, <1>5, <1>7
    <2>2. QED
      BY <1>5, <2>1
  <1>8. QED
    BY <1>6, <1>7

LEMMA NumbersFinite ==
  ASSUME NEW s \in Seq(Buffer), NEW n \in [Buffer -> Nat], NEW S \in SUBSET ToSet(s)
  PROVE  {n[x] : x \in S} \in SUBSET Nat /\ IsFiniteSet({n[x] : x \in S})
  <1> DEFINE N == {n[x] : x \in ToSet(s)}
             F == [i \in 1 .. Len(s) |-> n[s[i]]]
  <1>1. /\ Len(s) \in Nat /\ ToSet(s) \subseteq Buffer
        /\ \A i \in 1 .. Len(s) : s[i] \in ToSet(s)
        /\ \A x \in ToSet(s) : \E i \in 1 .. Len(s) : s[i] = x
    BY SeqFacts
  <1>2. F \in [1 .. Len(s) -> N]
    BY <1>1
  <1>3. \A t \in N : \E i \in 1 .. Len(s) : F[i] = t
    <2>1. ASSUME NEW t \in N PROVE \E i \in 1 .. Len(s) : F[i] = t
      <3>1. PICK x \in ToSet(s) : t = n[x]
        OBVIOUS
      <3>2. PICK i \in 1 .. Len(s) : s[i] = x
        BY <1>1
      <3>3. QED
        BY <3>1, <3>2
    <2>2. QED
      BY <2>1
  <1> HIDE DEF N, F
  <1>4. F \in Surjection(1 .. Len(s), N)
    BY <1>2, <1>3 DEF Surjection
  <1>5. IsFiniteSet(N)
    BY <1>1, <1>4, FS_NatSurjection DEF ExistsSurjection
  <1>6. {n[x] : x \in S} \in SUBSET N /\ {n[x] : x \in S} \in SUBSET Nat
    BY <1>1 DEF N
  <1>7. QED
    BY <1>5, <1>6, FS_Subset

(***************************************************************************)
(* gui_buffer_renumber() keeps the order of the buffers.                   *)
(***************************************************************************)
Chosen(g, n1, n2) == {x \in Opened(g) : n1 <= g.number[x] /\ g.number[x] <= n2}

Numbers(g, n1, n2) == {g.number[x] : x \in Chosen(g, n1, n2)}

StartAt(g, n1, n2, start) == IF start < 1 THEN Min(Numbers(g, n1, n2)) ELSE start

\* There is no buffer to renumber, or no room for them.
Refused(g, n1, n2, start) ==
  LET first == StartAt(g, n1, n2, start)
  IN  \/ Chosen(g, n1, n2) = {}
      \/ \E x \in Opened(g) : g.number[x] < n1 /\ first <= g.number[x]
      \/ \E x \in Opened(g) :
           /\ g.number[x] > n2
           /\ first + Cardinality(Numbers(g, n1, n2)) - 1 >= g.number[x]

LEMMA RenumberRefused ==
  ASSUME NEW g, NEW n1, NEW n2, NEW start
  PROVE  Refused(g, n1, n2, start) => Renumber(g, n1, n2, start) = g
  BY DEF Refused, Renumber, StartAt, Numbers, Chosen

Renumbered(g, n1, n2, start, f) ==
  /\ f \in [Buffer -> Nat]
  /\ \A x \in Opened(g) : f[x] >= 1
  /\ \A x, y \in Opened(g) : f[x] <= f[y] <=> g.number[x] <= g.number[y]
  /\ \A x \in Chosen(g, n1, n2) :
       f[x] = StartAt(g, n1, n2, start) + Rank(Numbers(g, n1, n2), g.number[x])

(***************************************************************************)
(* The new numbers: from the start, by rank; those around them stay.       *)
(***************************************************************************)
LEMMA RenumberFacts ==
  ASSUME NEW g \in GuiData, \A x \in Opened(g) : g.number[x] >= 1,
         NEW n1 \in Nat, NEW n2 \in Nat, NEW start \in Nat,
         ~ Refused(g, n1, n2, start)
  PROVE  \E f : /\ Renumber(g, n1, n2, start) = [g EXCEPT !.number = f]
                /\ Renumbered(g, n1, n2, start, f)
  <1> DEFINE O == Opened(g)
             n == g.number
             range == Chosen(g, n1, n2)
             N == Numbers(g, n1, n2)
             first == StartAt(g, n1, n2, start)
             f == [x \in Buffer |-> IF x \in range THEN first + Rank(N, n[x]) ELSE n[x]]
             before == {n[x] : x \in {y \in O : n[y] < n1}}
             after == {n[x] : x \in {y \in O : n[y] > n2}}
             c == Cardinality(N)
  <1>1. /\ n \in [Buffer -> Nat] /\ O \subseteq Buffer /\ g.list \in Seq(Buffer)
        /\ O = ToSet(g.list)
    BY DataFacts
  <1>2. N \in SUBSET Nat /\ IsFiniteSet(N)
    <2>1. range \in SUBSET ToSet(g.list)
      BY <1>1 DEF Chosen
    <2>2. QED
      BY <1>1, <2>1, NumbersFinite DEF Numbers
  <1>3. /\ range # {} /\ ~ \E m \in before : first <= m
        /\ ~ \E m \in after : first + c - 1 >= m
        /\ Renumber(g, n1, n2, start) = [g EXCEPT !.number = f]
    BY DEF Refused, Renumber, Chosen, Numbers, StartAt, Rank
  <1>4. \A x \in range : x \in O /\ x \in Buffer /\ n[x] \in N /\ n1 <= n[x] /\ n[x] <= n2
    BY <1>1 DEF Chosen, Numbers
  <1>5. first \in Nat /\ first >= 1
    <2>1. CASE start < 1
      <3>1. N # {}
        BY <1>3, <1>4
      <3>2. \A m \in N : m >= 1
        BY DEF Chosen, Numbers
      <3> HIDE DEF N
      <3>3. PICK m \in N : \A k \in N : ~(k < m)
        BY <1>2, <3>1, LeastElement
      <3>4. \A k \in N : m <= k
        BY <1>2, <3>3
      <3>5. Min(N) \in N
        BY <3>4 DEF Min
      <3>6. first = Min(N)
        BY <2>1 DEF StartAt, N
      <3>7. QED
        BY <1>2, <3>2, <3>5, <3>6
    <2>2. CASE ~(start < 1)
      BY <2>2 DEF StartAt
    <2>3. QED
      BY <2>1, <2>2
  <1>6. c \in Nat
    BY <1>2, FS_CardinalityType
  <1>7. /\ \A x \in O : n[x] < n1 => n[x] < first
        /\ \A x \in O : n[x] > n2 => first + c - 1 < n[x]
    <2>1. ASSUME NEW x \in O, n[x] < n1 PROVE n[x] < first
      <3>1. n[x] \in before
        BY <2>1
      <3>2. ~(first <= n[x]) /\ n[x] \in Nat
        BY <1>1, <1>3, <3>1
      <3>3. QED
        BY <1>5, <3>2
    <2>2. ASSUME NEW x \in O, n[x] > n2 PROVE first + c - 1 < n[x]
      <3>1. n[x] \in after
        BY <2>2
      <3>2. ~(first + c - 1 >= n[x]) /\ n[x] \in Nat
        BY <1>1, <1>3, <3>1
      <3>3. QED
        BY <1>5, <1>6, <3>2
    <2>3. QED
      BY <2>1, <2>2
  <1> HIDE DEF before, after, first, c, range
  <1>8. /\ \A v \in Nat : Rank(N, v) \in Nat
        /\ \A v, w \in N : v < w => Rank(N, v) < Rank(N, w)
        /\ \A v \in N : Rank(N, v) < c
    BY <1>2, RankFacts DEF c
  <1> HIDE DEF N
  <1>9. f \in [Buffer -> Nat]
    <2>1. ASSUME NEW x \in Buffer PROVE f[x] \in Nat
      <3>1. n[x] \in Nat
        BY <1>1
      <3>2. Rank(N, n[x]) \in Nat
        BY <1>8, <3>1
      <3>3. first + Rank(N, n[x]) \in Nat
        BY <1>5, <3>2
      <3>4. QED
        BY <3>1, <3>3
    <2>2. f = [x \in Buffer |-> f[x]]
      OBVIOUS
    <2> HIDE DEF f
    <2>3. QED
      BY <2>1, <2>2
  <1>10. /\ \A x \in range : f[x] = first + Rank(N, n[x])
         /\ \A x \in O : x \notin range => f[x] = n[x]
    BY <1>1, <1>4
  <1> HIDE DEF f
  <1>11. \A x \in O : f[x] \in Nat /\ n[x] \in Nat
    BY <1>1, <1>9
  <1>12. \A x \in O : x \in range \/ n[x] < n1 \/ n[x] > n2
    BY <1>11 DEF range, Chosen
  <1>13. \A x \in range : first <= f[x] /\ f[x] <= first + c - 1
    <2>1. ASSUME NEW x \in range PROVE first <= f[x] /\ f[x] <= first + c - 1
      <3> DEFINE r == Rank(N, n[x])
      <3>1. r \in Nat /\ r < c
        BY <1>4, <1>8, <1>11
      <3>2. f[x] = first + r
        BY <1>10
      <3> HIDE DEF r
      <3>3. QED
        BY <1>5, <1>6, <3>1, <3>2
    <2>2. QED
      BY <2>1
  <1>14. \A x \in O : n[x] < n1 => f[x] = n[x] /\ f[x] < first
    BY <1>4, <1>7, <1>10, <1>11
  <1>15. \A x \in O : n[x] > n2 => f[x] = n[x] /\ first + c - 1 < f[x]
    BY <1>4, <1>7, <1>10, <1>11
  <1>16. ASSUME NEW x \in O, NEW y \in O, n[x] < n[y] PROVE f[x] < f[y]
    <2>1. CASE x \in range /\ y \in range
      <3>1. Rank(N, n[x]) < Rank(N, n[y]) /\ Rank(N, n[x]) \in Nat /\ Rank(N, n[y]) \in Nat
        BY <1>4, <1>8, <1>11, <1>16, <2>1
      <3>2. f[x] = first + Rank(N, n[x]) /\ f[y] = first + Rank(N, n[y])
        BY <1>10, <2>1
      <3>3. \A u, v, w \in Nat : u < v => w + u < w + v
        OBVIOUS
      <3>4. QED
        BY <1>5, <3>1, <3>2, <3>3
    <2>2. CASE x \in range /\ y \notin range
      <3>1. n[y] > n2
        BY <1>4, <1>11, <1>12, <1>16, <2>2
      <3>2. f[x] <= first + c - 1 /\ first + c - 1 < f[y]
        BY <1>13, <1>15, <2>2, <3>1
      <3>3. QED
        BY <1>5, <1>6, <1>11, <3>2
    <2>3. CASE x \notin range /\ y \in range
      <3>1. n[x] < n1
        BY <1>4, <1>11, <1>12, <1>16, <2>3
      <3>2. f[x] < first /\ first <= f[y]
        BY <1>13, <1>14, <2>3, <3>1
      <3>3. QED
        BY <1>5, <1>11, <3>2
    <2>4. CASE x \notin range /\ y \notin range
      BY <1>10, <1>16, <2>4
    <2>5. QED
      BY <2>1, <2>2, <2>3, <2>4
  <1>17. ASSUME NEW x \in O, NEW y \in O, n[x] = n[y] PROVE f[x] = f[y]
    <2>1. x \in range <=> y \in range
      BY <1>17 DEF range, Chosen
    <2>2. QED
      BY <1>10, <1>17, <2>1
  <1>18. \A x, y \in O : f[x] <= f[y] <=> n[x] <= n[y]
    <2>1. ASSUME NEW x \in O, NEW y \in O PROVE f[x] <= f[y] <=> n[x] <= n[y]
      <3>1. f[x] \in Nat /\ f[y] \in Nat /\ n[x] \in Nat /\ n[y] \in Nat
        BY <1>11
      <3>2. /\ n[x] < n[y] => f[x] < f[y]
            /\ n[y] < n[x] => f[y] < f[x]
            /\ n[x] = n[y] => f[x] = f[y]
        BY <1>16, <1>17
      <3>3. \A u, v, w, z \in Nat :
              (u < v => w < z) /\ (v < u => z < w) /\ (u = v => w = z)
              => (w <= z <=> u <= v)
        OBVIOUS
      <3>4. QED
        BY <3>1, <3>2, <3>3
    <2>2. QED
      BY <2>1
  <1>19. \A x \in O : f[x] >= 1
    <2>1. ASSUME NEW x \in O PROVE f[x] >= 1
      <3>1. CASE x \in range
        BY <1>5, <1>11, <1>13, <3>1
      <3>2. CASE x \notin range
        BY <1>10, <3>2
      <3>3. QED
        BY <3>1, <3>2
    <2>2. QED
      BY <2>1
  <1>20. Renumbered(g, n1, n2, start, f)
    BY <1>9, <1>10, <1>18, <1>19 DEF Renumbered, first, N, range
  <1>21. QED
    BY <1>3, <1>20

(***************************************************************************)
(* gui_buffer_renumber() keeps the data good, refused or not.              *)
(***************************************************************************)
LEMMA RenumberGood ==
  ASSUME NEW g, Good(g), ~ g.auto, NEW n1 \in Nat, NEW n2 \in Nat, NEW start \in Nat
  PROVE  /\ Good(Renumber(g, n1, n2, start)) /\ Same(g, Renumber(g, n1, n2, start))
         /\ (ShownOpen(g) /\ Counted(g)) => Counted(Renumber(g, n1, n2, start))
  <1> DEFINE O == Opened(g)
             q == Renumber(g, n1, n2, start)
  <1>1. CASE Refused(g, n1, n2, start)
    <2>1. q = g
      BY <1>1, RenumberRefused
    <2>2. QED
      BY <2>1 DEF Same
  <1>2. CASE ~ Refused(g, n1, n2, start)
    <2>1. g \in GuiData /\ Sorted(g) /\ Sound(g) /\ Once(g.list) /\ Ordered(g.list, g.number)
      BY DEF Good, Sorted
    <2>2. PICK f : /\ q = [g EXCEPT !.number = f]
                   /\ Renumbered(g, n1, n2, start, f)
      BY <1>2, <2>1, RenumberFacts DEF Sorted
    <2> HIDE DEF q
    <2>3. /\ f \in [Buffer -> Nat] /\ f \in [Buffer -> Int]
          /\ \A x \in O : f[x] >= 1
          /\ \A x, y \in O : f[x] <= f[y] <=> g.number[x] <= g.number[y]
      <3>1. f \in [Buffer -> Nat]
        BY <2>2 DEF Renumbered
      <3>2. f \in [Buffer -> Int]
        BY <3>1
      <3>3. QED
        BY <2>2, <3>1, <3>2 DEF Renumbered
    <2>4. /\ g.number \in [Buffer -> Nat] /\ g.number \in [Buffer -> Int]
          /\ g.list \in Seq(Buffer) /\ O = ToSet(g.list) /\ O \subseteq Buffer
      BY <2>1, DataFacts
    <2>5. Ordered(g.list, f)
      BY <2>1, <2>3, <2>4, OrderedAlike
    <2>6. SameClasses(O, g.number, f)
      <3>1. \A x \in O : g.number[x] \in Nat /\ f[x] \in Nat
        BY <2>3, <2>4
      <3>2. QED
        BY <2>3, <3>1, EqualByOrder
    <2>7. /\ q \in GuiData /\ q.list = g.list /\ q.number = f /\ q.auto = g.auto
          /\ q.shown = g.shown /\ q.hidden = g.hidden /\ q.displayed = g.displayed
          /\ q.active = g.active /\ q.zoomed = g.zoomed
          /\ q.mixed = g.mixed /\ q.content = g.content /\ q.own = g.own
      BY <2>1, <2>2, <2>3 DEF GuiData
    <2>8. Opened(q) = O
      BY <2>7 DEF Opened
    <2>9. Sorted(q)
      BY <2>1, <2>3, <2>5, <2>7, <2>8 DEF Sorted
    <2>10. /\ Good(q) /\ Same(g, q)
           /\ (ShownOpen(g) /\ Counted(g)) => Counted(q)
      BY <2>1, <2>6, <2>7, <2>8, <2>9, RenumberedGood
    <2>11. QED
      BY <2>10 DEF q
  <1>3. QED
    BY <1>1, <1>2

(***************************************************************************)
(* The option is changed: all but the option is as it was, or numbers are  *)
(* without gaps.                                                           *)
(***************************************************************************)
SameButAuto(g, h) ==
  /\ Opened(h) = Opened(g) /\ h.shown = g.shown /\ h.hidden = g.hidden
  /\ \A x \in Buffer \ Opened(g) : h.displayed[x] = g.displayed[x]

(***************************************************************************)
(* The option is turned off: numbers may have gaps from now on.            *)
(***************************************************************************)
LEMMA AutoOff ==
  ASSUME NEW g, Good(g)
  PROVE  LET h == [g EXCEPT !.auto = FALSE]
         IN  /\ Good(h) /\ SameButAuto(g, h)
             /\ (ShownOpen(g) /\ Counted(g)) => Counted(h)
  <1> DEFINE h == [g EXCEPT !.auto = FALSE]
  <1>1. g \in GuiData /\ Sorted(g) /\ Sound(g)
    BY DEF Good
  <1>2. /\ h \in GuiData /\ h.list = g.list /\ h.number = g.number /\ h.auto = FALSE
        /\ h.shown = g.shown /\ h.hidden = g.hidden /\ h.displayed = g.displayed
        /\ h.active = g.active /\ h.zoomed = g.zoomed
        /\ h.mixed = g.mixed /\ h.content = g.content /\ h.own = g.own
    BY <1>1 DEF GuiData
  <1> HIDE DEF h
  <1>3. Opened(h) = Opened(g)
    BY <1>2 DEF Opened
  <1>4. Sorted(h)
    BY <1>1, <1>2, <1>3 DEF Sorted
  <1>5. Sound(h)
    BY <1>1, <1>2, <1>3, SameGroups
  <1>6. \A b : Looking(h, b) = Looking(g, b)
    BY <1>2 DEF Looking
  <1>7. Counted(g) => Counted(h)
    BY <1>2, <1>3, <1>6 DEF Counted
  <1>8. QED
    BY <1>2, <1>3, <1>4, <1>5, <1>7 DEF Good, SameButAuto, h

(***************************************************************************)
(* The ends of the list have the lowest and the highest number.            *)
(***************************************************************************)
LEMMA EndsFacts ==
  ASSUME NEW g, Good(g), Opened(g) # {}
  PROVE  /\ Head(g.list) \in Opened(g) /\ Last(g.list) \in Opened(g)
         /\ \A x \in Opened(g) : /\ g.number[Head(g.list)] <= g.number[x]
                                 /\ g.number[x] <= g.number[Last(g.list)]
  <1> DEFINE s == g.list
             n == g.number
             O == Opened(g)
  <1>1. /\ s \in Seq(Buffer) /\ Len(s) \in Nat /\ O = ToSet(s) /\ n \in [Buffer -> Nat]
        /\ Ordered(s, n)
        /\ \A i \in 1 .. Len(s) : s[i] \in O /\ s[i] \in Buffer
        /\ \A x \in O : \E i \in 1 .. Len(s) : s[i] = x
    <2>1. g \in GuiData /\ Ordered(s, n)
      BY DEF Good, Sorted
    <2>2. s \in Seq(Buffer) /\ O = ToSet(s) /\ n \in [Buffer -> Nat]
      BY <2>1, DataFacts
    <2> HIDE DEF s, n, O
    <2>3. Len(s) \in Nat /\ \A i \in 1 .. Len(s) : s[i] \in Buffer
      BY <2>2, SeqFacts
    <2>4. \A i \in 1 .. Len(s) : s[i] \in O
      BY <2>2, SeqFacts
    <2>5. \A x \in O : \E i \in 1 .. Len(s) : s[i] = x
      BY <2>2, SeqFacts
    <2>6. QED
      BY <2>1, <2>2, <2>3, <2>4, <2>5
  <1>2. 1 \in 1 .. Len(s) /\ Len(s) \in 1 .. Len(s) /\ s # <<>>
    <2>1. PICK i \in 1 .. Len(s) : TRUE
      BY <1>1
    <2>2. QED
      BY <1>1, <2>1
  <1>3. Head(s) = s[1] /\ Last(s) = s[Len(s)]
    BY <1>1, <1>2, HeadTailProperties DEF Last
  <1>4. ASSUME NEW i \in 1 .. Len(s) PROVE n[s[1]] <= n[s[i]] /\ n[s[i]] <= n[s[Len(s)]]
    <2>1. \A k \in 1 .. Len(s) : n[s[k]] \in Nat
      BY <1>1
    <2>2. \A k \in 1 .. Len(s) : n[s[k]] <= n[s[k]]
      BY <2>1
    <2> HIDE DEF s, n, O
    <2>3. i = 1 \/ 1 < i
      OBVIOUS
    <2> DEFINE e == Len(s)
    <2>4. e \in 1 .. Len(s) /\ (i = e \/ i < e)
      BY <1>1, <1>2
    <2> HIDE DEF e
    <2>5. n[s[1]] <= n[s[i]]
      BY <1>1, <1>2, <2>2, <2>3 DEF Ordered
    <2>6. n[s[i]] <= n[s[e]]
      BY <1>1, <2>2, <2>4 DEF Ordered
    <2>7. QED
      BY <2>5, <2>6 DEF e
  <1> HIDE DEF s, n, O
  <1>5. \A x \in O : n[s[1]] <= n[x] /\ n[x] <= n[s[Len(s)]]
    BY <1>1, <1>4
  <1>6. QED
    BY <1>1, <1>2, <1>3, <1>5 DEF s, n, O

(***************************************************************************)
(* The option is turned on: all is renumbered from 1, so no gap remains.   *)
(***************************************************************************)
LEMMA AutoOn ==
  ASSUME NEW g, Good(g), Opened(g) # {}
  PROVE  LET a == [g EXCEPT !.auto = TRUE]
             h == Renumber(a, a.number[Head(a.list)], a.number[Last(a.list)], 1)
         IN  /\ Good(h) /\ SameButAuto(g, h)
             /\ (ShownOpen(g) /\ Counted(g)) => Counted(h)
  <1> DEFINE a == [g EXCEPT !.auto = TRUE]
             n == g.number
             O == Opened(g)
             n1 == n[Head(g.list)]
             n2 == n[Last(g.list)]
             q == Renumber(a, n1, n2, 1)
  <1>1. g \in GuiData /\ Sorted(g) /\ Sound(g) /\ Once(g.list) /\ Ordered(g.list, n)
    BY DEF Good, Sorted
  <1>2. /\ n \in [Buffer -> Nat] /\ n \in [Buffer -> Int] /\ O \subseteq Buffer
        /\ g.list \in Seq(Buffer) /\ O = ToSet(g.list)
    BY <1>1, DataFacts
  <1>3. /\ n1 \in Nat /\ n2 \in Nat
        /\ \A x \in O : n1 <= n[x] /\ n[x] <= n2
    <2>1. /\ Head(g.list) \in O /\ Last(g.list) \in O
          /\ \A x \in O : n1 <= n[x] /\ n[x] <= n2
      BY EndsFacts
    <2>2. QED
      BY <1>2, <2>1
  <1>4. /\ a \in GuiData /\ a.list = g.list /\ a.number = n /\ a.auto = TRUE
        /\ a.shown = g.shown /\ a.hidden = g.hidden /\ a.displayed = g.displayed
        /\ a.active = g.active /\ a.zoomed = g.zoomed
        /\ a.mixed = g.mixed /\ a.content = g.content /\ a.own = g.own
    BY <1>1 DEF GuiData
  <1>5. a.number[Head(a.list)] = n1 /\ a.number[Last(a.list)] = n2
    BY <1>4
  <1> HIDE DEF a, n1, n2
  <1>6. Opened(a) = O
    BY <1>4 DEF Opened
  <1>7. Sound(a)
    BY <1>1, <1>4, <1>6, SameGroups
  <1>8. Chosen(a, n1, n2) = O
    BY <1>3, <1>4, <1>6 DEF Chosen
  <1>9. ~ Refused(a, n1, n2, 1)
    <2>1. \A x \in O : ~(n[x] < n1) /\ ~(n[x] > n2)
      <3>1. \A x \in O : n[x] \in Nat
        BY <1>2
      <3>2. QED
        BY <1>3, <3>1
    <2>2. QED
      BY <1>4, <1>6, <1>8, <2>1 DEF Refused
  <1>10. PICK f : q = [a EXCEPT !.number = f] /\ Renumbered(a, n1, n2, 1, f)
    <2>1. \A x \in Opened(a) : a.number[x] >= 1
      BY <1>1, <1>4, <1>6 DEF Sorted
    <2>2. 1 \in Nat
      OBVIOUS
    <2>3. QED
      BY <1>3, <1>4, <1>9, <2>1, <2>2, RenumberFacts
  <1> HIDE DEF q
  <1> DEFINE N == {n[x] : x \in O}
  <1>11. /\ f \in [Buffer -> Nat] /\ f \in [Buffer -> Int]
         /\ \A x \in O : f[x] >= 1
         /\ \A x, y \in O : f[x] <= f[y] <=> n[x] <= n[y]
         /\ \A x \in O : f[x] = 1 + Rank(N, n[x])
    <2>1. f \in [Buffer -> Nat]
      BY <1>10 DEF Renumbered
    <2>2. f \in [Buffer -> Int]
      BY <2>1
    <2>3. /\ \A x \in O : f[x] >= 1
          /\ \A x, y \in O : f[x] <= f[y] <=> n[x] <= n[y]
      BY <1>4, <1>6, <1>10 DEF Renumbered
    <2>4. Numbers(a, n1, n2) = N /\ StartAt(a, n1, n2, 1) = 1
      BY <1>4, <1>8 DEF Numbers, StartAt
    <2> HIDE DEF N
    <2>5. \A x \in O : f[x] = 1 + Rank(N, n[x])
      BY <1>4, <1>8, <1>10, <2>4 DEF Renumbered
    <2>6. QED
      BY <2>1, <2>2, <2>3, <2>5
  <1>12. N \in SUBSET Nat /\ IsFiniteSet(N)
    BY <1>2, NumbersFinite
  <1>13. Gapless(O, f)
    <2>1. ASSUME NEW x \in O, NEW m \in 1 .. f[x] PROVE \E y \in O : f[y] = m
      <3> DEFINE v == n[x]
      <3>1. v \in N
        OBVIOUS
      <3>2. f[x] = 1 + Rank(N, v)
        BY <1>11
      <3>3. \A w \in N : \E y \in O : w = n[y]
        OBVIOUS
      <3>4. Rank(N, v) \in Nat
        BY <1>12, <3>1, RankFacts
      <3> HIDE DEF N, v
      <3>5. m - 1 \in 0 .. Rank(N, v) /\ m \in Nat
        BY <3>2, <3>4
      <3>6. PICK w \in N : Rank(N, w) = m - 1
        BY <1>12, <3>1, <3>5, RankOnto
      <3>7. PICK y \in O : w = n[y]
        BY <3>3
      <3>8. f[y] = 1 + (m - 1)
        BY <1>11, <3>6, <3>7
      <3>9. QED
        BY <3>5, <3>8
    <2>2. QED
      BY <2>1 DEF Gapless
  <1>14. Ordered(g.list, f)
    <2>1. \A x, y \in ToSet(g.list) : n[x] <= n[y] => f[x] <= f[y]
      BY <1>2, <1>11
    <2> HIDE DEF n
    <2>2. QED
      BY <1>1, <1>2, <1>11, <2>1, OrderedAlike
  <1>15. SameClasses(O, n, f)
    <2>1. \A x \in O : n[x] \in Nat /\ f[x] \in Nat
      BY <1>2, <1>11
    <2>2. QED
      BY <1>11, <2>1, EqualByOrder
  <1>16. /\ q \in GuiData /\ q.list = a.list /\ q.number = f /\ q.auto = a.auto
         /\ q.shown = a.shown /\ q.hidden = a.hidden /\ q.displayed = a.displayed
         /\ q.active = a.active /\ q.zoomed = a.zoomed
         /\ q.mixed = a.mixed /\ q.content = a.content /\ q.own = a.own
    BY <1>4, <1>10, <1>11 DEF GuiData
  <1>17. Opened(q) = O
    BY <1>4, <1>16 DEF Opened
  <1>18. Sorted(q)
    BY <1>1, <1>4, <1>11, <1>13, <1>14, <1>16, <1>17 DEF Sorted
  <1>19. /\ Good(q) /\ Same(a, q)
         /\ (ShownOpen(a) /\ Counted(a)) => Counted(q)
    BY <1>4, <1>6, <1>7, <1>15, <1>16, <1>17, <1>18, RenumberedGood
  <1>20. SameButAuto(g, q)
    BY <1>4, <1>16, <1>17 DEF SameButAuto
  <1>21. (ShownOpen(g) /\ Counted(g)) => (ShownOpen(a) /\ Counted(a))
    <2>1. \A b : Looking(a, b) = Looking(g, b)
      BY <1>4 DEF Looking
    <2>2. QED
      BY <1>4, <1>6, <2>1 DEF ShownOpen, Counted
  <1>22. QED
    BY <1>5, <1>19, <1>20, <1>21 DEF q, a

-----------------------------------------------------------------------------
(* Opening                                                                 *)

(***************************************************************************)
(* A buffer is added: the others are merged as they were.                  *)
(***************************************************************************)
AddedTo(g, h, b) ==
  /\ Opened(h) = Opened(g) \union {b}
  /\ h.auto = g.auto /\ h.shown = g.shown /\ h.hidden = g.hidden
  /\ \A x \in Buffer \ Opened(h) : h.displayed[x] = g.displayed[x]

(***************************************************************************)
(* A buffer that is new is sound alone, and no matter for the others.      *)
(***************************************************************************)
LEMMA AddedSound ==
  ASSUME NEW g \in GuiData, Sound(g), NEW b \in Buffer \ Opened(g), NEW h,
         Opened(h) = Opened(g) \union {b},
         h.active = g.active, h.mixed = g.mixed, h.content = g.content, h.own = g.own,
         SameClasses(Opened(g), g.number, h.number),
         \A x \in Opened(g) : h.number[b] # h.number[x]
  PROVE  Sound(h)
  <1> DEFINE O == Opened(g)
             n == h.number
  <1>1. /\ SharedLines(O, g.number, g.mixed, g.content, g.own)
        /\ AsNew(O, g.active, g.mixed)
        /\ O \subseteq Buffer /\ b \in Buffer /\ b \notin O
        /\ \A x \in O : OneIn(O, g.number, g.active, x)
    BY DataFacts DEF Sound
  <1>2. g.active[b] # 0 /\ ~ g.mixed[b] /\ g.content[b] = {}
    BY <1>1 DEF AsNew, SharedLines
  <1>3. /\ \A x, y \in O : n[x] = n[y] <=> g.number[x] = g.number[y]
        /\ \A x \in O : n[b] # n[x]
    BY DEF SameClasses
  <1> HIDE DEF n, O
  <1>4. ASSUME NEW x \in O \union {b} PROVE OneIn(O \union {b}, n, g.active, x)
    <2>1. CASE x = b
      <3>1. \A y \in O \union {b} : n[y] = n[b] => y = b
        BY <1>3
      <3>2. QED
        BY <1>2, <2>1, <3>1 DEF OneIn
    <2>2. CASE x \in O
      <3>1. \A y \in O \union {b} : n[y] = n[x] => y \in O /\ g.number[y] = g.number[x]
        BY <1>3, <2>2
      <3>2. OneIn(O, g.number, g.active, x)
        BY <1>1, <2>2
      <3>3. QED
        BY <1>3, <2>2, <3>1, <3>2 DEF OneIn
    <2>3. QED
      BY <2>1, <2>2
  <1>5. SharedLines(O \union {b}, n, g.mixed, g.content, g.own)
    <2>1. ASSUME NEW x \in O \union {b}
          PROVE  g.mixed[x] <=> \E y \in O \union {b} : y # x /\ n[y] = n[x]
      <3>1. CASE x = b
        BY <1>1, <1>2, <1>3, <3>1
      <3>2. CASE x \in O
        <4>1. g.mixed[x] <=> \E y \in O : y # x /\ g.number[y] = g.number[x]
          BY <1>1, <3>2 DEF SharedLines
        <4>2. QED
          BY <1>3, <3>2, <4>1
      <3>3. QED
        BY <3>1, <3>2
    <2>2. ASSUME NEW x \in O \union {b}, NEW y \in O \union {b}, n[x] = n[y]
          PROVE  g.content[x] = g.content[y]
      <3>1. x = y \/ (x \in O /\ y \in O /\ g.number[x] = g.number[y])
        BY <1>3, <2>2
      <3>2. QED
        BY <1>1, <3>1 DEF SharedLines
    <2>3. ASSUME NEW x \in O \union {b}, NEW y \in g.content[x]
          PROVE  y \in O \union {b} /\ n[y] = n[x]
      <3>1. x \in O
        BY <1>2
      <3>2. y \in O /\ g.number[y] = g.number[x]
        BY <1>1, <3>1 DEF SharedLines
      <3>3. QED
        BY <1>3, <3>1, <3>2
    <2>4. /\ \A x \in Buffer : g.own[x] \/ g.mixed[x]
          /\ \A x \in Buffer : g.mixed[x] \/ g.content[x] = {}
      BY <1>1 DEF SharedLines
    <2>5. QED
      BY <2>1, <2>2, <2>3, <2>4 DEF SharedLines
  <1>6. AsNew(O \union {b}, g.active, g.mixed)
    BY <1>1 DEF AsNew
  <1>7. QED
    BY <1>4, <1>5, <1>6 DEF Sound, n, O

(***************************************************************************)
(* A buffer put in the list at a place that fits, with its room.           *)
(***************************************************************************)
LEMMA AddedGood ==
  ASSUME NEW g, Good(g), NEW b \in Buffer \ Opened(g),
         NEW at \in 1 .. Len(g.list) + 1, NEW n \in Nat, n >= 1,
         \A x \in Before(g.list, at) : g.number[x] < n,
         \A x \in From(g.list, at) : n <= g.number[x],
         g.auto => \A m \in 1 .. n - 1 : \E y \in Opened(g) : g.number[y] = m
  PROVE  LET h == MakeRoom([g EXCEPT !.list = Inserted(g.list, at, <<b>>), !.number[b] = n],
                           at + 1)
         IN  /\ Good(h) /\ AddedTo(g, h, b)
             /\ (ShownOpen(g) /\ Counted(g) /\ g.displayed[b] = 0) => Counted(h)
  <1> DEFINE s == g.list
             O == Opened(g)
             t == <<b>>
             L == Inserted(s, at, t)
             f == [g.number EXCEPT ![b] = n]
             p == [g EXCEPT !.list = L, !.number = f]
  <1>1. g \in GuiData /\ Sorted(g) /\ Sound(g) /\ Once(s) /\ Ordered(s, g.number)
    BY DEF Good, Sorted
  <1>2. /\ O \subseteq Buffer /\ b \in Buffer /\ b \notin O /\ g.number \in [Buffer -> Nat]
        /\ O = ToSet(s) /\ s \in Seq(Buffer)
        /\ g.shown \in [Window -> Buffer \union {NoBuffer}]
    BY <1>1, DataFacts
  <1>3. Len(t) = 1 /\ t[1] = b /\ t \in Seq(Buffer) /\ ToSet(t) = {b} /\ Once(t)
    <2>1. Len(t) = 1 /\ t[1] = b /\ t \in Seq(Buffer)
      BY <1>2
    <2>2. ToSet(t) = {t[i] : i \in 1 .. Len(t)}
      BY <2>1, SeqFacts
    <2>3. QED
      BY <2>1, <2>2 DEF Once
  <1> HIDE DEF t
  <1>4. /\ f \in [Buffer -> Nat] /\ f \in [Buffer -> Int] /\ f[b] = n
        /\ \A x \in O : f[x] = g.number[x]
        /\ \A x \in Buffer \ {b} : f[x] = g.number[x]
    <2>1. f \in [Buffer -> Nat] /\ f[b] = n /\ \A x \in Buffer \ {b} : f[x] = g.number[x]
      BY <1>2
    <2> HIDE DEF f
    <2>2. QED
      BY <1>2, <2>1
  <1>5. MakeRoom([g EXCEPT !.list = Inserted(g.list, at, <<b>>), !.number[b] = n], at + 1)
          = MakeRoom(p, at + Len(t))
    <2>1. [g EXCEPT !.list = Inserted(g.list, at, <<b>>), !.number[b] = n] = p
      BY DEF t
    <2>2. QED
      BY <1>3, <2>1
  <1> HIDE DEF f
  <1>6. Ordered(s, f)
    <2>1. \A x, y \in ToSet(s) : g.number[x] <= g.number[y] => f[x] <= f[y]
      BY <1>2, <1>4
    <2>2. g.number \in [Buffer -> Int]
      BY <1>2
    <2>3. QED
      BY <1>1, <1>2, <1>4, <2>1, <2>2, OrderedAlike
  <1>7. ToSet(s) = Before(s, at) \union From(s, at)
    BY <1>1, CutFacts
  <1>8. Fits(s, t, at, f, n)
    <2>1. ToSet(s) \intersect ToSet(t) = {}
      BY <1>2, <1>3
    <2>2. \A x \in ToSet(t) : f[x] = n
      BY <1>3, <1>4
    <2>3. \A x \in ToSet(s) : f[x] >= 1
      BY <1>1, <1>2, <1>4 DEF Sorted
    <2>4. \A x \in Before(s, at) : f[x] < n
      BY <1>2, <1>4, <1>7
    <2>5. \A x \in From(s, at) : n <= f[x]
      BY <1>2, <1>4, <1>7
    <2>6. QED
      BY <1>1, <1>3, <1>4, <1>6, <2>1, <2>2, <2>3, <2>4, <2>5 DEF Fits
  <1>9. ASSUME g.auto PROVE NextInUse(s, f, n)
    <2>1. Gapless(O, g.number)
      BY <1>1, <1>9 DEF Sorted
    <2>2. Gapless(ToSet(s), f)
      BY <1>2, <1>4, <2>1 DEF Gapless
    <2>3. \A m \in 1 .. n - 1 : \E y \in ToSet(s) : f[y] = m
      BY <1>2, <1>4, <1>9
    <2>4. QED
      BY <2>2, <2>3 DEF NextInUse
  <1>10. /\ p \in GuiData /\ p.list = L /\ p.number = f /\ p.auto = g.auto
    <2>1. L \in Seq(Buffer)
      <3>1. Once(L)
        BY <1>8, FitsCut
      <3>2. QED
        BY <3>1 DEF Once
    <2> HIDE DEF L
    <2>2. QED
      BY <1>1, <1>4, <2>1 DEF GuiData
  <1>11. PICK h : /\ MakeRoom(p, at + Len(t)) = [p EXCEPT !.number = h]
                  /\ Apart(s, t, f, h)
                  /\ Sorted([p EXCEPT !.number = h])
    <2> HIDE DEF p
    <2>1. QED
      BY <1>8, <1>9, <1>10, PlacedFacts DEF L
  <1> DEFINE q == [p EXCEPT !.number = h]
  <1>12. /\ h \in [Buffer -> Nat]
         /\ \A x, y \in O : h[x] <= h[y] <=> g.number[x] <= g.number[y]
         /\ \A x \in O : h[b] # h[x]
    <2>1. h \in [Buffer -> Nat]
      BY <1>11 DEF Apart
    <2>2. \A x, y \in ToSet(s) : h[x] <= h[y] <=> f[x] <= f[y]
      BY <1>11 DEF Apart
    <2>3. \A x \in ToSet(t), y \in ToSet(s) : h[x] # h[y]
      BY <1>11 DEF Apart
    <2>4. QED
      BY <1>2, <1>3, <1>4, <2>1, <2>2, <2>3
  <1>13. SameClasses(O, g.number, h)
    <2>1. \A x \in O : g.number[x] \in Nat /\ h[x] \in Nat
      BY <1>2, <1>12
    <2>2. QED
      BY <1>12, <2>1, EqualByOrder
  <1>14. ToSet(L) = O \union {b}
    BY <1>2, <1>3, <1>8, FitsCut
  <1>15. /\ q \in GuiData /\ q.list = L /\ q.number = h /\ q.auto = g.auto
         /\ q.shown = g.shown /\ q.hidden = g.hidden /\ q.displayed = g.displayed
         /\ q.active = g.active /\ q.mixed = g.mixed /\ q.content = g.content
         /\ q.own = g.own /\ q.zoomed = g.zoomed
    <2> HIDE DEF L
    <2>1. QED
      BY <1>10, <1>12 DEF GuiData
  <1>16. Sorted(q) /\ MakeRoom(p, at + Len(t)) = q
    BY <1>11
  <1> HIDE DEF q, p, L
  <1>17. Opened(q) = O \union {b}
    BY <1>14, <1>15 DEF Opened
  <1>18. Sound(q)
    BY <1>1, <1>2, <1>12, <1>13, <1>15, <1>17, AddedSound
  <1>19. AddedTo(g, q, b)
    BY <1>15, <1>17 DEF AddedTo
  <1>20. ASSUME ShownOpen(g), Counted(g), g.displayed[b] = 0 PROVE Counted(q)
    <2>1. ASSUME NEW x \in O PROVE Looking(q, x) = Looking(g, x)
      <3>1. \A w \in Window : g.shown[w] = NoBuffer \/ g.shown[w] \in O
        BY <1>20 DEF ShownOpen
      <3>2. \A w \in Window : g.shown[w] # NoBuffer =>
              (h[g.shown[w]] = h[x] <=> g.number[g.shown[w]] = g.number[x])
        BY <1>13, <3>1 DEF SameClasses
      <3>3. QED
        BY <1>15, <3>2 DEF Looking
    <2>2. Looking(q, b) = {}
      BY <1>12, <1>15, <1>20 DEF Looking, ShownOpen
    <2>3. Cardinality(Looking(q, b)) = 0
      BY <2>2, FS_EmptySet
    <2>4. ASSUME NEW x \in O
          PROVE  \/ q.displayed[x] = Cardinality(Looking(q, x))
                 \/ \E y \in O \union {b} : q.number[y] = q.number[x] /\ (q.zoomed[y] \/ q.active[y] = 2)
      <3>1. CASE g.displayed[x] = Cardinality(Looking(g, x))
        BY <1>15, <2>1, <3>1
      <3>2. CASE \E y \in O : g.number[y] = g.number[x] /\ (g.zoomed[y] \/ g.active[y] = 2)
        <4>1. PICK y \in O : g.number[y] = g.number[x] /\ (g.zoomed[y] \/ g.active[y] = 2)
          BY <3>2
        <4>2. h[y] = h[x]
          BY <1>13, <4>1 DEF SameClasses
        <4>3. QED
          BY <1>15, <4>1, <4>2
      <3>3. QED
        BY <1>20, <3>1, <3>2 DEF Counted
    <2>5. QED
      BY <1>15, <1>17, <1>20, <2>3, <2>4 DEF Counted
  <1>21. QED
    BY <1>5, <1>15, <1>16, <1>18, <1>19, <1>20 DEF Good

LEMMA FirstIndexFacts ==
  ASSUME NEW S \in SUBSET Nat
  PROVE  FirstIndex(S) = 0 \/ FirstIndex(S) \in S
  <1>1. CASE S = {}
    BY <1>1 DEF FirstIndex
  <1>2. CASE S # {}
    <2>1. PICK z \in S : \A y \in S : ~(y < z)
      BY <1>2, LeastElement
    <2>2. \A y \in S : z <= y
      BY <2>1
    <2>3. FirstIndex(S) = CHOOSE x \in S : \A y \in S : x <= y
      BY <1>2 DEF FirstIndex, Min
    <2>4. QED
      BY <2>1, <2>2, <2>3
  <1>3. QED
    BY <1>1, <1>2

(***************************************************************************)
(* The positions where a buffer may be added: position 0 is the end, one   *)
(* of a gap has free numbers before it, another is not inside a group.     *)
(***************************************************************************)
PrevNumber(g, i) ==
  IF i = 1 \/ g.list = <<>> THEN 0
  ELSE IF i = 0 THEN g.number[Last(g.list)] ELSE g.number[g.list[i - 1]]

AddPlace(g, i, gap) ==
  /\ i \in 0 .. Len(g.list)
  /\ i # 0 => IF gap THEN g.number[g.list[i]] > 1 + PrevNumber(g, i)
                     ELSE i = 1 \/ g.number[g.list[i - 1]] # g.number[g.list[i]]

(***************************************************************************)
(* gui_buffer_find_pos(): the place by the layout, at or after it.         *)
(***************************************************************************)
LEMMA LayoutPlace ==
  ASSUME NEW g \in GuiData, NEW b
  PROVE  AddPlace(g, LayoutPosition(g, b), FALSE)
  <1> DEFINE s == g.list
             S == {i \in 1 .. Len(s) :
                    LET x == s[i]
                    IN /\ \/ LayoutNumber[x] < 1
                          \/ LayoutNumber[b] < LayoutNumber[x]
                          \/ LayoutNumber[b] = LayoutNumber[x] /\ LayoutOrder[b] <= LayoutOrder[x]
                       /\ i = 1 \/ g.number[s[i - 1]] # g.number[x]}
             i == LayoutPosition(g, b)
  <1>1. S \in SUBSET Nat /\ Len(s) \in Nat
    BY DataFacts
  <1>2. i = FirstIndex(S)
    BY DEF LayoutPosition
  <1>3. \A j \in S : j \in 1 .. Len(s) /\ (j = 1 \/ g.number[s[j - 1]] # g.number[s[j]])
    OBVIOUS
  <1> HIDE DEF S, i
  <1>4. i = 0 \/ i \in S
    BY <1>1, <1>2, FirstIndexFacts
  <1>5. i \in 0 .. Len(s) /\ (i # 0 => i = 1 \/ g.number[s[i - 1]] # g.number[s[i]])
    BY <1>1, <1>3, <1>4
  <1>6. QED
    BY <1>5 DEF AddPlace, i

(***************************************************************************)
(* gui_buffer_find_pos(): the place of the first gap, with its number.     *)
(***************************************************************************)
LEMMA GapPlace ==
  ASSUME NEW g \in GuiData
  PROVE  AddPlace(g, GapPosition(g), TRUE)
  <1> DEFINE s == g.list
             S == {i \in 1 .. Len(s) :
                     g.number[s[i]] > 1 + (IF i = 1 THEN 0 ELSE g.number[s[i - 1]])}
             i == GapPosition(g)
  <1>1. S \in SUBSET Nat /\ Len(s) \in Nat
    BY DataFacts
  <1>2. i = FirstIndex(S)
    BY DEF GapPosition
  <1>3. ASSUME NEW j \in S PROVE j \in 1 .. Len(s) /\ g.number[s[j]] > 1 + PrevNumber(g, j)
    <2>1. j \in 1 .. Len(s) /\ g.number[s[j]] > 1 + (IF j = 1 THEN 0 ELSE g.number[s[j - 1]])
      OBVIOUS
    <2>2. s # <<>> /\ j # 0
      BY <1>1, <2>1
    <2>3. PrevNumber(g, j) = IF j = 1 THEN 0 ELSE g.number[s[j - 1]]
      BY <2>2 DEF PrevNumber
    <2>4. QED
      BY <2>1, <2>3
  <1> HIDE DEF S, i
  <1>4. i = 0 \/ i \in S
    BY <1>1, <1>2, FirstIndexFacts
  <1>5. i \in 0 .. Len(s) /\ (i # 0 => g.number[s[i]] > 1 + PrevNumber(g, i))
    <2>1. CASE i = 0
      BY <1>1, <2>1
    <2>2. CASE i \in S
      <3>1. i \in 1 .. Len(s) /\ g.number[s[i]] > 1 + PrevNumber(g, i)
        BY <1>3, <2>2, Zenon
      <3>2. i \in 0 .. Len(s)
        BY <1>1, <3>1
      <3>3. QED
        BY <3>1, <3>2, Zenon
    <2>3. QED
      BY <1>4, <2>1, <2>2, Zenon
  <1>6. QED
    BY <1>5 DEF AddPlace, i

(***************************************************************************)
(* The number before the place where a buffer is added, and those around   *)
(* it.                                                                     *)
(***************************************************************************)
LEMMA PrevFacts ==
  ASSUME NEW g, Good(g), NEW i \in 0 .. Len(g.list)
  PROVE  LET at == IF i = 0 THEN Len(g.list) + 1 ELSE i
             prev == PrevNumber(g, i)
         IN  /\ at \in 1 .. Len(g.list) + 1
             /\ prev \in Nat
             /\ prev = 0 \/ \E y \in Opened(g) : g.number[y] = prev
             /\ \A x \in Before(g.list, at) : g.number[x] \in Nat /\ g.number[x] <= prev
             /\ i = 0 => From(g.list, at) = {}
             /\ i # 0 => /\ g.list[i] \in Opened(g) /\ g.number[g.list[i]] \in Nat
                         /\ g.number[g.list[i]] >= 1
                         /\ prev <= g.number[g.list[i]]
             /\ i # 0 => \A x \in From(g.list, at) : g.number[g.list[i]] <= g.number[x]
             /\ i # 0 /\ i # 1 => prev = g.number[g.list[i - 1]]
  <1> DEFINE s == g.list
             n == g.number
             e == Len(s)
             at == IF i = 0 THEN e + 1 ELSE i
             prev == PrevNumber(g, i)
  <1>1. /\ s \in Seq(Buffer) /\ e \in Nat /\ n \in [Buffer -> Nat] /\ Ordered(s, n)
        /\ \A x \in Opened(g) : n[x] >= 1 /\ n[x] \in Nat
        /\ Opened(g) = ToSet(s)
    <2>1. g \in GuiData /\ Ordered(s, n) /\ Sorted(g)
      BY DEF Good, Sorted
    <2>2. s \in Seq(Buffer) /\ n \in [Buffer -> Nat] /\ Opened(g) = ToSet(s) /\ Opened(g) \subseteq Buffer
      BY <2>1, DataFacts
    <2>3. e \in Nat
      BY <2>2
    <2>4. \A x \in Opened(g) : n[x] >= 1 /\ n[x] \in Nat
      BY <2>1, <2>2 DEF Sorted
    <2>5. QED
      BY <2>1, <2>2, <2>3, <2>4
  <1>2. \A k \in 1 .. e : s[k] \in Opened(g)
    BY <1>1, SeqFacts
  <1>3. ASSUME NEW j \in 1 .. e, NEW k \in 1 .. e, j <= k PROVE n[s[j]] <= n[s[k]]
    <2>1. j = k \/ j < k
      BY <1>1, <1>3
    <2>2. n[s[j]] <= n[s[j]]
      BY <1>1, <1>2
    <2>3. QED
      BY <1>1, <2>1, <2>2 DEF Ordered
  <1>4. e > 0 => s # <<>> /\ Last(s) = s[e]
    BY DEF Last
  <1>5. e = 0 <=> s = <<>>
    BY <1>1, EmptySeq
  <1>6. prev = IF i = 1 \/ e = 0 THEN 0 ELSE IF i = 0 THEN n[s[e]] ELSE n[s[i - 1]]
    BY <1>1, <1>4, <1>5 DEF PrevNumber
  <1>7. i \in 0 .. e
    OBVIOUS
  <1> HIDE DEF s, n, e, prev
  <1>8. at \in 1 .. e + 1
    BY <1>1, <1>7
  <1> DEFINE k == at - 1
  <1>9. k \in 0 .. e /\ (k = 0 <=> i = 1 \/ e = 0)
    BY <1>1, <1>7
  <1>10. prev = IF k = 0 THEN 0 ELSE n[s[k]]
    BY <1>1, <1>6, <1>7, <1>9
  <1>11. k # 0 => k \in 1 .. e
    BY <1>9, <1>1
  <1> HIDE DEF k
  <1>12. prev \in Nat /\ (prev = 0 \/ \E y \in Opened(g) : n[y] = prev)
    BY <1>1, <1>2, <1>10, <1>11
  <1>13. ASSUME NEW x \in Before(s, at) PROVE n[x] \in Nat /\ n[x] <= prev
    <2>1. PICK j \in 1 .. at - 1 : x = s[j]
      BY DEF Before
    <2>2. j \in 1 .. k /\ k # 0 /\ j \in 1 .. e /\ j <= k
      BY <1>1, <1>8, <1>9, <2>1 DEF k
    <2>3. QED
      BY <1>1, <1>2, <1>3, <1>10, <1>11, <2>1, <2>2
  <1>14. ASSUME i = 0 PROVE From(s, at) = {}
    BY <1>1, <1>14 DEF From, e
  <1>15. ASSUME i # 0
         PROVE  /\ s[i] \in Opened(g) /\ n[s[i]] \in Nat /\ n[s[i]] >= 1 /\ prev <= n[s[i]]
                /\ \A x \in From(s, at) : n[s[i]] <= n[x]
                /\ i # 1 => prev = n[s[i - 1]]
    <2>1. i \in 1 .. e /\ at = i
      BY <1>1, <1>7, <1>15
    <2>2. s[i] \in Opened(g) /\ n[s[i]] \in Nat /\ n[s[i]] >= 1
      BY <1>1, <1>2, <2>1
    <2>3. prev <= n[s[i]]
      <3>1. CASE k = 0
        BY <1>10, <2>2, <3>1
      <3>2. CASE k # 0
        <4>1. k \in 1 .. e /\ k <= i
          BY <1>1, <1>11, <2>1, <3>2 DEF k
        <4>2. QED
          BY <1>3, <1>10, <2>1, <3>2, <4>1
      <3>3. QED
        BY <3>1, <3>2
    <2>4. ASSUME NEW x \in From(s, at) PROVE n[s[i]] <= n[x]
      <3>1. PICK j \in i .. e : x = s[j]
        BY <2>1 DEF From, e
      <3>2. j \in 1 .. e /\ i <= j
        BY <1>1, <2>1
      <3>3. QED
        BY <1>3, <2>1, <3>1, <3>2
    <2>5. i # 1 => prev = n[s[i - 1]]
      BY <1>1, <1>6, <1>7, <1>15
    <2>6. QED
      BY <2>2, <2>3, <2>4, <2>5
  <1>16. QED
    BY <1>8, <1>12, <1>13, <1>14, <1>15 DEF s, n, e, prev

(***************************************************************************)
(* gui_buffer_insert() at a position, before any merge.                    *)
(***************************************************************************)
LEMMA AddBeforeGood ==
  ASSUME NEW g, Good(g), NEW b \in Buffer \ Opened(g), NEW i, NEW gap \in BOOLEAN,
         AddPlace(g, i, gap)
  PROVE  /\ Good(AddBefore(g, b, i, gap)) /\ AddedTo(g, AddBefore(g, b, i, gap), b)
         /\ (ShownOpen(g) /\ Counted(g) /\ g.displayed[b] = 0) => Counted(AddBefore(g, b, i, gap))
  <1> DEFINE s == g.list
             asked == ~ g.auto /\ LayoutNumber[b] > 0
             prev == PrevNumber(g, i)
             at == IF i = 0 THEN Len(s) + 1 ELSE i
             y == g.number[s[i]]
             number == IF i # 0 /\ gap THEN prev + 1
                       ELSE IF i = 0
                       THEN IF asked /\ (s = <<>> \/ LayoutNumber[b] > prev) THEN LayoutNumber[b]
                                                                             ELSE prev + 1
                       ELSE IF asked /\ LayoutNumber[b] < y /\ (i = 1 \/ LayoutNumber[b] > prev)
                       THEN LayoutNumber[b]
                       ELSE y
  <1>1. i \in 0 .. Len(s) /\ g \in GuiData /\ Sorted(g)
    BY DEF AddPlace, Good
  <1>2. AddBefore(g, b, i, gap)
          = MakeRoom([g EXCEPT !.list = Inserted(s, at, <<b>>), !.number[b] = number], at + 1)
    BY DEF AddBefore, PrevNumber
  <1>3. /\ at \in 1 .. Len(s) + 1 /\ prev \in Nat
        /\ prev = 0 \/ \E x \in Opened(g) : g.number[x] = prev
        /\ \A x \in Before(s, at) : g.number[x] \in Nat /\ g.number[x] <= prev
    BY <1>1, PrevFacts
  <1>4. i = 0 => From(s, at) = {}
    BY <1>1, PrevFacts
  <1>5. i # 0 => /\ s[i] \in Opened(g) /\ y \in Nat /\ y >= 1 /\ prev <= y
    BY <1>1, PrevFacts
  <1>6. i # 0 => \A x \in From(s, at) : y <= g.number[x]
    BY <1>1, PrevFacts
  <1>7. i # 0 /\ i # 1 => prev = g.number[s[i - 1]]
    BY <1>1, PrevFacts
  <1>8. i # 0 => IF gap THEN y > 1 + prev ELSE i = 1 \/ g.number[s[i - 1]] # y
    BY DEF AddPlace
  <1>9. LayoutNumber[b] \in Nat
    BY BufferAssumption
  <1>10. s = <<>> => prev = 0
    BY DEF PrevNumber
  <1>11. i = 1 => prev = 0
    BY DEF PrevNumber
  <1>12. \A x \in Opened(g) : g.number[x] \in Nat
    BY <1>1, DataFacts
  <1>13. ASSUME g.auto, NEW x \in Opened(g), NEW m \in 1 .. g.number[x]
         PROVE  \E z \in Opened(g) : g.number[z] = m
    BY <1>1, <1>13 DEF Sorted, Gapless
  <1>14. \A x \in From(s, at) : x \in Opened(g)
    <2>1. Opened(g) = Before(s, at) \union From(s, at)
      BY <1>1, <1>3, CutFacts, DataFacts DEF Sorted
    <2>2. QED
      BY <2>1
  <1> HIDE DEF prev, y, at, s
  <1>15. ASSUME i # 0, ~ gap PROVE prev < y
    BY <1>3, <1>5, <1>7, <1>8, <1>11, <1>15
  <1>16. number \in Nat /\ number >= 1 /\ prev < number
    BY <1>3, <1>5, <1>9, <1>10, <1>11, <1>15
  <1>17. i # 0 => number <= y
    BY <1>3, <1>5, <1>8, <1>9, <1>15
  <1>18. g.auto => number = prev + 1 \/ (i # 0 /\ number = y)
    OBVIOUS
  <1> HIDE DEF number, asked
  <1>19. \A x \in Before(s, at) : g.number[x] < number
    BY <1>3, <1>16
  <1>20. \A x \in From(s, at) : number <= g.number[x]
    BY <1>4, <1>5, <1>6, <1>12, <1>14, <1>16, <1>17
  <1>21. ASSUME g.auto, NEW m \in 1 .. number - 1 PROVE \E z \in Opened(g) : g.number[z] = m
    <2>1. CASE number = prev + 1
      <3>1. m \in 1 .. prev /\ prev # 0
        BY <1>3, <2>1
      <3>2. QED
        BY <1>3, <1>13, <1>21, <3>1
    <2>2. CASE i # 0 /\ number = y
      <3>1. m \in 1 .. y /\ s[i] \in Opened(g) /\ y = g.number[s[i]]
        BY <1>5, <2>2 DEF y
      <3>2. QED
        BY <1>13, <1>21, <3>1
    <2>3. QED
      BY <1>18, <1>21, <2>1, <2>2
  <1> DEFINE h == AddBefore(g, b, i, gap)
  <1>22. /\ Good(h) /\ AddedTo(g, h, b)
         /\ (ShownOpen(g) /\ Counted(g) /\ g.displayed[b] = 0) => Counted(h)
    <2> HIDE DEF h
    <2>1. h = MakeRoom([g EXCEPT !.list = Inserted(g.list, at, <<b>>), !.number[b] = number], at + 1)
      BY <1>2 DEF h, s
    <2>2. QED
      BY <1>3, <1>16, <1>19, <1>20, <1>21, <2>1, AddedGood DEF s
  <1>23. QED
    BY <1>22

(***************************************************************************)
(* Merging after a buffer was added is adding it.                          *)
(***************************************************************************)
LEMMA MergeAdded ==
  ASSUME NEW g, NEW b, NEW h, Good(h), AddedTo(g, h, b),
         NEW x \in Opened(h), NEW y \in Opened(h)
  PROVE  /\ Good(Merge(h, x, y)) /\ AddedTo(g, Merge(h, x, y), b)
         /\ Counted(h) => Counted(Merge(h, x, y))
  <1> DEFINE m == Merge(h, x, y)
  <1>1. Good(m) /\ Same(h, m) /\ (Counted(h) => Counted(m))
    BY MergeGood
  <1> HIDE DEF m
  <1>2. AddedTo(g, m, b)
    BY <1>1 DEF AddedTo, Same
  <1>3. QED
    BY <1>1, <1>2 DEF m

(***************************************************************************)
(* gui_buffer_insert(): the buffer is added and merged at most once.       *)
(***************************************************************************)
LEMMA InsertGood ==
  ASSUME NEW g, Good(g), NEW b \in Buffer \ Opened(g), NEW p \in BOOLEAN
  PROVE  /\ Good(Insert(g, b, p)) /\ AddedTo(g, Insert(g, b, p), b)
         /\ (ShownOpen(g) /\ Counted(g) /\ g.displayed[b] = 0) => Counted(Insert(g, b, p))
  <1> DEFINE s == g.list
             place == IF LayoutNumber[b] < 1 THEN 0 ELSE LayoutPosition(g, b)
             gap == IF p /\ LayoutNumber[b] = 0 THEN GapPosition(g) ELSE 0
             alike(x) == LayoutNumber[b] > 0 /\ LayoutNumber[x] = LayoutNumber[b]
             mate == IF place = 0 THEN NoBuffer
                     ELSE IF alike(s[place]) THEN s[place]
                     ELSE IF place > 1 /\ alike(s[place - 1]) THEN s[place - 1]
                     ELSE NoBuffer
             added == IF mate # NoBuffer THEN AddBefore(g, b, 0, FALSE)
                      ELSE IF place # 0 THEN AddBefore(g, b, place, FALSE)
                      ELSE AddBefore(g, b, gap, TRUE)
             at == FirstIn(added.list, {b})
             result == IF mate # NoBuffer THEN Merge(added, b, mate)
                       ELSE IF at > 1 /\ alike(added.list[at - 1])
                       THEN Merge(added, b, added.list[at - 1])
                       ELSE IF at < Len(added.list) /\ alike(added.list[at + 1])
                       THEN Merge(added, added.list[at + 1], b)
                       ELSE added
             Premise == ShownOpen(g) /\ Counted(g) /\ g.displayed[b] = 0
  <1>1. Insert(g, b, p) = result
    BY DEF Insert
  <1>2. g \in GuiData /\ s \in Seq(Buffer) /\ Opened(g) = ToSet(s) /\ Len(s) \in Nat
    BY DataFacts DEF Good
  <1>3. \A j \in 1 .. Len(s) : s[j] \in Opened(g)
    BY <1>2, SeqFacts
  <1>4. AddPlace(g, place, FALSE) /\ AddPlace(g, gap, TRUE) /\ AddPlace(g, 0, FALSE)
    <2>1. AddPlace(g, 0, TRUE) /\ AddPlace(g, 0, FALSE)
      BY <1>2 DEF AddPlace
    <2>2. AddPlace(g, LayoutPosition(g, b), FALSE) /\ AddPlace(g, GapPosition(g), TRUE)
      BY <1>2, LayoutPlace, GapPlace
    <2>3. QED
      BY <2>1, <2>2
  <1>5. place \in 0 .. Len(s)
    BY <1>4 DEF AddPlace
  <1> HIDE DEF place, gap
  <1>6. mate # NoBuffer => mate \in Opened(g)
    BY <1>2, <1>3, <1>5
  <1> HIDE DEF mate, s
  <1>7. Good(added) /\ AddedTo(g, added, b) /\ (Premise => Counted(added))
    <2>1. CASE mate # NoBuffer
      <3>1. added = AddBefore(g, b, 0, FALSE)
        BY <2>1
      <3> HIDE DEF added
      <3>2. QED
        BY <1>4, <3>1, AddBeforeGood
    <2>2. CASE mate = NoBuffer /\ place # 0
      <3>1. added = AddBefore(g, b, place, FALSE)
        BY <2>2
      <3> HIDE DEF added
      <3>2. QED
        BY <1>4, <3>1, AddBeforeGood
    <2>3. CASE mate = NoBuffer /\ place = 0
      <3>1. added = AddBefore(g, b, gap, TRUE)
        BY <2>3
      <3> HIDE DEF added
      <3>2. QED
        BY <1>4, <3>1, AddBeforeGood
    <2>4. QED
      BY <2>1, <2>2, <2>3
  <1> HIDE DEF added
  <1>8. /\ added.list \in Seq(Buffer) /\ Opened(added) = ToSet(added.list)
        /\ Len(added.list) \in Nat
        /\ Opened(added) = Opened(g) \union {b}
    <2>1. added \in GuiData /\ Opened(added) = Opened(g) \union {b}
      BY <1>7 DEF Good, AddedTo
    <2>2. QED
      BY <2>1, DataFacts
  <1>9. at \in 0 .. Len(added.list)
    BY <1>8, FirstInFacts
  <1>10. \A j \in 1 .. Len(added.list) : added.list[j] \in Opened(added)
    <2> DEFINE L == added.list
    <2>1. L \in Seq(Buffer) /\ Opened(added) = ToSet(L)
      BY <1>8
    <2> HIDE DEF L
    <2>2. \A j \in 1 .. Len(L) : L[j] \in ToSet(L)
      BY <2>1, SeqFacts
    <2>3. QED
      BY <2>1, <2>2 DEF L
  <1> HIDE DEF at
  <1>11. b \in Opened(added) /\ (mate # NoBuffer => mate \in Opened(added))
    BY <1>6, <1>8
  <1>12. at > 1 => added.list[at - 1] \in Opened(added)
    BY <1>8, <1>9, <1>10
  <1>13. at < Len(added.list) => added.list[at + 1] \in Opened(added)
    BY <1>8, <1>9, <1>10
  <1>14. \/ result = added
         \/ \E x, y \in Opened(added) : result = Merge(added, x, y)
    BY <1>11, <1>12, <1>13
  <1> HIDE DEF result
  <1>15. /\ Good(result) /\ AddedTo(g, result, b) /\ (Premise => Counted(result))
    <2>1. CASE result = added
      BY <1>7, <2>1
    <2>2. CASE \E x, y \in Opened(added) : result = Merge(added, x, y)
      <3>1. PICK x \in Opened(added), y \in Opened(added) : result = Merge(added, x, y)
        BY <2>2
      <3>2. QED
        BY <1>7, <3>1, MergeAdded
    <2>3. QED
      BY <1>14, <2>1, <2>2
  <1>16. QED
    BY <1>1, <1>15

-----------------------------------------------------------------------------
(* The layout                                                              *)

(***************************************************************************)
(* gui_layout_buffer_apply() takes all the buffers out of the list, where  *)
(* none is merged, and inserts them one by one.                            *)
(***************************************************************************)
LEMMA EmptiedGood ==
  ASSUME NEW g, Good(g), \A x \in Opened(g) : Alone(g, x)
  PROVE  LET h == [g EXCEPT !.list = <<>>]
         IN  /\ Good(h) /\ Opened(h) = {}
             /\ h.auto = g.auto /\ h.shown = g.shown /\ h.hidden = g.hidden
             /\ h.displayed = g.displayed
  <1> DEFINE h == [g EXCEPT !.list = <<>>]
             O == Opened(g)
  <1>1. g \in GuiData /\ Sound(g)
    BY DEF Good
  <1>2. /\ h \in GuiData /\ h.list = <<>> /\ h.number = g.number /\ h.auto = g.auto
        /\ h.shown = g.shown /\ h.hidden = g.hidden /\ h.displayed = g.displayed
        /\ h.active = g.active /\ h.zoomed = g.zoomed
        /\ h.mixed = g.mixed /\ h.content = g.content /\ h.own = g.own
    <2>1. <<>> \in Seq(Buffer)
      OBVIOUS
    <2>2. PICK z \in Seq(Buffer) : z = <<>>
      BY <2>1
    <2>3. h = [g EXCEPT !.list = z]
      BY <2>2
    <2> HIDE DEF h
    <2>4. /\ h \in GuiData /\ h.list = z /\ h.number = g.number /\ h.auto = g.auto
          /\ h.shown = g.shown /\ h.hidden = g.hidden /\ h.displayed = g.displayed
          /\ h.active = g.active /\ h.zoomed = g.zoomed
          /\ h.mixed = g.mixed /\ h.content = g.content /\ h.own = g.own
      BY <1>1, <2>3 DEF GuiData
    <2>5. QED
      BY <2>2, <2>4
  <1>3. /\ O \subseteq Buffer
        /\ SharedLines(O, g.number, g.mixed, g.content, g.own)
        /\ AsNew(O, g.active, g.mixed)
        /\ \A x \in O : OneIn(O, g.number, g.active, x)
    BY <1>1, DataFacts DEF Sound
  <1> HIDE DEF h
  <1>4. Opened(h) = {}
    BY <1>2 DEF Opened, ToSet
  <1>5. ASSUME NEW x \in Buffer PROVE g.active[x] # 0 /\ ~ g.mixed[x]
    <2>1. CASE x \notin O
      BY <1>3, <2>1 DEF AsNew
    <2>2. CASE x \in O
      <3>1. \A y \in O : g.number[y] = g.number[x] => y = x
        BY <2>2 DEF Alone
      <3>2. ~ g.mixed[x]
        BY <1>3, <2>2, <3>1 DEF SharedLines
      <3>3. g.active[x] # 0
        BY <1>3, <2>2, <3>1 DEF OneIn
      <3>4. QED
        BY <3>2, <3>3
    <2>3. QED
      BY <2>1, <2>2
  <1>6. Sound(h)
    <2>1. SharedLines({}, h.number, h.mixed, h.content, h.own)
      BY <1>2, <1>3 DEF SharedLines
    <2>2. AsNew({}, h.active, h.mixed)
      BY <1>2, <1>5 DEF AsNew
    <2>3. QED
      BY <1>4, <2>1, <2>2 DEF Sound
  <1>7. Sorted(h)
    <2>1. Once(h.list) /\ Ordered(h.list, h.number)
      BY <1>2 DEF Once, Ordered
    <2>2. QED
      BY <1>4, <2>1 DEF Sorted, Gapless
  <1>8. QED
    BY <1>2, <1>4, <1>6, <1>7 DEF Good, h

(***************************************************************************)
(* Those of the layout first: each buffer once, as before.                 *)
(***************************************************************************)
LEMMA LayoutFirstFacts ==
  ASSUME NEW s, Once(s)
  PROVE  Once(LayoutFirst(s)) /\ ToSet(LayoutFirst(s)) = ToSet(s)
  <1> DEFINE A == {x \in Buffer : LayoutNumber[x] > 0}
             B == {x \in Buffer : LayoutNumber[x] = 0}
             k == Kept(s, A)
             l == Kept(s, B)
  <1>1. s \in Seq(Buffer) /\ ToSet(s) \subseteq Buffer
    BY SeqFacts DEF Once
  <1>2. A \union B = Buffer /\ A \intersect B = {}
    BY BufferAssumption
  <1>3. LayoutFirst(s) = k \o l
    BY DEF LayoutFirst
  <1> HIDE DEF A, B
  <1>4. /\ k \in Seq(Buffer) /\ Once(k) /\ ToSet(k) = ToSet(s) \intersect A
        /\ l \in Seq(Buffer) /\ Once(l) /\ ToSet(l) = ToSet(s) \intersect B
    BY <1>1, KeptFacts
  <1> HIDE DEF k, l
  <1>5. Once(k \o l) /\ ToSet(k \o l) = ToSet(k) \union ToSet(l)
    BY <1>2, <1>4, ConcatOnce, ConcatFacts
  <1>6. ToSet(k) \union ToSet(l) = ToSet(s)
    BY <1>1, <1>2, <1>4
  <1>7. QED
    BY <1>3, <1>5, <1>6

(***************************************************************************)
(* gui_buffer_sort_by_layout_number() inserts them all again.              *)
(***************************************************************************)
LEMMA SortByLayoutGood ==
  ASSUME NEW g, Good(g), \A x \in Opened(g) : Alone(g, x),
         NEW s, Once(s), ToSet(s) = Opened(g), NEW p \in BOOLEAN
  PROVE  Good(SortByLayout(g, s, p)) /\ Same(g, SortByLayout(g, s, p))
  <1> DEFINE e == [g EXCEPT !.list = <<>>]
             L == Loop("insert", p, e, s, Len(s))
             O == Opened(g)
             Kin(h) == /\ h.auto = g.auto /\ h.shown = g.shown /\ h.hidden = g.hidden
                       /\ \A x \in Buffer \ O : h.displayed[x] = g.displayed[x]
             S == {n \in 0 .. Len(s) : /\ Good(L[n]) /\ Kin(L[n])
                                       /\ Opened(L[n]) = {s[k] : k \in 1 .. n}}
  <1>1. /\ s \in Seq(Buffer) /\ Len(s) \in Nat /\ O = {s[k] : k \in 1 .. Len(s)}
        /\ \A j, k \in 1 .. Len(s) : s[j] = s[k] => j = k
        /\ \A k \in 1 .. Len(s) : s[k] \in Buffer /\ s[k] \in O
    BY SeqFacts DEF Once
  <1>2. Good(e) /\ Opened(e) = {} /\ Kin(e)
    BY EmptiedGood
  <1> HIDE DEF e
  <1>3. L[0] = e /\ \A n \in 0 .. Len(s) - 1 : L[n + 1] = LoopStep("insert", p, L[n], s[n + 1])
    BY <1>1, LoopFacts
  <1>4. SortByLayout(g, s, p) = L[Len(s)]
    BY LoopsOfModule DEF e
  <1> HIDE DEF L, O
  <1>5. 0 \in S
    BY <1>1, <1>2, <1>3
  <1>6. ASSUME NEW n \in 0 .. Len(s) - 1, n \in S PROVE n + 1 \in S
    <2> DEFINE a == L[n]
               b == s[n + 1]
               u == Insert(a, b, p)
    <2>1. n + 1 \in 0 .. Len(s) /\ n + 1 \in 1 .. Len(s) /\ n \in Nat
      BY <1>1
    <2>2. Good(a) /\ Kin(a) /\ Opened(a) = {s[k] : k \in 1 .. n}
      BY <1>6
    <2>3. L[n + 1] = u
      BY <1>3 DEF LoopStep
    <2>4. b \in Buffer /\ b \in O
      BY <1>1, <2>1
    <2>5. \A k \in 1 .. n : s[k] # s[n + 1]
      <3>1. \A k \in 1 .. n : k \in 1 .. Len(s) /\ k # n + 1
        BY <1>1, <2>1
      <3>2. QED
        BY <1>1, <2>1, <3>1
    <2>6. b \in Buffer \ Opened(a)
      BY <2>2, <2>4, <2>5
    <2> HIDE DEF a, u
    <2>7. Good(u) /\ AddedTo(a, u, b)
      BY <2>2, <2>6, InsertGood DEF u
    <2>8. Opened(u) = {s[k] : k \in 1 .. n + 1}
      <3>1. Opened(u) = {s[k] : k \in 1 .. n} \union {s[n + 1]}
        BY <2>2, <2>7 DEF AddedTo
      <3>2. 1 .. n + 1 = (1 .. n) \union {n + 1}
        BY <2>1
      <3>3. QED
        BY <3>1, <3>2
    <2>9. Kin(u)
      <3>1. Opened(u) \subseteq O
        <4>1. \A k \in 1 .. n + 1 : k \in 1 .. Len(s)
          BY <1>1, <2>1
        <4>2. QED
          BY <1>1, <2>8, <4>1
      <3>2. \A x \in Buffer \ O : u.displayed[x] = g.displayed[x]
        BY <2>2, <2>7, <3>1 DEF AddedTo
      <3>3. QED
        BY <2>2, <2>7, <3>2 DEF AddedTo
    <2>10. QED
      BY <2>1, <2>3, <2>7, <2>8, <2>9
  <1> HIDE DEF S
  <1>7. Len(s) \in S
    BY <1>1, <1>5, <1>6, UpTo
  <1>8. Good(L[Len(s)]) /\ Kin(L[Len(s)]) /\ Opened(L[Len(s)]) = O
    BY <1>1, <1>7 DEF S
  <1>9. QED
    BY <1>4, <1>8 DEF Same, O

(***************************************************************************)
(* The first buffer of each number of the layout becomes active.           *)
(***************************************************************************)
LEMMA ActivateLeadersGood ==
  ASSUME NEW g, Good(g)
  PROVE  Good(ActivateLeaders(g)) /\ Same(g, ActivateLeaders(g))
  <1> DEFINE s == g.list
             L == Loop("lead", 0, g, s, Len(s))
             S == {n \in 0 .. Len(s) : Good(L[n]) /\ Same(g, L[n])}
  <1>1. s \in Seq(Buffer) /\ Len(s) \in Nat /\ Opened(g) = ToSet(s)
    BY DataFacts, SeqFacts DEF Good
  <1>2. L[0] = g /\ \A n \in 0 .. Len(s) - 1 : L[n + 1] = LoopStep("lead", 0, L[n], s[n + 1])
    BY <1>1, LoopFacts
  <1>3. ActivateLeaders(g) = L[Len(s)]
    BY LoopsOfModule
  <1> HIDE DEF L
  <1>4. 0 \in S
    BY <1>1, <1>2 DEF Same
  <1>5. ASSUME NEW n \in 0 .. Len(s) - 1, n \in S PROVE n + 1 \in S
    <2> DEFINE a == L[n]
               b == s[n + 1]
               u == SetActive(a, b)
    <2>1. n + 1 \in 0 .. Len(s) /\ n + 1 \in 1 .. Len(s)
      BY <1>1
    <2>2. Good(a) /\ Same(g, a)
      BY <1>5
    <2>3. b \in Opened(a)
      BY <1>1, <2>1, <2>2, SeqFacts DEF Same
    <2>4. L[n + 1] = u \/ L[n + 1] = a
      BY <1>2 DEF LoopStep
    <2> HIDE DEF a, b
    <2>5. Good(u) /\ Same(a, u)
      BY <2>2, <2>3, SetActiveGood
    <2> HIDE DEF u
    <2>6. Same(g, u)
      BY <2>2, <2>5, SameTwice
    <2>7. QED
      BY <2>1, <2>2, <2>4, <2>5, <2>6
  <1> HIDE DEF S
  <1>6. Len(s) \in S
    BY <1>1, <1>4, <1>5, UpTo
  <1>7. Good(L[Len(s)]) /\ Same(g, L[Len(s)])
    BY <1>6 DEF S
  <1>8. QED
    BY <1>3, <1>7

(***************************************************************************)
(* gui_layout_buffer_apply() keeps the data good, and all buffers.         *)
(***************************************************************************)
LEMMA ApplyLayoutGood ==
  ASSUME NEW g, Good(g), NEW p \in BOOLEAN
  PROVE  Good(ApplyLayout(g, p)) /\ Same(g, ApplyLayout(g, p))
  <1> DEFINE u == UnmergeAll(g)
             v == SortByLayout(u, LayoutFirst(u.list), p)
  <1>1. ApplyLayout(g, p) = ActivateLeaders(v)
    BY DEF ApplyLayout
  <1>2. /\ Good(u) /\ Same(g, u)
        /\ \A x \in Opened(g) : Alone(u, x)
    BY UnmergeAllGood
  <1> HIDE DEF u
  <1>3. u \in GuiData /\ Once(u.list) /\ Opened(u) = ToSet(u.list) /\ Opened(u) = Opened(g)
    BY <1>2, DataFacts DEF Good, Sorted, Same
  <1>4. Once(LayoutFirst(u.list)) /\ ToSet(LayoutFirst(u.list)) = Opened(u)
    BY <1>3, LayoutFirstFacts
  <1>5. Good(v) /\ Same(u, v)
    BY <1>2, <1>3, <1>4, SortByLayoutGood
  <1> HIDE DEF v
  <1>6. Good(ActivateLeaders(v)) /\ Same(v, ActivateLeaders(v))
    BY <1>5, ActivateLeadersGood
  <1>7. QED
    BY <1>1, <1>2, <1>5, <1>6, SameTwice

-----------------------------------------------------------------------------
(* Windows and zoom                                                        *)

(***************************************************************************)
(* A change of the active buffer keeps the counts right: the windows on a  *)
(* number are counted for each buffer that is there.                       *)
(***************************************************************************)
LEMMA SetActiveCounted ==
  ASSUME NEW g, Good(g), NEW b \in Opened(g), Counted(g)
  PROVE  Counted(SetActive(g, b))
  <1> DEFINE h == SetActive(g, b)
             O == Opened(g)
  <1>1. g \in GuiData /\ OneIn(O, g.number, g.active, b)
    BY DEF Good, Sound
  <1>2. PICK w \in [Buffer -> BOOLEAN], a \in [Buffer -> 0..2] :
          h = [g EXCEPT !.own = w, !.active = a] /\ Activated(g, b, w, a)
    BY <1>1, SetActiveFacts
  <1> HIDE DEF h
  <1>3. /\ h.list = g.list /\ h.number = g.number /\ h.active = a /\ h.zoomed = g.zoomed
        /\ h.shown = g.shown /\ h.displayed = g.displayed
    <2> DEFINE k == [g EXCEPT !.own = w, !.active = a]
    <2>1. /\ k.list = g.list /\ k.number = g.number /\ k.active = a /\ k.zoomed = g.zoomed
          /\ k.shown = g.shown /\ k.displayed = g.displayed
      BY <1>1 DEF GuiData
    <2> HIDE DEF k
    <2>2. QED
      BY <1>2, <2>1 DEF k
  <1>4. Opened(h) = O /\ \A x : Looking(h, x) = Looking(g, x)
    BY <1>3 DEF Opened, Looking
  <1>5. O \subseteq Buffer /\ b \in Buffer
    BY <1>1, DataFacts
  <1>6. ASSUME NEW x \in O, NEW y \in O, g.number[y] = g.number[x],
               g.zoomed[y] \/ g.active[y] = 2
        PROVE  \E z \in O : g.number[z] = g.number[x] /\ (g.zoomed[z] \/ a[z] = 2)
    <2>1. CASE y \notin Members(g, b)
      <3>1. a[y] = g.active[y]
        BY <1>2, <1>5, <2>1 DEF Activated
      <3>2. QED
        BY <1>6, <3>1
    <2>2. CASE y \in Members(g, b)
      <3>1. g.number[b] = g.number[x]
        BY <1>6, <2>2 DEF Members
      <3>2. g.active[y] = 2 => a[b] = 2
        BY <1>1, <1>2, <2>2 DEF Activated
      <3>3. QED
        BY <1>6, <3>1, <3>2
    <2>3. QED
      BY <2>1, <2>2
  <1>7. ASSUME NEW x \in O
        PROVE  \/ h.displayed[x] = Cardinality(Looking(h, x))
               \/ \E z \in O : h.number[z] = h.number[x] /\ (h.zoomed[z] \/ h.active[z] = 2)
    <2>1. \/ g.displayed[x] = Cardinality(Looking(g, x))
          \/ \E y \in O : g.number[y] = g.number[x] /\ (g.zoomed[y] \/ g.active[y] = 2)
      BY DEF Counted
    <2>2. QED
      BY <1>3, <1>4, <1>6, <2>1
  <1>8. Counted(h)
    BY <1>4, <1>7 DEF Counted
  <1>9. QED
    BY <1>8 DEF h

(***************************************************************************)
(* gui_window_switch_to_buffer()                                           *)
(***************************************************************************)
Switched(g, h, ws, b) ==
  /\ Opened(h) = Opened(g) /\ h.list = g.list /\ h.number = g.number
  /\ h.auto = g.auto /\ h.hidden = g.hidden
  /\ h.shown = [w \in Window |-> IF w \in ws THEN b ELSE g.shown[w]]
  /\ \A x \in Buffer \ Opened(g) : h.displayed[x] = g.displayed[x]

LEMMA NewShown ==
  ASSUME NEW g, Good(g), NEW f \in [Window -> Buffer \union {NoBuffer}]
  PROVE  LET h == [g EXCEPT !.shown = f]
         IN  /\ Good(h) /\ Opened(h) = Opened(g) /\ h.list = g.list /\ h.number = g.number
             /\ h.auto = g.auto /\ h.hidden = g.hidden /\ h.shown = f
             /\ h.displayed = g.displayed /\ h.zoomed = g.zoomed /\ h.active = g.active
             /\ h.mixed = g.mixed /\ h.content = g.content /\ h.own = g.own
  <1> DEFINE h == [g EXCEPT !.shown = f]
  <1>1. g \in GuiData /\ Sorted(g) /\ Sound(g)
    BY DEF Good
  <1>2. /\ h \in GuiData /\ h.list = g.list /\ h.number = g.number /\ h.auto = g.auto
        /\ h.shown = f /\ h.hidden = g.hidden /\ h.displayed = g.displayed
        /\ h.active = g.active /\ h.zoomed = g.zoomed
        /\ h.mixed = g.mixed /\ h.content = g.content /\ h.own = g.own
    BY <1>1 DEF GuiData
  <1> HIDE DEF h
  <1>3. Opened(h) = Opened(g)
    BY <1>2 DEF Opened
  <1>4. Sorted(h)
    BY <1>1, <1>2, <1>3 DEF Sorted
  <1>5. Sound(h)
    BY <1>1, <1>2, <1>3, SameGroups
  <1>6. QED
    BY <1>2, <1>3, <1>4, <1>5 DEF Good, h

(***************************************************************************)
(* gui_window_switch_to_buffer() keeps the data good, and the counts       *)
(* right.                                                                  *)
(***************************************************************************)
LEMMA SwitchToGood ==
  ASSUME NEW g, Good(g), NEW b \in Opened(g), NEW ws \in SUBSET Window
  PROVE  /\ Good(SwitchTo(g, ws, b)) /\ Switched(g, SwitchTo(g, ws, b), ws, b)
         /\ Counted(g) => Counted(SwitchTo(g, ws, b))
  <1>1. /\ g \in GuiData /\ b \in Buffer
        /\ g.shown \in [Window -> Buffer \union {NoBuffer}]
    BY DataFacts DEF Good
  <1>2. CASE ws = {}
    <2>1. SwitchTo(g, ws, b) = g
      BY <1>2 DEF SwitchTo
    <2>2. g.shown = [w \in Window |-> IF w \in ws THEN b ELSE g.shown[w]]
      BY <1>1, <1>2
    <2>3. Switched(g, g, ws, b)
      BY <2>2 DEF Switched
    <2>4. QED
      BY <2>1, <2>3
  <1>3. CASE ws # {}
    <2> DEFINE f == [w \in Window |-> IF w \in ws THEN b ELSE g.shown[w]]
               k == [g EXCEPT !.shown = f]
               a == SetActive(k, b)
               q == CountDisplayed(a)
    <2>1. SwitchTo(g, ws, b) = q
      BY <1>1, <1>3 DEF SwitchTo, GuiData
    <2>2. f \in [Window -> Buffer \union {NoBuffer}]
      BY <1>1
    <2> HIDE DEF f
    <2>3. /\ Good(k) /\ Opened(k) = Opened(g) /\ k.list = g.list /\ k.number = g.number
          /\ k.auto = g.auto /\ k.hidden = g.hidden /\ k.shown = f
          /\ k.displayed = g.displayed
      BY <2>2, NewShown
    <2> HIDE DEF k
    <2>4. Good(a) /\ Same(k, a) /\ a.list = k.list /\ a.number = k.number
      BY <2>3, SetActiveGood
    <2> HIDE DEF a
    <2>5. a \in GuiData /\ Sorted(a) /\ Sound(a)
      BY <2>4 DEF Good
    <2>6. Good(q) /\ Same(a, q) /\ q.list = a.list /\ q.number = a.number /\ Counted(q)
      BY <2>5, CountGood, CountCounted
    <2> HIDE DEF q
    <2>7. Same(k, q)
      BY <2>4, <2>6, SameTwice
    <2>8. Switched(g, q, ws, b)
      BY <2>3, <2>4, <2>6, <2>7 DEF Same, Switched, f
    <2>9. QED
      BY <2>1, <2>6, <2>8
  <1>4. QED
    BY <1>2, <1>3

(***************************************************************************)
(* gui_input_zoom_merged_buffer()                                          *)
(***************************************************************************)
LEMMA ToggledGood ==
  ASSUME NEW g, Good(g), NEW b \in Opened(g), Merged(g, b), g.active[b] # 0
  PROVE  Good(Toggled(g, b)) /\ Same(g, Toggled(g, b)) /\ Counted(Toggled(g, b))
  <1> DEFINE level == 3 - g.active[b]
             z == [x \in Buffer |-> IF x \in Members(g, b) THEN level = 2 ELSE g.zoomed[x]]
             a == [g.active EXCEPT ![b] = level]
             w == [g.own EXCEPT ![b] = level = 2]
             k == [g EXCEPT !.active = a, !.own = w, !.zoomed = z]
             O == Opened(g)
  <1>1. /\ g \in GuiData /\ Sorted(g) /\ Sound(g)
        /\ SharedLines(O, g.number, g.mixed, g.content, g.own)
        /\ AsNew(O, g.active, g.mixed)
    BY DEF Good, Sound
  <1>2. /\ b \in Buffer /\ O \subseteq Buffer /\ g.active \in [Buffer -> 0..2]
        /\ g.own \in [Buffer -> BOOLEAN] /\ g.zoomed \in [Buffer -> BOOLEAN]
    BY <1>1, DataFacts
  <1>3. Toggled(g, b) = CountDisplayed(k)
    BY <1>1 DEF Toggled, GuiData
  <1>4. level \in 1..2
    <2>1. g.active[b] \in 1..2
      BY <1>2
    <2>2. QED
      BY <2>1
  <1> HIDE DEF level
  <1>5. /\ a \in [Buffer -> 0..2] /\ a[b] # 0
        /\ \A x \in Buffer \ {b} : a[x] = g.active[x]
    BY <1>2, <1>4
  <1>6. w \in [Buffer -> BOOLEAN] /\ \A x \in Buffer \ {b} : w[x] = g.own[x]
    <2>1. (level = 2) \in BOOLEAN
      OBVIOUS
    <2>2. w \in [Buffer -> BOOLEAN]
      BY <1>2, <2>1, Zenon
    <2>3. QED
      BY <1>2, <2>2
  <1>7. z \in [Buffer -> BOOLEAN]
    <2>1. \A x \in Buffer : z[x] \in BOOLEAN
      BY <1>2
    <2>2. z = [x \in Buffer |-> z[x]]
      OBVIOUS
    <2> HIDE DEF z
    <2>3. QED
      BY <2>1, <2>2
  <1> HIDE DEF a, w, z
  <1>8. /\ k \in GuiData /\ k.list = g.list /\ k.number = g.number /\ k.auto = g.auto
        /\ k.shown = g.shown /\ k.hidden = g.hidden /\ k.displayed = g.displayed
        /\ k.active = a /\ k.mixed = g.mixed /\ k.content = g.content /\ k.own = w
    BY <1>1, <1>5, <1>6, <1>7 DEF GuiData
  <1> HIDE DEF k
  <1>9. Opened(k) = O
    BY <1>8 DEF Opened
  <1>10. Sorted(k)
    BY <1>1, <1>8, <1>9 DEF Sorted
  <1>11. g.mixed[b]
    <2>1. \E x \in O : x # b /\ g.number[x] = g.number[b]
      BY <1>1, MergedFacts
    <2>2. QED
      BY <1>1, <2>1 DEF SharedLines
  <1>12. Sound(k)
    <2>1. \A x \in O : a[x] # 0 <=> g.active[x] # 0
      BY <1>2, <1>5
    <2>2. ASSUME NEW x \in O PROVE OneIn(O, g.number, a, x)
      <3>1. OneIn(O, g.number, g.active, x)
        BY <1>1 DEF Sound
      <3>2. QED
        BY <2>1, <3>1 DEF OneIn
    <2>3. \A x \in Buffer : w[x] \/ g.mixed[x]
      BY <1>1, <1>6, <1>11 DEF SharedLines
    <2>4. SharedLines(O, g.number, g.mixed, g.content, w)
      BY <1>1, <2>3 DEF SharedLines
    <2>5. AsNew(O, a, g.mixed)
      BY <1>1, <1>5 DEF AsNew
    <2>6. QED
      BY <1>8, <1>9, <2>2, <2>4, <2>5 DEF Sound
  <1>13. Good(CountDisplayed(k)) /\ Same(k, CountDisplayed(k)) /\ Counted(CountDisplayed(k))
    BY <1>8, <1>10, <1>12, CountGood, CountCounted
  <1>14. Same(g, k)
    BY <1>8, <1>9 DEF Same
  <1>15. QED
    BY <1>3, <1>13, <1>14, SameTwice

LEMMA SetActiveIsActive ==
  ASSUME NEW g \in GuiData, NEW b \in Opened(g)
  PROVE  SetActive(g, b).active[b] # 0
  <1>1. PICK w \in [Buffer -> BOOLEAN], a \in [Buffer -> 0..2] :
          SetActive(g, b) = [g EXCEPT !.own = w, !.active = a] /\ Activated(g, b, w, a)
    BY SetActiveFacts
  <1> DEFINE k == [g EXCEPT !.own = w, !.active = a]
  <1>2. k.active = a
    BY DEF GuiData
  <1> HIDE DEF k
  <1>3. SetActive(g, b).active = a
    BY <1>1, <1>2 DEF k
  <1>4. b \in Members(g, b)
    BY DataFacts, MembersFacts
  <1>5. a[b] # 0
    BY <1>1, <1>4 DEF Activated
  <1>6. QED
    BY <1>3, <1>5

(***************************************************************************)
(* The buffer that a window switches to is active.                         *)
(***************************************************************************)
LEMMA SwitchToActive ==
  ASSUME NEW g, Good(g), NEW b \in Opened(g), NEW ws \in SUBSET Window, ws # {}
  PROVE  SwitchTo(g, ws, b).active[b] # 0
  <1> DEFINE f == [w \in Window |-> IF w \in ws THEN b ELSE g.shown[w]]
             k == [g EXCEPT !.shown = f]
             a == SetActive(k, b)
  <1>1. /\ g \in GuiData /\ b \in Buffer
        /\ g.shown \in [Window -> Buffer \union {NoBuffer}]
    BY DataFacts DEF Good
  <1>2. SwitchTo(g, ws, b) = CountDisplayed(a)
    BY <1>1 DEF SwitchTo, GuiData
  <1>3. f \in [Window -> Buffer \union {NoBuffer}]
    BY <1>1
  <1> HIDE DEF f
  <1>4. Good(k) /\ Opened(k) = Opened(g)
    BY <1>3, NewShown
  <1> HIDE DEF k
  <1>5. Good(a) /\ a.active[b] # 0
    BY <1>4, SetActiveGood, SetActiveIsActive DEF Good
  <1> HIDE DEF a
  <1>6. CountDisplayed(a).active = a.active
    BY <1>5, CountGood DEF Good
  <1>7. QED
    BY <1>2, <1>5, <1>6

(***************************************************************************)
(* A window more, or less, on the number of b.                             *)
(***************************************************************************)
Recounted(g, b, h, more) ==
  /\ Good(h) /\ Opened(h) = Opened(g) /\ h.number = g.number
  /\ h.active = g.active /\ h.zoomed = g.zoomed
  /\ \A x \in Buffer \ Opened(g) : h.displayed[x] = g.displayed[x]
  /\ \A x \in Opened(g) : g.number[x] # g.number[b] => h.displayed[x] = g.displayed[x]
  /\ \A x \in Members(g, b) :
       h.displayed[x] = IF g.displayed[x] + more < 0 THEN 0 ELSE g.displayed[x] + more

(***************************************************************************)
(* gui_buffer_add_value_num_displayed() keeps the data good.               *)
(***************************************************************************)
LEMMA AddDisplayedGood ==
  ASSUME NEW g, Good(g), NEW b \in Opened(g), NEW more \in Int
  PROVE  /\ Recounted(g, b, AddDisplayed(g, b, more), more)
         /\ AddDisplayed(g, b, more).shown = g.shown
         /\ AddDisplayed(g, b, more).auto = g.auto
  <1> DEFINE M == Members(g, b)
             d == [x \in Buffer |-> IF x \in M
                                    THEN IF g.displayed[x] + more < 0 THEN 0
                                         ELSE g.displayed[x] + more
                                    ELSE g.displayed[x]]
             h == AddDisplayed(g, b, more)
  <1>1. g \in GuiData /\ Sorted(g) /\ Sound(g)
    BY DEF Good
  <1>2. /\ g.displayed \in [Buffer -> Nat] /\ Opened(g) \subseteq Buffer /\ M \subseteq Opened(g)
        /\ \A x \in Opened(g) : x \in M <=> g.number[x] = g.number[b]
    BY <1>1, DataFacts DEF Members
  <1>3. h = [g EXCEPT !.displayed = d]
    BY <1>1 DEF AddDisplayed, GuiData
  <1> HIDE DEF M, h
  <1>4. d \in [Buffer -> Nat]
    <2>1. ASSUME NEW x \in Buffer PROVE d[x] \in Nat
      <3>1. g.displayed[x] \in Nat
        BY <1>2
      <3>2. QED
        BY <3>1
    <2>2. d = [x \in Buffer |-> d[x]]
      OBVIOUS
    <2> HIDE DEF d
    <2>3. QED
      BY <2>1, <2>2
  <1>5. /\ \A x \in M : d[x] = IF g.displayed[x] + more < 0 THEN 0 ELSE g.displayed[x] + more
        /\ \A x \in Buffer : x \notin M => d[x] = g.displayed[x]
    BY <1>2
  <1> HIDE DEF d
  <1>6. /\ h \in GuiData /\ h.list = g.list /\ h.number = g.number
        /\ h.active = g.active /\ h.zoomed = g.zoomed /\ h.mixed = g.mixed
        /\ h.own = g.own /\ h.shown = g.shown /\ h.displayed = d
        /\ h.content = g.content /\ h.auto = g.auto
    BY <1>1, <1>3, <1>4, NewDisplayed
  <1>7. Opened(h) = Opened(g)
    BY <1>6 DEF Opened
  <1>8. Sorted(h) /\ Sound(h)
    BY <1>1, <1>6, <1>7, SameGroups DEF Sorted
  <1>9. QED
    BY <1>2, <1>5, <1>6, <1>7, <1>8 DEF Recounted, Good, h, M

(***************************************************************************)
(* The counts after a window went from one number to another.              *)
(***************************************************************************)
LEMMA CountMoved ==
  ASSUME NEW g, Good(g), Counted(g), NEW b \in Opened(g), NEW h, NEW more \in {-1, 1},
         Recounted(g, b, h, more),
         \A x \in Opened(g) : g.number[x] # g.number[b] => Looking(h, x) = Looking(g, x),
         \A x \in Members(g, b) :
           Cardinality(Looking(h, x)) = Cardinality(Looking(g, x)) + more
  PROVE  Counted(h)
  <1>1. /\ Opened(h) = Opened(g) /\ h.number = g.number
        /\ h.active = g.active /\ h.zoomed = g.zoomed
    BY DEF Recounted
  <1>2. ASSUME NEW x \in Opened(g), g.displayed[x] = Cardinality(Looking(g, x))
        PROVE  h.displayed[x] = Cardinality(Looking(h, x))
    <2>1. CASE g.number[x] # g.number[b]
      BY <1>2, <2>1 DEF Recounted
    <2>2. CASE g.number[x] = g.number[b]
      <3>1. x \in Members(g, b)
        BY <2>2 DEF Members
      <3>2. Cardinality(Looking(h, x)) = g.displayed[x] + more
        BY <1>2, <3>1
      <3>3. Cardinality(Looking(h, x)) \in Nat
        BY LookingFinite
      <3>4. h.displayed[x] = IF g.displayed[x] + more < 0 THEN 0 ELSE g.displayed[x] + more
        BY <3>1 DEF Recounted
      <3>5. QED
        BY <3>2, <3>3, <3>4
    <2>3. QED
      BY <2>1, <2>2
  <1>3. QED
    BY <1>1, <1>2 DEF Counted

(***************************************************************************)
(* A window is split: the new one is on the number of the other.           *)
(***************************************************************************)
LEMMA SplitCounted ==
  ASSUME NEW g, Good(g), NEW w \in Window, NEW v \in Window,
         g.shown[w] \in Opened(g), g.shown[v] = NoBuffer
  PROVE  LET h == AddDisplayed([g EXCEPT !.shown[v] = g.shown[w]], g.shown[w], 1)
         IN  /\ Good(h) /\ Opened(h) = Opened(g) /\ h.auto = g.auto
             /\ h.shown = [g.shown EXCEPT ![v] = g.shown[w]]
             /\ \A x \in Buffer \ Opened(g) : h.displayed[x] = g.displayed[x]
             /\ Counted(g) => Counted(h)
  <1> DEFINE b == g.shown[w]
             f == [g.shown EXCEPT ![v] = b]
             k == [g EXCEPT !.shown = f]
             h == AddDisplayed(k, b, 1)
  <1>1. /\ g \in GuiData /\ b \in Buffer /\ NoBuffer \notin Buffer
        /\ g.shown \in [Window -> Buffer \union {NoBuffer}]
    BY DataFacts, BufferAssumption DEF Good
  <1>2. [g EXCEPT !.shown[v] = g.shown[w]] = k
    OBVIOUS
  <1>3. f \in [Window -> Buffer \union {NoBuffer}] /\ f[v] = b /\ \A u \in Window \ {v} : f[u] = g.shown[u]
    BY <1>1
  <1> HIDE DEF f
  <1>4. /\ Good(k) /\ Opened(k) = Opened(g) /\ k.number = g.number /\ k.auto = g.auto
        /\ k.shown = f /\ k.displayed = g.displayed /\ k.zoomed = g.zoomed
        /\ k.active = g.active
    BY <1>3, NewShown
  <1> HIDE DEF k
  <1>5. Recounted(k, b, h, 1) /\ h.shown = f /\ h.auto = k.auto
    BY <1>4, AddDisplayedGood
  <1> HIDE DEF h
  <1>6. h.number = g.number /\ b \in Opened(g)
    BY <1>4, <1>5 DEF Recounted
  <1>7. Members(k, b) = Members(g, b)
    BY <1>4 DEF Members
  <1>8. Recounted(g, b, h, 1)
    BY <1>4, <1>5, <1>7 DEF Recounted
  <1>9. ASSUME NEW x \in Opened(g), g.number[x] # g.number[b] PROVE Looking(h, x) = Looking(g, x)
    <2>1. ASSUME NEW u \in Window PROVE u \in Looking(h, x) <=> u \in Looking(g, x)
      <3>1. CASE u = v
        BY <1>3, <1>5, <1>6, <1>9, <3>1 DEF Looking
      <3>2. CASE u # v
        BY <1>3, <1>5, <1>6, <3>2 DEF Looking
      <3>3. QED
        BY <3>1, <3>2
    <2>2. Looking(h, x) \subseteq Window /\ Looking(g, x) \subseteq Window
      BY DEF Looking
    <2>3. QED
      BY <2>1, <2>2
  <1>10. ASSUME NEW x \in Members(g, b)
         PROVE  Cardinality(Looking(h, x)) = Cardinality(Looking(g, x)) + 1
    <2>1. g.number[x] = g.number[b]
      BY DEF Members
    <2>2. v \notin Looking(g, x)
      BY DEF Looking
    <2>3. ASSUME NEW u \in Window
          PROVE  u \in Looking(h, x) <=> u = v \/ u \in Looking(g, x)
      <3>1. CASE u = v
        BY <1>1, <1>3, <1>5, <1>6, <2>1, <3>1 DEF Looking
      <3>2. CASE u # v
        BY <1>3, <1>5, <1>6, <3>2 DEF Looking
      <3>3. QED
        BY <3>1, <3>2
    <2>4. Looking(h, x) \subseteq Window /\ Looking(g, x) \subseteq Window
      BY DEF Looking
    <2>5. Looking(h, x) = Looking(g, x) \union {v}
      BY <2>3, <2>4
    <2>6. QED
      BY <2>2, <2>5, LookingFinite, FS_AddElement
  <1>11. Counted(g) => Counted(h)
    <2>1. 1 \in {-1, 1}
      OBVIOUS
    <2>2. QED
      BY <1>6, <1>8, <1>9, <1>10, <2>1, CountMoved
  <1>12. /\ Good(h) /\ Opened(h) = Opened(g) /\ h.auto = g.auto /\ h.shown = f
         /\ \A x \in Buffer \ Opened(g) : h.displayed[x] = g.displayed[x]
    BY <1>4, <1>5, <1>8 DEF Recounted
  <1>13. QED
    BY <1>2, <1>11, <1>12 DEF h, f

(***************************************************************************)
(* A window is closed.                                                     *)
(***************************************************************************)
LEMMA UnsplitCounted ==
  ASSUME NEW g, Good(g), NEW w \in Window, g.shown[w] \in Opened(g)
  PROVE  LET h == [AddDisplayed(g, g.shown[w], -1) EXCEPT !.shown[w] = NoBuffer]
         IN  /\ Good(h) /\ Opened(h) = Opened(g) /\ h.auto = g.auto
             /\ h.shown = [g.shown EXCEPT ![w] = NoBuffer]
             /\ \A x \in Buffer \ Opened(g) : h.displayed[x] = g.displayed[x]
             /\ Counted(g) => Counted(h)
  <1> DEFINE b == g.shown[w]
             f == [g.shown EXCEPT ![w] = NoBuffer]
             k == AddDisplayed(g, b, -1)
             h == [k EXCEPT !.shown = f]
  <1>1. /\ g \in GuiData /\ b \in Buffer /\ NoBuffer \notin Buffer
        /\ g.shown \in [Window -> Buffer \union {NoBuffer}]
    BY DataFacts, BufferAssumption DEF Good
  <1>2. Recounted(g, b, k, -1) /\ k.shown = g.shown /\ k.auto = g.auto
    <2>1. -1 \in Int
      OBVIOUS
    <2>2. QED
      BY <2>1, AddDisplayedGood
  <1> HIDE DEF k
  <1>3. [k EXCEPT !.shown[w] = NoBuffer] = h
    <2>1. [k EXCEPT !.shown[w] = NoBuffer] = [k EXCEPT !.shown = [k.shown EXCEPT ![w] = NoBuffer]]
      OBVIOUS
    <2>2. QED
      BY <1>2, <2>1
  <1>4. /\ f \in [Window -> Buffer \union {NoBuffer}] /\ f[w] = NoBuffer
        /\ \A u \in Window \ {w} : f[u] = g.shown[u]
    BY <1>1
  <1> HIDE DEF f
  <1>5. Good(k)
    BY <1>2 DEF Recounted
  <1>6. /\ Good(h) /\ Opened(h) = Opened(k) /\ h.number = k.number /\ h.auto = k.auto
        /\ h.shown = f /\ h.displayed = k.displayed /\ h.zoomed = k.zoomed
        /\ h.active = k.active
    BY <1>4, <1>5, NewShown
  <1> HIDE DEF h
  <1>7. Recounted(g, b, h, -1) /\ h.number = g.number
    BY <1>2, <1>6 DEF Recounted
  <1>8. ASSUME NEW x \in Opened(g), g.number[x] # g.number[b] PROVE Looking(h, x) = Looking(g, x)
    <2>1. ASSUME NEW u \in Window PROVE u \in Looking(h, x) <=> u \in Looking(g, x)
      <3>1. CASE u = w
        BY <1>4, <1>6, <1>7, <1>8, <3>1 DEF Looking
      <3>2. CASE u # w
        BY <1>4, <1>6, <1>7, <3>2 DEF Looking
      <3>3. QED
        BY <3>1, <3>2
    <2>2. Looking(h, x) \subseteq Window /\ Looking(g, x) \subseteq Window
      BY DEF Looking
    <2>3. QED
      BY <2>1, <2>2
  <1>9. ASSUME NEW x \in Members(g, b)
        PROVE  Cardinality(Looking(h, x)) = Cardinality(Looking(g, x)) + -1
    <2>1. g.number[x] = g.number[b]
      BY DEF Members
    <2>2. w \in Looking(g, x)
      BY <1>1, <2>1 DEF Looking
    <2>3. ASSUME NEW u \in Window
          PROVE  u \in Looking(h, x) <=> u # w /\ u \in Looking(g, x)
      <3>1. CASE u = w
        BY <1>4, <1>6, <3>1 DEF Looking
      <3>2. CASE u # w
        BY <1>4, <1>6, <1>7, <3>2 DEF Looking
      <3>3. QED
        BY <3>1, <3>2
    <2>4. Looking(h, x) \subseteq Window /\ Looking(g, x) \subseteq Window
      BY DEF Looking
    <2>5. Looking(h, x) = Looking(g, x) \ {w}
      BY <2>3, <2>4
    <2>6. Cardinality(Looking(h, x)) = Cardinality(Looking(g, x)) - 1
      BY <2>2, <2>5, LookingFinite, FS_RemoveElement
    <2>7. Cardinality(Looking(g, x)) \in Nat
      BY LookingFinite
    <2>8. QED
      BY <2>6, <2>7
  <1>10. Counted(g) => Counted(h)
    <2>1. -1 \in {-1, 1}
      OBVIOUS
    <2>2. QED
      BY <1>7, <1>8, <1>9, <2>1, CountMoved
  <1>11. /\ Good(h) /\ Opened(h) = Opened(g) /\ h.auto = g.auto /\ h.shown = f
         /\ \A x \in Buffer \ Opened(g) : h.displayed[x] = g.displayed[x]
    BY <1>2, <1>6, <1>7 DEF Recounted
  <1>12. QED
    BY <1>3, <1>10, <1>11 DEF h, k, f

-----------------------------------------------------------------------------
(* Closing                                                                 *)

(***************************************************************************)
(* A buffer that is alone and shown by no window leaves the list.          *)
(***************************************************************************)
Gone(g, b, h) ==
  /\ Opened(h) = Opened(g) \ {b}
  /\ h.auto = g.auto /\ h.shown = g.shown
  /\ h.displayed[b] = 0
  /\ \A x \in Buffer \ Opened(g) : h.displayed[x] = g.displayed[x]

LEMMA FreedGood ==
  ASSUME NEW g, Good(g), NEW b \in Opened(g), Alone(g, b),
         ShownOpen(g), \A w \in Window : g.shown[w] # b
  PROVE  LET h == Freed([g EXCEPT !.number = Decreased(g, b)], b)
         IN  Good(h) /\ Gone(g, b, h) /\ (Counted(g) => Counted(h))
  <1> DEFINE O == Opened(g)
             P == O \ {b}
             lower == Decreased(g, b)
             k == [g EXCEPT !.number = lower]
             n == [x \in Buffer |-> IF x = b THEN 0 ELSE lower[x]]
             a == [x \in Buffer |-> IF x = b THEN 1 ELSE g.active[x]]
             z == [x \in Buffer |-> x # b /\ g.zoomed[x]]
             m == [x \in Buffer |-> x # b /\ g.mixed[x]]
             c == [x \in Buffer |-> IF x = b THEN {} ELSE g.content[x]]
             o == [x \in Buffer |-> x = b \/ g.own[x]]
             d == [x \in Buffer |-> IF x = b THEN 0 ELSE g.displayed[x]]
             r == Without(g, {b})
             h == Freed(k, b)
  <1>1. /\ g \in GuiData /\ Sorted(g) /\ Sound(g) /\ Once(g.list)
        /\ Ordered(g.list, g.number)
        /\ SharedLines(O, g.number, g.mixed, g.content, g.own)
        /\ AsNew(O, g.active, g.mixed)
    BY DEF Good, Sorted, Sound
  <1>2. /\ O \subseteq Buffer /\ b \in Buffer /\ b \in O
        /\ g.number \in [Buffer -> Nat] /\ g.number \in [Buffer -> Int]
        /\ g.active \in [Buffer -> 0..2] /\ g.zoomed \in [Buffer -> BOOLEAN]
        /\ g.mixed \in [Buffer -> BOOLEAN] /\ g.own \in [Buffer -> BOOLEAN]
        /\ g.content \in [Buffer -> SUBSET Buffer] /\ g.displayed \in [Buffer -> Nat]
    BY <1>1, DataFacts
  <1>3. Members(g, b) = {b} /\ \A x \in P : g.number[x] # g.number[b]
    BY <1>2 DEF Alone, Members
  <1>4. Lowered(g, b, lower)
    <2>1. Following(g, b) = Above(g, b)
      BY <1>1, <1>3, FollowingAlone
    <2>2. QED
      BY <1>1, <2>1, LoweredFacts
  <1> HIDE DEF lower
  <1>5. /\ lower \in [Buffer -> Nat]
        /\ \A x \in P : lower[x] >= 1
        /\ \A x, y \in P : lower[x] <= lower[y] <=> g.number[x] <= g.number[y]
        /\ g.auto => Gapless(P, lower)
    BY <1>3, <1>4 DEF Lowered
  <1>6. h = [g EXCEPT !.list = r, !.number = n, !.active = a, !.zoomed = z, !.mixed = m,
                      !.content = c, !.own = o, !.displayed = d]
    <2>1. /\ k.list = g.list /\ k.number = lower /\ k.active = g.active /\ k.zoomed = g.zoomed
          /\ k.mixed = g.mixed /\ k.content = g.content /\ k.own = g.own
          /\ k.displayed = g.displayed
      BY <1>1 DEF GuiData
    <2>2. Without(k, {b}) = r
      BY <2>1 DEF Without, Opened
    <2> HIDE DEF r, k
    <2>3. h = [k EXCEPT !.list = r, !.number = n, !.active = a, !.zoomed = z, !.mixed = m,
                        !.content = c, !.own = o, !.displayed = d]
      <3>1. h = [k EXCEPT !.list = Without(k, {b}),
                          !.number = [x \in Buffer |-> IF x = b THEN 0 ELSE k.number[x]],
                          !.active = [x \in Buffer |-> IF x = b THEN 1 ELSE k.active[x]],
                          !.zoomed = [x \in Buffer |-> x # b /\ k.zoomed[x]],
                          !.mixed = [x \in Buffer |-> x # b /\ k.mixed[x]],
                          !.content = [x \in Buffer |-> IF x = b THEN {} ELSE k.content[x]],
                          !.own = [x \in Buffer |-> x = b \/ k.own[x]],
                          !.displayed = [x \in Buffer |-> IF x = b THEN 0 ELSE k.displayed[x]]]
        BY DEF Freed
      <3>2. /\ [x \in Buffer |-> IF x = b THEN 0 ELSE k.number[x]] = n
            /\ [x \in Buffer |-> IF x = b THEN 1 ELSE k.active[x]] = a
            /\ [x \in Buffer |-> x # b /\ k.zoomed[x]] = z
            /\ [x \in Buffer |-> x # b /\ k.mixed[x]] = m
            /\ [x \in Buffer |-> IF x = b THEN {} ELSE k.content[x]] = c
            /\ [x \in Buffer |-> x = b \/ k.own[x]] = o
            /\ [x \in Buffer |-> IF x = b THEN 0 ELSE k.displayed[x]] = d
        BY <2>1
      <3> HIDE DEF h, n, a, z, m, c, o, d
      <3>3. QED
        BY <2>2, <3>1, <3>2, Zenon
    <2> HIDE DEF h, n, a, z, m, c, o, d
    <2>4. [k EXCEPT !.list = r, !.number = n, !.active = a, !.zoomed = z, !.mixed = m,
                    !.content = c, !.own = o, !.displayed = d]
          = [g EXCEPT !.list = r, !.number = n, !.active = a, !.zoomed = z, !.mixed = m,
                      !.content = c, !.own = o, !.displayed = d]
      BY <1>1 DEF GuiData, k
    <2>5. QED
      BY <2>3, <2>4
  <1>7. r \in Seq(Buffer) /\ Once(r) /\ ToSet(r) = P /\ Ordered(r, g.number)
    BY <1>1, <1>2, WithoutFacts
  <1> HIDE DEF r, k, h
  <1>8. /\ n \in [Buffer -> Nat] /\ \A x \in P : n[x] = lower[x]
    <2>1. \A x \in Buffer : n[x] \in Nat
      BY <1>5
    <2>2. n = [x \in Buffer |-> n[x]] /\ \A x \in P : n[x] = lower[x]
      BY <1>2
    <2> HIDE DEF n
    <2>3. QED
      BY <2>1, <2>2
  <1>9. a \in [Buffer -> 0..2] /\ a[b] = 1 /\ \A x \in Buffer \ {b} : a[x] = g.active[x]
    BY <1>2
  <1>10. z \in [Buffer -> BOOLEAN] /\ \A x \in Buffer \ {b} : z[x] = g.zoomed[x]
    BY <1>2
  <1>11. m \in [Buffer -> BOOLEAN] /\ ~ m[b] /\ \A x \in Buffer \ {b} : m[x] = g.mixed[x]
    BY <1>2
  <1>12. /\ c \in [Buffer -> SUBSET Buffer] /\ c[b] = {}
         /\ \A x \in Buffer \ {b} : c[x] = g.content[x]
    <2>1. \A x \in Buffer : c[x] \in SUBSET Buffer
      BY <1>2
    <2>2. c = [x \in Buffer |-> c[x]] /\ c[b] = {} /\ \A x \in Buffer \ {b} : c[x] = g.content[x]
      BY <1>2
    <2> HIDE DEF c
    <2>3. QED
      BY <2>1, <2>2
  <1>13. o \in [Buffer -> BOOLEAN] /\ o[b] /\ \A x \in Buffer \ {b} : o[x] = g.own[x]
    BY <1>2
  <1>14. d \in [Buffer -> Nat] /\ d[b] = 0 /\ \A x \in Buffer \ {b} : d[x] = g.displayed[x]
    <2>1. \A x \in Buffer : d[x] \in Nat
      BY <1>2
    <2>2. d = [x \in Buffer |-> d[x]] /\ d[b] = 0 /\ \A x \in Buffer \ {b} : d[x] = g.displayed[x]
      BY <1>2
    <2> HIDE DEF d
    <2>3. QED
      BY <2>1, <2>2
  <1> HIDE DEF n, a, z, m, c, o, d
  <1>15. /\ h \in GuiData /\ h.list = r /\ h.number = n /\ h.active = a /\ h.zoomed = z
         /\ h.mixed = m /\ h.content = c /\ h.own = o /\ h.displayed = d
         /\ h.shown = g.shown /\ h.auto = g.auto
    BY <1>1, <1>6, <1>7, <1>8, <1>9, <1>10, <1>11, <1>12, <1>13, <1>14 DEF GuiData
  <1>16. Opened(h) = P
    BY <1>7, <1>15 DEF Opened
  <1>17. /\ \A x \in P : n[x] >= 1
         /\ \A x, y \in P : n[x] <= n[y] <=> g.number[x] <= g.number[y]
         /\ g.auto => Gapless(P, n)
    BY <1>5, <1>8 DEF Gapless
  <1>18. SameClasses(P, g.number, n)
    <2>1. \A x \in P : g.number[x] \in Nat /\ n[x] \in Nat
      BY <1>2, <1>8
    <2>2. QED
      BY <1>17, <2>1, EqualByOrder
  <1>19. Sorted(h)
    <2>1. \A x, y \in ToSet(r) : g.number[x] <= g.number[y] => n[x] <= n[y]
      BY <1>7, <1>17
    <2>2. n \in [Buffer -> Int]
      BY <1>8
    <2>3. Ordered(r, n)
      BY <1>2, <1>7, <2>1, <2>2, OrderedAlike
    <2>4. QED
      BY <1>7, <1>15, <1>16, <1>17, <2>3 DEF Sorted
  <1>20. \A x, y \in P : n[x] = n[y] <=> g.number[x] = g.number[y]
    BY <1>18 DEF SameClasses
  <1>21. \A x \in P, y \in O : g.number[y] = g.number[x] => y \in P
    BY <1>3
  <1>22. P \subseteq O /\ P \subseteq Buffer \ {b}
    BY <1>2
  <1> HIDE DEF P, O
  <1>23. Sound(h)
    <2>1. ASSUME NEW x \in P PROVE OneIn(P, n, a, x)
      <3>1. OneIn(O, g.number, g.active, x)
        BY <1>1, <1>22 DEF Sound, O
      <3>2. PICK y \in O : g.number[y] = g.number[x] /\ g.active[y] # 0
        BY <3>1 DEF OneIn
      <3>3. y \in P /\ n[y] = n[x] /\ a[y] # 0
        BY <1>9, <1>20, <1>21, <1>22, <3>2
      <3>4. ASSUME NEW u \in P, NEW v \in P, n[u] = n[x], n[v] = n[x], a[u] # 0, a[v] # 0
            PROVE  u = v
        <4>1. /\ u \in O /\ v \in O /\ g.number[u] = g.number[x] /\ g.number[v] = g.number[x]
              /\ g.active[u] # 0 /\ g.active[v] # 0
          BY <1>9, <1>20, <1>22, <3>4
        <4>2. QED
          BY <3>1, <4>1 DEF OneIn
      <3>5. QED
        BY <3>3, <3>4 DEF OneIn
    <2>2. ASSUME NEW x \in P PROVE m[x] <=> \E y \in P : y # x /\ n[y] = n[x]
      <3>1. g.mixed[x] <=> \E y \in O : y # x /\ g.number[y] = g.number[x]
        BY <1>1, <1>22 DEF SharedLines
      <3>2. m[x] = g.mixed[x]
        BY <1>11, <1>22
      <3>3. (\E y \in O : y # x /\ g.number[y] = g.number[x])
              <=> \E y \in P : y # x /\ n[y] = n[x]
        BY <1>20, <1>21, <1>22
      <3>4. QED
        BY <3>1, <3>2, <3>3
    <2>3. ASSUME NEW x \in P, NEW y \in P, n[x] = n[y] PROVE c[x] = c[y]
      <3>1. g.content[x] = g.content[y]
        BY <1>1, <1>20, <1>22, <2>3 DEF SharedLines
      <3>2. QED
        BY <1>12, <1>22, <3>1
    <2>4. ASSUME NEW x \in P, NEW y \in c[x] PROVE y \in P /\ n[y] = n[x]
      <3>1. y \in g.content[x]
        BY <1>12, <1>22, <2>4
      <3>2. y \in O /\ g.number[y] = g.number[x]
        BY <1>1, <1>22, <3>1 DEF SharedLines
      <3>3. QED
        BY <1>20, <1>21, <3>2
    <2>5. ASSUME NEW x \in Buffer PROVE (o[x] \/ m[x]) /\ (m[x] \/ c[x] = {})
      <3>1. (g.own[x] \/ g.mixed[x]) /\ (g.mixed[x] \/ g.content[x] = {})
        BY <1>1 DEF SharedLines
      <3>2. QED
        BY <1>11, <1>12, <1>13, <3>1
    <2>6. SharedLines(P, n, m, c, o)
      BY <2>2, <2>3, <2>4, <2>5 DEF SharedLines
    <2>7. ASSUME NEW x \in Buffer \ P PROVE a[x] # 0 /\ ~ m[x]
      <3>1. x = b \/ x \notin O
        BY DEF P
      <3>2. QED
        BY <1>1, <1>9, <1>11, <3>1 DEF AsNew
    <2>8. AsNew(P, a, m)
      BY <2>7 DEF AsNew
    <2>9. QED
      BY <1>15, <1>16, <2>1, <2>6, <2>8 DEF Sound
  <1>24. Gone(g, b, h)
    <2>1. \A x \in Buffer \ O : h.displayed[x] = g.displayed[x]
      BY <1>2, <1>14, <1>15
    <2>2. QED
      BY <1>14, <1>15, <1>16, <2>1 DEF Gone, P, O
  <1>25. ASSUME Counted(g) PROVE Counted(h)
    <2>1. \A w \in Window : g.shown[w] # NoBuffer => g.shown[w] \in P
      BY DEF ShownOpen, P, O
    <2>2. ASSUME NEW x \in P PROVE Looking(h, x) = Looking(g, x)
      <3>1. \A w \in Window : g.shown[w] # NoBuffer =>
              (n[g.shown[w]] = n[x] <=> g.number[g.shown[w]] = g.number[x])
        BY <1>20, <2>1
      <3>2. QED
        BY <1>15, <3>1 DEF Looking
    <2>3. ASSUME NEW x \in P
          PROVE  \/ h.displayed[x] = Cardinality(Looking(h, x))
                 \/ \E y \in P : h.number[y] = h.number[x] /\ (h.zoomed[y] \/ h.active[y] = 2)
      <3>1. \/ g.displayed[x] = Cardinality(Looking(g, x))
            \/ \E y \in O : g.number[y] = g.number[x] /\ (g.zoomed[y] \/ g.active[y] = 2)
        BY <1>22, <1>25 DEF Counted, O
      <3>2. CASE g.displayed[x] = Cardinality(Looking(g, x))
        BY <1>14, <1>15, <1>22, <2>2, <3>2
      <3>3. CASE \E y \in O : g.number[y] = g.number[x] /\ (g.zoomed[y] \/ g.active[y] = 2)
        <4>1. PICK y \in O : g.number[y] = g.number[x] /\ (g.zoomed[y] \/ g.active[y] = 2)
          BY <3>3
        <4>2. y \in P /\ n[y] = n[x]
          BY <1>20, <1>21, <4>1
        <4>3. z[y] = g.zoomed[y] /\ a[y] = g.active[y]
          BY <1>9, <1>10, <1>22, <4>2
        <4>4. QED
          BY <1>15, <4>1, <4>2, <4>3
      <3>4. QED
        BY <3>1, <3>2, <3>3
    <2>4. QED
      BY <1>16, <2>3 DEF Counted
  <1>26. QED
    BY <1>15, <1>19, <1>23, <1>24, <1>25 DEF Good, h, k, lower

(***************************************************************************)
(* gui_buffer_close()                                                      *)
(***************************************************************************)
LEMMA ClosedGood ==
  ASSUME NEW g, Good(g), ShownOpen(g), NEW b \in Opened(g),
         NEW other \in Opened(g), other # b,
         NEW visited \in {NoBuffer} \union (Opened(g) \ {b})
  PROVE  LET h == Closed(g, b, visited)
         IN  /\ Good(h) /\ Opened(h) = Opened(g) \ {b} /\ ShownOpen(h)
             /\ h.auto = g.auto
             /\ h.displayed[b] = 0
             /\ \A x \in Buffer \ Opened(g) : h.displayed[x] = g.displayed[x]
             /\ Counted(g) => Counted(h)
  <1> DEFINE O == Opened(g)
             back == Successor(g, b)
             end == g.number[Last(g.list)] + 1
             alone == Unmerge(g, b, end)
             s == alone.list
             i == FirstIn(s, {b})
             next == IF back # NoBuffer THEN back
                     ELSE IF visited # NoBuffer THEN visited
                     ELSE IF i > 1 THEN s[i - 1] ELSE Last(s)
             ws == {w \in Window : alone.shown[w] = b}
             left == SwitchTo(alone, ws, next)
             h == Freed([left EXCEPT !.number = Decreased(left, b)], b)
  <1>1. Closed(g, b, visited) = h
    BY DEF Closed
  <1>2. g \in GuiData /\ Once(g.list) /\ O \subseteq Buffer
    BY DataFacts DEF Good, Sorted
  <1>3. back = NoBuffer \/ back \in O \ {b}
    <2>1. back = NoBuffer \/ back \in Members(g, b) \ {b}
      BY <1>2, SuccessorFacts
    <2>2. QED
      BY <2>1 DEF Members
  <1>4. end \in Nat
    <2>1. Last(g.list) \in Opened(g)
      BY EndsFacts
    <2>2. g.number[Last(g.list)] \in Nat
      BY <1>2, <2>1, DataFacts
    <2>3. QED
      BY <2>2
  <1> HIDE DEF back, end
  <1>5. /\ Good(alone) /\ Same(g, alone) /\ Alone(alone, b)
        /\ Counted(g) => Counted(alone)
    BY <1>4, UnmergeGood
  <1> HIDE DEF alone
  <1>6. s \in Seq(Buffer) /\ Once(s) /\ Len(s) \in Nat /\ ToSet(s) = O
    <2>1. alone \in GuiData /\ Once(s) /\ Opened(alone) = O
      BY <1>5 DEF Good, Sorted, Same
    <2>2. s \in Seq(Buffer) /\ Opened(alone) = ToSet(s)
      BY <2>1, DataFacts
    <2>3. QED
      BY <2>1, <2>2
  <1>7. next \in O \ {b}
    <2> HIDE DEF s
    <2>1. /\ \A j \in 1 .. Len(s) : s[j] \in O
          /\ \A j, k \in 1 .. Len(s) : s[j] = s[k] => j = k
      BY <1>6, SeqFacts DEF Once
    <2>2. i \in 1 .. Len(s) /\ s[i] = b
      <3>1. ToSet(s) \intersect {b} # {}
        BY <1>6
      <3>2. i \in 0 .. Len(s) /\ i # 0 /\ s[i] \in {b}
        BY <1>6, <3>1, FirstInFacts
      <3>3. QED
        BY <1>6, <3>2
    <2>3. PICK j \in 1 .. Len(s) : s[j] = other
      BY <1>6, SeqFacts
    <2> HIDE DEF i
    <2>4. i > 1 => s[i - 1] \in O \ {b}
      <3>1. i > 1 => i - 1 \in 1 .. Len(s) /\ i - 1 # i
        BY <1>6, <2>2
      <3>2. QED
        BY <2>1, <2>2, <3>1
    <2>5. ~(i > 1) => Last(s) \in O \ {b}
      <3>1. ASSUME ~(i > 1) PROVE Len(s) \in 1 .. Len(s) /\ Len(s) # i
        <4>1. i # j
          BY <2>2, <2>3
        <4>2. QED
          BY <1>6, <2>2, <3>1, <4>1
      <3>2. Last(s) = s[Len(s)]
        BY DEF Last
      <3>3. QED
        BY <2>1, <2>2, <3>1, <3>2
    <2>6. QED
      BY <1>3, <2>4, <2>5
  <1> HIDE DEF s, i, next
  <1>8. Opened(alone) = O /\ alone.shown = g.shown /\ next \in Opened(alone) /\ ws \in SUBSET Window
    BY <1>5, <1>7 DEF Same
  <1>9. /\ Good(left) /\ Switched(alone, left, ws, next)
        /\ Counted(alone) => Counted(left)
    BY <1>5, <1>8, SwitchToGood
  <1> HIDE DEF left
  <1>10. Opened(left) = O /\ Alone(left, b) /\ left.auto = g.auto
    BY <1>5, <1>8, <1>9 DEF Switched, Alone, Same
  <1>11. \A w \in Window : left.shown[w] = IF g.shown[w] = b THEN next ELSE g.shown[w]
    <2>1. left.shown = [w \in Window |-> IF w \in ws THEN next ELSE alone.shown[w]]
      BY <1>9 DEF Switched
    <2>2. QED
      BY <1>8, <2>1
  <1>12. ShownOpen(left) /\ \A w \in Window : left.shown[w] # b
    <2>1. \A w \in Window : left.shown[w] = NoBuffer \/ left.shown[w] \in O
      BY <1>7, <1>11 DEF ShownOpen
    <2>2. \A w \in Window : left.shown[w] # b
      BY <1>7, <1>11
    <2>3. QED
      BY <1>10, <2>1, <2>2 DEF ShownOpen
  <1>13. Good(h) /\ Gone(left, b, h) /\ (Counted(left) => Counted(h))
    BY <1>9, <1>10, <1>12, FreedGood
  <1> HIDE DEF h
  <1>14. Opened(h) = O \ {b} /\ h.auto = g.auto /\ h.displayed[b] = 0 /\ h.shown = left.shown
    BY <1>10, <1>13 DEF Gone
  <1>15. ShownOpen(h)
    BY <1>10, <1>12, <1>14 DEF ShownOpen
  <1>16. \A x \in Buffer \ O : h.displayed[x] = g.displayed[x]
    BY <1>5, <1>8, <1>9, <1>10, <1>13 DEF Same, Switched, Gone
  <1>17. QED
    BY <1>1, <1>5, <1>9, <1>13, <1>14, <1>15, <1>16

-----------------------------------------------------------------------------
(* The invariant and the steps                                             *)

(***************************************************************************)
(* The invariant of the data, and what every command does with it.         *)
(***************************************************************************)
Safe(g) ==
  /\ Good(g)
  /\ Core \in Opened(g)
  /\ ShownOpen(g)
  /\ \A x \in Buffer \ Opened(g) : g.displayed[x] = 0

StaysSafe(g, h) == Safe(h) /\ (Counted(g) => Counted(h))

(***************************************************************************)
(* What keeps the data good and the same buffers keeps them safe.          *)
(***************************************************************************)
LEMMA SafeSame ==
  ASSUME NEW g, Safe(g), NEW h, Good(h), Same(g, h), Counted(g) => Counted(h)
  PROVE  StaysSafe(g, h)
  <1>1. /\ Opened(h) = Opened(g) /\ h.shown = g.shown
        /\ \A x \in Buffer \ Opened(g) : h.displayed[x] = g.displayed[x]
    BY DEF Same
  <1>2. QED
    BY <1>1 DEF Safe, StaysSafe, ShownOpen

(***************************************************************************)
(* Which buffers are hidden is of no matter.                               *)
(***************************************************************************)
LEMMA NewHidden ==
  ASSUME NEW g, Safe(g), NEW S \in SUBSET Buffer
  PROVE  LET h == [g EXCEPT !.hidden = S]
         IN  /\ StaysSafe(g, h) /\ h.list = g.list /\ h.number = g.number /\ h.shown = g.shown
             /\ Opened(h) = Opened(g)
  <1> DEFINE h == [g EXCEPT !.hidden = S]
  <1>1. g \in GuiData /\ Sorted(g) /\ Sound(g)
    BY DEF Safe, Good
  <1>2. /\ h \in GuiData /\ h.list = g.list /\ h.number = g.number /\ h.auto = g.auto
        /\ h.shown = g.shown /\ h.displayed = g.displayed
        /\ h.active = g.active /\ h.zoomed = g.zoomed
        /\ h.mixed = g.mixed /\ h.content = g.content /\ h.own = g.own
    BY <1>1 DEF GuiData
  <1> HIDE DEF h
  <1>3. Opened(h) = Opened(g)
    BY <1>2 DEF Opened
  <1>4. Sorted(h)
    BY <1>1, <1>2, <1>3 DEF Sorted
  <1>5. Sound(h)
    BY <1>1, <1>2, <1>3, SameGroups
  <1>6. \A b : Looking(h, b) = Looking(g, b)
    BY <1>2 DEF Looking
  <1>7. Counted(g) => Counted(h)
    BY <1>2, <1>3, <1>6 DEF Counted
  <1>8. Safe(h)
    BY <1>2, <1>3, <1>4, <1>5 DEF Safe, Good, ShownOpen
  <1>9. QED
    BY <1>2, <1>3, <1>7, <1>8 DEF StaysSafe, h

(***************************************************************************)
(* A command keeps the data safe when its function does, as it ends with   *)
(* no buffer found hidden.                                                 *)
(***************************************************************************)
LEMMA BecomesSafe ==
  ASSUME NEW g, StaysSafe(gui, g), Becomes(g)
  PROVE  Safe(gui') /\ (Counted(gui) => Counted(gui)')
  <1>1. gui' = [g EXCEPT !.hidden = {}] /\ Safe(g) /\ (Counted(gui) => Counted(g))
    BY DEF Becomes, StaysSafe
  <1>2. StaysSafe(g, [g EXCEPT !.hidden = {}])
    BY <1>1, NewHidden
  <1>3. StaysSafe(g, gui')
    BY <1>1, <1>2
  <1>4. Safe(gui') /\ (Counted(gui) => Counted(gui'))
    BY <1>1, <1>3 DEF StaysSafe
  <1>5. Counted(gui)' <=> Counted(gui')
    BY DEF Counted, Opened, Looking
  <1>6. QED
    BY <1>4, <1>5

(***************************************************************************)
(* So does it when it finds some hidden.                                   *)
(***************************************************************************)
LEMMA FoundSafe ==
  ASSUME Safe(gui), NEW g \in Found
  PROVE  /\ StaysSafe(gui, g) /\ g.list = gui.list /\ g.number = gui.number /\ g.shown = gui.shown
         /\ Opened(g) = Opened(gui)
  <1>1. PICK S \in SUBSET Buffer : g = [gui EXCEPT !.hidden = S]
    BY BufferAssumption DEF Found
  <1>2. QED
    BY <1>1, NewHidden

LEMMA StaysSafeTwice ==
  ASSUME NEW g, NEW h, NEW k, StaysSafe(g, h), StaysSafe(h, k)
  PROVE  StaysSafe(g, k)
  BY DEF StaysSafe

(***************************************************************************)
(* At the start: the core buffer, alone, with number 1, in one window.     *)
(***************************************************************************)
LEMMA InitSafe ==
  ASSUME Init
  PROVE  Safe(gui)
  <1>1. PICK w \in Window, auto \in BOOLEAN :
          gui = [list |-> <<Core>>,
                 number |-> [b \in Buffer |-> IF b = Core THEN 1 ELSE 0],
                 active |-> [b \in Buffer |-> 1], zoomed |-> [b \in Buffer |-> FALSE],
                 mixed |-> [b \in Buffer |-> FALSE],
                 content |-> [b \in Buffer |-> {}], own |-> [b \in Buffer |-> TRUE],
                 shown |-> [v \in Window |-> IF v = w THEN Core ELSE NoBuffer],
                 displayed |-> [b \in Buffer |-> IF b = Core THEN 1 ELSE 0],
                 auto |-> auto, hidden |-> {}]
    BY DEF Init
  <1> DEFINE l == <<Core>>
             n == [b \in Buffer |-> IF b = Core THEN 1 ELSE 0]
             f == [v \in Window |-> IF v = w THEN Core ELSE NoBuffer]
             a == [b \in Buffer |-> 1]
             no == [b \in Buffer |-> FALSE]
             yes == [b \in Buffer |-> TRUE]
             none == [b \in Buffer |-> {}]
  <1>2. Core \in Buffer /\ NoBuffer \notin Buffer
    BY BufferAssumption
  <1>3. /\ l \in Seq(Buffer) /\ Len(l) = 1 /\ l[1] = Core
    BY <1>2
  <1>4. ToSet(l) = {Core} /\ Once(l)
    <2> HIDE DEF l
    <2>1. ToSet(l) = {l[i] : i \in 1 .. Len(l)}
      BY <1>3, SeqFacts
    <2>2. QED
      BY <1>3, <2>1 DEF Once
  <1>5. /\ n \in [Buffer -> Nat] /\ n[Core] = 1 /\ \A x \in Buffer \ {Core} : n[x] = 0
    BY <1>2
  <1>6. f \in [Window -> Buffer \union {NoBuffer}] /\ \A v \in Window : f[v] \in {Core, NoBuffer}
    BY <1>2
  <1>7. a \in [Buffer -> 0..2] /\ \A x \in Buffer : a[x] = 1
    OBVIOUS
  <1>8. /\ no \in [Buffer -> BOOLEAN] /\ \A x \in Buffer : ~ no[x]
        /\ yes \in [Buffer -> BOOLEAN] /\ \A x \in Buffer : yes[x]
        /\ none \in [Buffer -> SUBSET Buffer] /\ \A x \in Buffer : none[x] = {}
    OBVIOUS
  <1>9. gui = [list |-> l, number |-> n, active |-> a, zoomed |-> no, mixed |-> no,
               content |-> none, own |-> yes, shown |-> f, displayed |-> n,
               auto |-> auto, hidden |-> {}]
    BY <1>1
  <1> HIDE DEF l, n, f, a, no, yes, none
  <1>10. /\ gui \in GuiData /\ gui.list = l /\ gui.number = n /\ gui.active = a
         /\ gui.mixed = no /\ gui.content = none /\ gui.own = yes /\ gui.shown = f
         /\ gui.displayed = n
    BY <1>3, <1>5, <1>6, <1>7, <1>8, <1>9 DEF GuiData
  <1>11. Opened(gui) = {Core}
    BY <1>4, <1>10 DEF Opened
  <1>12. Sorted(gui)
    <2>1. Ordered(l, n)
      BY <1>3, <1>5 DEF Ordered
    <2>2. Gapless({Core}, n)
      BY <1>5 DEF Gapless
    <2>3. QED
      BY <1>4, <1>5, <1>10, <1>11, <2>1, <2>2 DEF Sorted
  <1>13. Sound(gui)
    <2>1. OneIn({Core}, n, a, Core)
      BY <1>2, <1>7 DEF OneIn
    <2>2. SharedLines({Core}, n, no, none, yes)
      BY <1>2, <1>8 DEF SharedLines
    <2>3. AsNew({Core}, a, no)
      BY <1>7, <1>8 DEF AsNew
    <2>4. QED
      BY <1>10, <1>11, <2>1, <2>2, <2>3 DEF Sound
  <1>14. ShownOpen(gui)
    BY <1>6, <1>10, <1>11 DEF ShownOpen
  <1>15. QED
    BY <1>5, <1>10, <1>11, <1>12, <1>13, <1>14 DEF Safe, Good

(***************************************************************************)
(* The actions                                                             *)
(***************************************************************************)
SafeStep == \E h : Becomes(h) /\ StaysSafe(gui, h)

LEMMA OpenSafe ==
  ASSUME Safe(gui), NEW b \in Buffer, Open(b)
  PROVE  SafeStep
  <1>1. b \in Buffer \ Opened(gui)
    BY DEF Open
  <1>2. PICK p \in BOOLEAN : Becomes(Insert(gui, b, p))
    BY DEF Open
  <1> DEFINE h == Insert(gui, b, p)
  <1>3. /\ Good(h) /\ AddedTo(gui, h, b)
        /\ (ShownOpen(gui) /\ Counted(gui) /\ gui.displayed[b] = 0) => Counted(h)
    BY <1>1, InsertGood DEF Safe
  <1> HIDE DEF h
  <1>4. gui.displayed[b] = 0 /\ ShownOpen(gui)
    BY <1>1 DEF Safe
  <1>5. Safe(h)
    <2>1. /\ Opened(h) = Opened(gui) \union {b} /\ h.shown = gui.shown
          /\ \A x \in Buffer \ Opened(h) : h.displayed[x] = gui.displayed[x]
      BY <1>3 DEF AddedTo
    <2>2. \A x \in Buffer \ Opened(h) : h.displayed[x] = 0
      BY <2>1 DEF Safe
    <2>3. ShownOpen(h)
      BY <1>4, <2>1 DEF ShownOpen
    <2>4. QED
      BY <1>3, <2>1, <2>2, <2>3 DEF Safe
  <1>6. QED
    BY <1>2, <1>3, <1>4, <1>5 DEF SafeStep, StaysSafe, h

LEMMA CloseSafe ==
  ASSUME Safe(gui), NEW b \in Buffer, Close(b)
  PROVE  SafeStep
  <1>1. b \in Opened(gui) /\ b # Core
    BY DEF Close
  <1>2. PICK g \in Found,
             visited \in {NoBuffer} \union {x \in Opened(gui) \ {b} : ~ Merged(gui, b)} :
          Becomes(Closed(g, b, visited))
    BY DEF Close
  <1>3. StaysSafe(gui, g) /\ Opened(g) = Opened(gui)
    BY FoundSafe
  <1>4. Safe(g)
    BY <1>3 DEF StaysSafe
  <1>5. b \in Opened(g) /\ Core \in Opened(g) /\ visited \in {NoBuffer} \union (Opened(g) \ {b})
    BY <1>1, <1>2, <1>3, <1>4 DEF Safe
  <1> DEFINE h == Closed(g, b, visited)
  <1>6. /\ Good(h) /\ Opened(h) = Opened(g) \ {b} /\ ShownOpen(h)
        /\ h.displayed[b] = 0
        /\ \A x \in Buffer \ Opened(g) : h.displayed[x] = g.displayed[x]
        /\ Counted(g) => Counted(h)
    BY <1>1, <1>4, <1>5, ClosedGood DEF Safe
  <1> HIDE DEF h
  <1>7. \A x \in Buffer \ Opened(h) : h.displayed[x] = 0
    BY <1>4, <1>6 DEF Safe
  <1>8. StaysSafe(g, h)
    BY <1>1, <1>5, <1>6, <1>7 DEF StaysSafe, Safe
  <1>9. QED
    BY <1>2, <1>3, <1>8, StaysSafeTwice DEF SafeStep, h

LEMMA NumbersSafe ==
  ASSUME Safe(gui)
  PROVE  /\ \A b \in Buffer : Moves(b) => SafeStep
         /\ \A b, c \in Buffer : Swaps(b, c) => SafeStep
         /\ Renumbers => SafeStep
  <1>1. Good(gui) /\ ShownOpen(gui) /\ gui \in GuiData
    BY DEF Safe, Good
  <1>2. ASSUME NEW b \in Buffer, Moves(b) PROVE SafeStep
    <2>1. PICK n \in 1 .. MaxNumber \ {gui.number[b]} : Becomes(Move(gui, b, n))
      BY <1>2 DEF Moves
    <2>2. b \in Opened(gui)
      BY <1>2 DEF Moves
    <2>3. n \in Nat /\ n >= 1
      BY BufferAssumption
    <2>4. StaysSafe(gui, Move(gui, b, n))
      BY <1>1, <2>2, <2>3, MoveGood, SafeSame
    <2>5. QED
      BY <2>1, <2>4 DEF SafeStep
  <1>3. ASSUME NEW b \in Buffer, NEW c \in Buffer, Swaps(b, c) PROVE SafeStep
    <2>1. b \in Opened(gui) /\ c \in Opened(gui) /\ Becomes(Swap(gui, b, c))
      BY <1>3 DEF Swaps
    <2>2. StaysSafe(gui, Swap(gui, b, c))
      BY <1>1, <2>1, SwapGood, SafeSame
    <2>3. QED
      BY <2>1, <2>2 DEF SafeStep
  <1>4. ASSUME Renumbers PROVE SafeStep
    <2>1. PICK n1 \in {gui.number[b] : b \in Opened(gui)},
               n2 \in {gui.number[b] : b \in Opened(gui)}, start \in 0 .. MaxNumber :
            Becomes(Renumber(gui, n1, n2, start))
      BY <1>4 DEF Renumbers
    <2>2. \A b \in Opened(gui) : gui.number[b] \in Nat
      BY <1>1, DataFacts
    <2>3. n1 \in Nat /\ n2 \in Nat /\ start \in Nat /\ ~ gui.auto
      BY <1>4, <2>2, BufferAssumption DEF Renumbers
    <2>4. StaysSafe(gui, Renumber(gui, n1, n2, start))
      BY <1>1, <2>3, RenumberGood, SafeSame
    <2>5. QED
      BY <2>1, <2>4 DEF SafeStep
  <1>5. QED
    BY <1>2, <1>3, <1>4

LEMMA GroupsSafe ==
  ASSUME Safe(gui)
  PROVE  /\ \A b, c \in Buffer : Merges(b, c) => SafeStep
         /\ \A b \in Buffer : Unmerges(b) => SafeStep
         /\ UnmergesAll => SafeStep
  <1>1. Good(gui)
    BY DEF Safe
  <1>2. ASSUME NEW b \in Buffer, NEW c \in Buffer, Merges(b, c) PROVE SafeStep
    <2>1. b \in Opened(gui) /\ c \in Opened(gui) /\ Becomes(Merge(gui, b, c))
      BY <1>2 DEF Merges
    <2>2. StaysSafe(gui, Merge(gui, b, c))
      BY <1>1, <2>1, MergeGood, SafeSame
    <2>3. QED
      BY <2>1, <2>2 DEF SafeStep
  <1>3. ASSUME NEW b \in Buffer, Unmerges(b) PROVE SafeStep
    <2>1. PICK g \in Found, n \in 0 .. MaxNumber : Becomes(Unmerge(g, b, n))
      BY <1>3 DEF Unmerges
    <2>2. StaysSafe(gui, g) /\ Safe(g) /\ Good(g) /\ b \in Opened(g) /\ n \in Nat
      BY <1>3, FoundSafe, BufferAssumption DEF Unmerges, StaysSafe, Safe
    <2>3. StaysSafe(g, Unmerge(g, b, n))
      BY <2>2, UnmergeGood, SafeSame
    <2>4. QED
      BY <2>1, <2>2, <2>3, StaysSafeTwice DEF SafeStep
  <1>4. ASSUME UnmergesAll PROVE SafeStep
    <2>1. StaysSafe(gui, UnmergeAll(gui))
      BY <1>1, UnmergeAllGood, SafeSame
    <2>2. QED
      BY <1>4, <2>1 DEF SafeStep, UnmergesAll
  <1>5. QED
    BY <1>2, <1>3, <1>4

LEMMA AutoSafe ==
  ASSUME Safe(gui), NEW value \in BOOLEAN, SetAutoRenumber(value)
  PROVE  SafeStep
  <1>1. Good(gui) /\ ShownOpen(gui) /\ Opened(gui) # {}
    BY DEF Safe
  <1>2. ASSUME NEW h, Good(h), SameButAuto(gui, h),
               (ShownOpen(gui) /\ Counted(gui)) => Counted(h)
        PROVE  StaysSafe(gui, h)
    BY <1>1, <1>2 DEF SameButAuto, StaysSafe, Safe, ShownOpen
  <1> DEFINE g == [gui EXCEPT !.auto = value]
             r == Renumber(g, g.number[Head(g.list)], g.number[Last(g.list)], 1)
  <1>3. Becomes(IF value THEN r ELSE g)
    BY DEF SetAutoRenumber
  <1>4. CASE value = TRUE
    <2>1. StaysSafe(gui, r)
      BY <1>1, <1>2, <1>4, AutoOn
    <2> HIDE DEF r, g
    <2>2. QED
      BY <1>3, <1>4, <2>1 DEF SafeStep
  <1>5. CASE value = FALSE
    <2>1. StaysSafe(gui, g)
      BY <1>1, <1>2, <1>5, AutoOff
    <2> HIDE DEF r, g
    <2>2. QED
      BY <1>3, <1>5, <2>1 DEF SafeStep
  <1>6. QED
    BY <1>4, <1>5

LEMMA SwitchToSafe ==
  ASSUME NEW g, Safe(g), NEW ws \in SUBSET Window, NEW b \in Opened(g)
  PROVE  StaysSafe(g, SwitchTo(g, ws, b))
  <1> DEFINE h == SwitchTo(g, ws, b)
  <1>1. Good(h) /\ Switched(g, h, ws, b) /\ (Counted(g) => Counted(h))
    BY SwitchToGood DEF Safe
  <1> HIDE DEF h
  <1>2. /\ Opened(h) = Opened(g)
        /\ h.shown = [w \in Window |-> IF w \in ws THEN b ELSE g.shown[w]]
        /\ \A x \in Buffer \ Opened(g) : h.displayed[x] = g.displayed[x]
    BY <1>1 DEF Switched
  <1>3. ShownOpen(h)
    BY <1>2 DEF ShownOpen, Safe
  <1>4. QED
    BY <1>1, <1>2, <1>3 DEF Safe, StaysSafe, h

LEMMA SetActiveSafe ==
  ASSUME NEW g, Safe(g), NEW b \in Opened(g)
  PROVE  /\ StaysSafe(g, SetActive(g, b)) /\ Opened(SetActive(g, b)) = Opened(g)
         /\ SetActive(g, b).list = g.list /\ SetActive(g, b).number = g.number
         /\ SetActive(g, b).shown = g.shown
  <1> DEFINE h == SetActive(g, b)
  <1>1. Good(h) /\ Same(g, h) /\ h.list = g.list /\ h.number = g.number
    BY SetActiveGood DEF Safe
  <1>2. Counted(g) => Counted(h)
    BY SetActiveCounted DEF Safe
  <1> HIDE DEF h
  <1>3. StaysSafe(g, h)
    BY <1>1, <1>2, SafeSame
  <1>4. QED
    BY <1>1, <1>3 DEF Same, h

LEMMA SwitchesSafe ==
  ASSUME Safe(gui)
  PROVE  /\ \A w \in Window, b \in Buffer : Switches(w, b) => SafeStep
         /\ \A b \in Buffer : SwitchesActive(b) => SafeStep
  <1>1. ASSUME NEW w \in Window, NEW b \in Buffer, Switches(w, b) PROVE SafeStep
    <2>1. b \in Opened(gui) /\ Becomes(SwitchTo(gui, {w}, b)) /\ {w} \in SUBSET Window
      BY <1>1 DEF Switches
    <2>2. StaysSafe(gui, SwitchTo(gui, {w}, b))
      BY <2>1, SwitchToSafe
    <2>3. QED
      BY <2>1, <2>2 DEF SafeStep
  <1>2. ASSUME NEW b \in Buffer, SwitchesActive(b) PROVE SafeStep
    <2> DEFINE ws == {w \in Window : gui.shown[w] = b}
    <2>1. PICK g \in Found :
            \E x \in {NextActive(g, b, FALSE), PreviousActive(g, b)} \ {NoBuffer} :
              \/ ws = {} /\ Becomes(SetActive(g, x))
              \/ \E w \in ws : Becomes(SwitchTo(SetActive(g, x), {w}, x))
      BY <1>2 DEF SwitchesActive
    <2>2. PICK x \in {NextActive(g, b, FALSE), PreviousActive(g, b)} \ {NoBuffer} :
              \/ ws = {} /\ Becomes(SetActive(g, x))
              \/ \E w \in ws : Becomes(SwitchTo(SetActive(g, x), {w}, x))
      BY <2>1
    <2>3. /\ StaysSafe(gui, g) /\ Safe(g) /\ Opened(g) = Opened(gui) /\ b \in Opened(g)
          /\ g \in GuiData /\ Once(g.list)
      BY <1>2, FoundSafe DEF SwitchesActive, StaysSafe, Safe, Good, Sorted
    <2>4. x \in Opened(g)
      <3>1. /\ NextActive(g, b, FALSE) = NoBuffer \/ NextActive(g, b, FALSE) \in Members(g, b) \ {b}
            /\ PreviousActive(g, b) = NoBuffer \/ PreviousActive(g, b) \in Members(g, b) \ {b}
        BY <2>3, SuccessorFacts
      <3>2. x # NoBuffer /\ (x = NextActive(g, b, FALSE) \/ x = PreviousActive(g, b))
        BY Zenon
      <3>3. x \in Members(g, b)
        <4> DEFINE p == NextActive(g, b, FALSE)
                   q == PreviousActive(g, b)
        <4>1. (p = NoBuffer \/ p \in Members(g, b)) /\ (q = NoBuffer \/ q \in Members(g, b))
          BY <3>1
        <4>2. x # NoBuffer /\ (x = p \/ x = q)
          BY <3>2
        <4> HIDE DEF p, q
        <4>3. QED
          BY <4>1, <4>2
      <3>4. QED
        BY <3>3 DEF Members
    <2> DEFINE k == SetActive(g, x)
    <2>5. StaysSafe(g, k) /\ Opened(k) = Opened(g)
      BY <2>3, <2>4, SetActiveSafe
    <2> HIDE DEF k
    <2>6. StaysSafe(gui, k) /\ Safe(k)
      BY <2>3, <2>5, StaysSafeTwice DEF StaysSafe
    <2>7. CASE Becomes(k)
      BY <2>6, <2>7 DEF SafeStep
    <2>8. CASE \E w \in ws : Becomes(SwitchTo(k, {w}, x))
      <3>1. PICK w \in Window : Becomes(SwitchTo(k, {w}, x))
        BY <2>8
      <3>2. {w} \in SUBSET Window /\ x \in Opened(k)
        BY <2>4, <2>5
      <3>3. StaysSafe(k, SwitchTo(k, {w}, x))
        BY <2>6, <3>2, SwitchToSafe
      <3>4. QED
        BY <2>6, <3>1, <3>3, StaysSafeTwice DEF SafeStep
    <2>9. QED
      BY <2>2, <2>7, <2>8 DEF k
  <1>3. QED
    BY <1>1, <1>2

LEMMA ToggledSafe ==
  ASSUME NEW g, Safe(g), NEW b \in Opened(g), NEW k, StaysSafe(g, k),
         k.list = g.list, k.number = g.number, Merged(g, b), k.active[b] # 0
  PROVE  StaysSafe(g, Toggled(k, b))
  <1>1. Safe(k) /\ Good(k)
    BY DEF StaysSafe, Safe
  <1>2. Opened(k) = Opened(g)
    BY DEF Opened
  <1>3. Members(k, b) = Members(g, b)
    BY <1>2 DEF Members
  <1>4. Merged(k, b)
    BY <1>3 DEF Merged
  <1>5. Good(Toggled(k, b)) /\ Same(k, Toggled(k, b)) /\ Counted(Toggled(k, b))
    BY <1>1, <1>2, <1>4, ToggledGood
  <1>6. StaysSafe(k, Toggled(k, b))
    BY <1>1, <1>5, SafeSame
  <1>7. QED
    BY <1>6, StaysSafeTwice

LEMMA ZoomsSafe ==
  ASSUME Safe(gui), NEW b \in Buffer, Zooms(b)
  PROVE  SafeStep
  <1> DEFINE ws == {w \in Window : gui.shown[w] = b}
             a == SetActive(gui, b)
  <1>1. b \in Opened(gui) /\ Merged(gui, b) /\ gui \in GuiData
    BY DEF Zooms, Safe, Good
  <1>2. \/ gui.active[b] # 0 /\ Becomes(Toggled(gui, b))
        \/ Becomes(Toggled(a, b))
        \/ \E w \in ws : Becomes(Toggled(SwitchTo(a, {w}, b), b))
    BY DEF Zooms
  <1>3. StaysSafe(gui, a) /\ Opened(a) = Opened(gui) /\ a.list = gui.list /\ a.number = gui.number
    BY <1>1, SetActiveSafe
  <1>4. a.active[b] # 0
    BY <1>1, SetActiveIsActive
  <1> HIDE DEF a
  <1>5. CASE gui.active[b] # 0 /\ Becomes(Toggled(gui, b))
    <2>1. StaysSafe(gui, gui)
      BY DEF StaysSafe
    <2>2. StaysSafe(gui, Toggled(gui, b))
      BY <1>1, <1>5, <2>1, ToggledSafe
    <2>3. QED
      BY <1>5, <2>2 DEF SafeStep
  <1>6. CASE Becomes(Toggled(a, b))
    <2>1. StaysSafe(gui, Toggled(a, b))
      BY <1>1, <1>3, <1>4, ToggledSafe
    <2>2. QED
      BY <1>6, <2>1 DEF SafeStep
  <1>7. CASE \E w \in ws : Becomes(Toggled(SwitchTo(a, {w}, b), b))
    <2>1. PICK w \in Window : Becomes(Toggled(SwitchTo(a, {w}, b), b))
      BY <1>7
    <2> DEFINE k == SwitchTo(a, {w}, b)
    <2>2. {w} \in SUBSET Window /\ {w} # {} /\ b \in Opened(a) /\ Safe(a) /\ Good(a)
      BY <1>1, <1>3 DEF StaysSafe, Safe
    <2>3. StaysSafe(a, k)
      BY <2>2, SwitchToSafe
    <2>4. k.active[b] # 0
      BY <2>2, SwitchToActive
    <2>5. k.list = a.list /\ k.number = a.number
      <3>1. Switched(a, k, {w}, b)
        BY <2>2, SwitchToGood
      <3> HIDE DEF k
      <3>2. QED
        BY <3>1 DEF Switched
    <2> HIDE DEF k
    <2>6. StaysSafe(gui, k)
      BY <1>3, <2>3, StaysSafeTwice
    <2>7. k.list = gui.list /\ k.number = gui.number
      BY <1>3, <2>5
    <2>8. StaysSafe(gui, Toggled(k, b))
      BY <1>1, <2>4, <2>6, <2>7, ToggledSafe
    <2>9. QED
      BY <2>1, <2>8 DEF SafeStep, k
  <1>8. QED
    BY <1>2, <1>5, <1>6, <1>7

LEMMA WindowsSafe ==
  ASSUME Safe(gui)
  PROVE  /\ \A w, v \in Window : Splits(w, v) => SafeStep
         /\ \A w \in Window : Unsplits(w) => SafeStep
  <1>1. /\ Good(gui) /\ gui.shown \in [Window -> Buffer \union {NoBuffer}]
        /\ \A w \in Window : gui.shown[w] # NoBuffer => gui.shown[w] \in Opened(gui)
    BY DataFacts DEF Safe, Good, ShownOpen
  <1>2. ASSUME NEW w \in Window, NEW v \in Window, Splits(w, v) PROVE SafeStep
    <2> DEFINE h == AddDisplayed([gui EXCEPT !.shown[v] = gui.shown[w]], gui.shown[w], 1)
    <2>1. gui.shown[w] \in Opened(gui) /\ gui.shown[v] = NoBuffer /\ Becomes(h)
      BY <1>1, <1>2 DEF Splits
    <2>2. /\ Good(h) /\ Opened(h) = Opened(gui)
          /\ h.shown = [gui.shown EXCEPT ![v] = gui.shown[w]]
          /\ \A x \in Buffer \ Opened(gui) : h.displayed[x] = gui.displayed[x]
          /\ Counted(gui) => Counted(h)
      BY <1>1, <2>1, SplitCounted
    <2> HIDE DEF h
    <2>3. ShownOpen(h)
      BY <1>1, <2>1, <2>2 DEF ShownOpen
    <2>4. StaysSafe(gui, h)
      BY <2>2, <2>3 DEF StaysSafe, Safe
    <2>5. QED
      BY <2>1, <2>4 DEF SafeStep
  <1>3. ASSUME NEW w \in Window, Unsplits(w) PROVE SafeStep
    <2> DEFINE h == [AddDisplayed(gui, gui.shown[w], -1) EXCEPT !.shown[w] = NoBuffer]
    <2>1. gui.shown[w] \in Opened(gui) /\ Becomes(h)
      BY <1>1, <1>3 DEF Unsplits
    <2>2. /\ Good(h) /\ Opened(h) = Opened(gui)
          /\ h.shown = [gui.shown EXCEPT ![w] = NoBuffer]
          /\ \A x \in Buffer \ Opened(gui) : h.displayed[x] = gui.displayed[x]
          /\ Counted(gui) => Counted(h)
      BY <1>1, <2>1, UnsplitCounted
    <2> HIDE DEF h
    <2>3. ShownOpen(h)
      BY <1>1, <2>2 DEF ShownOpen
    <2>4. StaysSafe(gui, h)
      BY <2>2, <2>3 DEF StaysSafe, Safe
    <2>5. QED
      BY <2>1, <2>4 DEF SafeStep
  <1>4. QED
    BY <1>2, <1>3

LEMMA LayoutsSafe ==
  ASSUME Safe(gui), Layouts
  PROVE  Safe(gui')
  <1>1. PICK p \in BOOLEAN : Becomes(ApplyLayout(gui, p))
    BY DEF Layouts
  <1> DEFINE h == ApplyLayout(gui, p)
  <1>2. Good(h) /\ Same(gui, h)
    BY ApplyLayoutGood DEF Safe
  <1> HIDE DEF h
  <1>3. Safe(h)
    BY <1>2 DEF Safe, Same, ShownOpen
  <1>4. StaysSafe(h, [h EXCEPT !.hidden = {}])
    BY <1>3, NewHidden
  <1>5. gui' = [h EXCEPT !.hidden = {}]
    BY <1>1 DEF Becomes, h
  <1>6. QED
    BY <1>4, <1>5 DEF StaysSafe

(***************************************************************************)
(* Every command keeps the data safe; all but the layout keep the counts.  *)
(***************************************************************************)
LEMMA NextSafe ==
  ASSUME Safe(gui), Next
  PROVE  Safe(gui') /\ (Layouts \/ (Counted(gui) => Counted(gui)'))
  <1>1. CASE Layouts
    BY <1>1, LayoutsSafe
  <1>2. CASE ~ Layouts
    <2>1. SafeStep
      <3>1. CASE \E b \in Buffer : Open(b) \/ Close(b)
        BY <3>1, OpenSafe, CloseSafe
      <3>2. CASE \E b \in Buffer : Moves(b) \/ Unmerges(b)
        BY <3>2, NumbersSafe, GroupsSafe
      <3>3. CASE \E b, c \in Buffer : Swaps(b, c) \/ Merges(b, c)
        BY <3>3, NumbersSafe, GroupsSafe
      <3>4. CASE UnmergesAll \/ Renumbers
        BY <3>4, NumbersSafe, GroupsSafe
      <3>5. CASE \E value \in BOOLEAN : SetAutoRenumber(value)
        BY <3>5, AutoSafe
      <3>6. CASE \E w \in Window, b \in Buffer : Switches(w, b)
        BY <3>6, SwitchesSafe
      <3>7. CASE \E b \in Buffer : SwitchesActive(b) \/ Zooms(b)
        BY <3>7, SwitchesSafe, ZoomsSafe
      <3>8. CASE \E w, v \in Window : Splits(w, v)
        BY <3>8, WindowsSafe
      <3>9. CASE \E w \in Window : Unsplits(w)
        BY <3>9, WindowsSafe
      <3>10. QED
        BY <1>2, <3>1, <3>2, <3>3, <3>4, <3>5, <3>6, <3>7, <3>8, <3>9 DEF Next
    <2>2. PICK h : Becomes(h) /\ StaysSafe(gui, h)
      BY <2>1 DEF SafeStep
    <2>3. QED
      BY <2>2, BecomesSafe
  <1>3. QED
    BY <1>1, <1>2

(***************************************************************************)
(* The theorems                                                            *)
(***************************************************************************)
IInv == Safe(gui)

(***************************************************************************)
(* The invariant holds of every reachable state: whatever commands open,   *)
(* close, move, merge, unmerge, swap, renumber, zoom or lay out the        *)
(* buffers, and whatever windows show them, for any layout and with or     *)
(* without buffer_auto_renumber.                                           *)
(***************************************************************************)
THEOREM IInvInductive == Spec => []IInv
  <1>1. Init => IInv
    BY InitSafe DEF IInv
  <1>2. IInv /\ [Next]_gui => IInv'
    <2>1. ASSUME IInv, Next PROVE IInv'
      <3>1. Safe(gui')
        BY <2>1, NextSafe DEF IInv
      <3>2. IInv' <=> Safe(gui')
        BY DEF IInv
      <3>3. QED
        BY <3>1, <3>2
    <2>2. ASSUME IInv, gui' = gui PROVE IInv'
      BY <2>2 DEF IInv
    <2>3. QED
      BY <2>1, <2>2
  <1>3. QED
    BY <1>1, <1>2, PTL DEF Spec

(***************************************************************************)
(* Each field keeps its type, and gui_buffers has a buffer once: no        *)
(* function of gui-buffer.c that takes a buffer out of the list and puts   *)
(* it back, or joins two pieces of it, duplicates or loses one.            *)
(***************************************************************************)
THEOREM TypeCorrect == Spec => []TypeOK
  <1>1. IInv => TypeOK
    <2>1. ASSUME IInv PROVE TypeOK
      <3>1. gui \in GuiData /\ Once(gui.list) /\ gui.list \in Seq(Buffer)
        BY <2>1, DataFacts DEF IInv, Safe, Good, Sorted
      <3>2. DOMAIN gui.list = 1 .. Len(gui.list)
        BY <3>1, SeqFacts
      <3>3. QED
        BY <3>1, <3>2 DEF TypeOK, Once
    <2>2. QED
      BY <2>1
  <1>2. QED
    BY <1>1, IInvInductive, PTL

(***************************************************************************)
(* NumbersInOrder compares neighbours; with no number left out, the next   *)
(* is at most one more.                                                    *)
(***************************************************************************)
LEMMA InOrder ==
  ASSUME IInv
  PROVE  NumbersInOrder
  <1> DEFINE s == gui.list
             n == gui.number
             e == Len(s)
             O == Opened(gui)
  <1>1. /\ gui \in GuiData /\ Sorted(gui) /\ Ordered(s, n)
        /\ Core \in O /\ (gui.auto => Gapless(O, n))
        /\ \A x \in O : n[x] >= 1
    BY DEF IInv, Safe, Good, Sorted
  <1>2. s \in Seq(Buffer) /\ e \in Nat /\ O = ToSet(s) /\ O \subseteq Buffer /\ n \in [Buffer -> Nat]
    BY <1>1, DataFacts
  <1>3. /\ \A i \in 1 .. e : s[i] \in O
        /\ \A x \in O : \E i \in 1 .. e : s[i] = x
        /\ \A x \in O : n[x] \in Nat
    <2>1. \A i \in 1 .. e : s[i] \in O
      BY <1>2, SeqFacts
    <2>2. \A x \in O : \E i \in 1 .. e : s[i] = x
      BY <1>2, SeqFacts
    <2>3. QED
      BY <1>2, <2>1, <2>2
  <1>4. \A i, j \in 1 .. e : i < j => n[s[i]] <= n[s[j]]
    BY <1>1 DEF Ordered
  <1> HIDE DEF s, n, e, O
  <1>5. ASSUME NEW i \in 1 .. e - 1
        PROVE  n[s[i]] <= n[s[i + 1]] /\ (gui.auto => n[s[i + 1]] <= n[s[i]] + 1)
    <2>1. i \in 1 .. e /\ i + 1 \in 1 .. e /\ i < i + 1 /\ i \in Nat
      BY <1>2
    <2>2. n[s[i]] \in Nat /\ n[s[i + 1]] \in Nat /\ s[i + 1] \in O
      BY <1>3, <2>1
    <2>3. ASSUME gui.auto, ~(n[s[i + 1]] <= n[s[i]] + 1) PROVE FALSE
      <3> DEFINE m == n[s[i]] + 1
      <3>1. m \in 1 .. n[s[i + 1]] /\ m # n[s[i + 1]] /\ m \in Nat
        BY <2>2, <2>3
      <3>2. PICK y \in O : n[y] = m
        BY <1>1, <2>2, <2>3, <3>1 DEF Gapless
      <3>3. PICK j \in 1 .. e : s[j] = y
        BY <1>3
      <3>4. j \in Nat
        OBVIOUS
      <3>5. CASE j <= i
        <4>1. j = i \/ j < i
          BY <2>1, <3>4, <3>5
        <4>2. n[s[j]] <= n[s[i]]
          BY <1>4, <2>1, <2>2, <4>1
        <4>3. QED
          BY <2>2, <3>2, <3>3, <4>2
      <3>6. CASE j > i
        <4>1. j = i + 1 \/ i + 1 < j
          BY <2>1, <3>4, <3>6
        <4>2. n[s[i + 1]] <= n[s[j]]
          BY <1>4, <2>1, <2>2, <4>1
        <4>3. n[s[j]] = m
          BY <3>2, <3>3
        <4> HIDE DEF m
        <4>4. QED
          BY <2>2, <3>1, <4>2, <4>3
      <3>7. QED
        BY <2>1, <3>4, <3>5, <3>6
    <2>4. QED
      BY <1>4, <2>1, <2>3
  <1>6. 1 \in 1 .. e /\ n[s[1]] >= 1 /\ n[s[1]] \in Nat /\ s[1] \in O
    <2>1. 1 \in 1 .. e
      BY <1>1, <1>2, <1>3
    <2>2. QED
      BY <1>1, <1>3, <2>1
  <1>7. ASSUME gui.auto PROVE n[s[1]] = 1
    <2>1. 1 \in 1 .. n[s[1]]
      BY <1>6
    <2>2. PICK y \in O : n[y] = 1
      BY <1>1, <1>6, <1>7, <2>1 DEF Gapless
    <2>3. PICK j \in 1 .. e : s[j] = y
      BY <1>3
    <2>4. j = 1 \/ 1 < j
      OBVIOUS
    <2>5. n[s[1]] <= n[s[j]]
      BY <1>4, <1>6, <2>4
    <2>6. n[s[j]] = 1
      BY <2>2, <2>3
    <2>7. QED
      BY <1>6, <2>5, <2>6
  <1>8. QED
    BY <1>5, <1>6, <1>7 DEF NumbersInOrder, s, n, e

(***************************************************************************)
(* Numbers do not descend along gui_buffers and start at 1 or more; with   *)
(* buffer_auto_renumber they start at 1 and leave none out, through every  *)
(* move, merge, unmerge, swap, close, layout and change of the option:     *)
(* gui_buffer_shift_numbers() and the loops that lower numbers always stop *)
(* at the right buffer.                                                    *)
(***************************************************************************)
THEOREM NumbersAlwaysInOrder == Spec => []NumbersInOrder
  <1>1. IInv => NumbersInOrder
    BY InOrder
  <1>2. QED
    BY <1>1, IInvInductive, PTL

(***************************************************************************)
(* GroupsSound, from the parts of Sound.                                   *)
(***************************************************************************)
LEMMA GroupsAreSound ==
  ASSUME IInv
  PROVE  GroupsSound
  <1> DEFINE O == Opened(gui)
  <1>1. /\ gui \in GuiData /\ O \subseteq Buffer
        /\ \A x \in O : OneIn(O, gui.number, gui.active, x)
        /\ SharedLines(O, gui.number, gui.mixed, gui.content, gui.own)
    BY DataFacts DEF IInv, Safe, Good, Sound
  <1>2. ASSUME NEW b \in O
        PROVE  Cardinality({x \in Members(gui, b) : gui.active[x] # 0}) = 1
    <2> DEFINE A == {x \in Members(gui, b) : gui.active[x] # 0}
    <2>1. OneIn(O, gui.number, gui.active, b)
      BY <1>1
    <2>2. PICK y \in O : gui.number[y] = gui.number[b] /\ gui.active[y] # 0
      BY <2>1 DEF OneIn
    <2>3. y \in A
      BY <2>2 DEF Members
    <2>4. ASSUME NEW x \in A PROVE x = y
      <3>1. x \in O /\ gui.number[x] = gui.number[b] /\ gui.active[x] # 0
        BY DEF Members
      <3>2. QED
        BY <2>1, <2>2, <3>1 DEF OneIn
    <2>5. A = {y}
      BY <2>3, <2>4
    <2>6. QED
      BY <2>5, FS_Singleton
  <1>3. ASSUME NEW b \in O
        PROVE  /\ gui.mixed[b] <=> Merged(gui, b)
               /\ gui.own[b] \/ gui.mixed[b]
               /\ gui.content[b] \subseteq Members(gui, b)
               /\ \A x \in Members(gui, b) : gui.content[x] = gui.content[b]
    <2>1. gui.mixed[b] <=> Merged(gui, b)
      BY <1>1, MergedFacts DEF SharedLines
    <2>2. gui.own[b] \/ gui.mixed[b]
      BY <1>1 DEF SharedLines
    <2>3. gui.content[b] \subseteq Members(gui, b)
      BY <1>1 DEF SharedLines, Members
    <2>4. \A x \in Members(gui, b) : gui.content[x] = gui.content[b]
      BY <1>1 DEF SharedLines, Members
    <2>5. QED
      BY <2>1, <2>2, <2>3, <2>4
  <1>4. QED
    BY <1>2, <1>3 DEF GroupsSound, OneActive, LinesAlive

(***************************************************************************)
(* Of the buffers with a number exactly one is active, they and only they  *)
(* share mixed_lines, which has no line of a buffer that left the group or *)
(* was closed, and `lines' never points to mixed_lines that were freed     *)
(* (gui_buffer_set_active_buffer(), gui_line_mix_buffers(),                *)
(* gui_buffer_unmerge()).                                                  *)
(***************************************************************************)
THEOREM GroupsAlwaysSound == Spec => []GroupsSound
  <1>1. IInv => GroupsSound
    BY GroupsAreSound
  <1>2. QED
    BY <1>1, IInvInductive, PTL

(***************************************************************************)
(* When num_displayed of every buffer agrees with the windows, it does     *)
(* after any command but the one that applies a layout: the counts that    *)
(* gui_window_switch_to_buffer(), gui_window_close() and                   *)
(* gui_input_zoom_merged_buffer() change one by one add up.                *)
(***************************************************************************)
THEOREM CountIsKept == Spec => CountKept
  <1>1. IInv /\ [Next]_gui
          => [DisplayedUnlessZoomed' \/ ~ DisplayedUnlessZoomed \/ Layouts]_gui
    <2>1. ASSUME IInv, Next PROVE DisplayedUnlessZoomed' \/ ~ DisplayedUnlessZoomed \/ Layouts
      <3>1. Layouts \/ (Counted(gui) => Counted(gui)')
        BY <2>1, NextSafe DEF IInv
      <3>2. DisplayedUnlessZoomed <=> Counted(gui)
        BY DEF DisplayedUnlessZoomed, Counted
      <3>3. DisplayedUnlessZoomed' <=> Counted(gui)'
        BY DEF DisplayedUnlessZoomed, Counted
      <3>4. QED
        BY <3>1, <3>2, <3>3
    <2>2. QED
      BY <2>1
  <1>2. QED
    BY <1>1, IInvInductive, PTL DEF Spec, CountKept
=============================================================================
