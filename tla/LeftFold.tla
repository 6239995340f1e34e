-------------------------------- MODULE LeftFold --------------------------------
(*****************************************************************************)
(* What FoldLeft computes, for any step operator: the base on the empty      *)
(* sequence, and one step more for each element that is appended.  The       *)
(* community module defines the fold by recursion over sets of indices, whose*)
(* recursive function is shown here to exist and to be determined.           *)
(*                                                                           *)
(* Induction over numbers is stated for sets, from the library's WFMin: a set*)
(* with 0 and the successor of each of its elements is all of Nat.           *)
(*****************************************************************************)
EXTENDS Integers, Sequences, SequencesExt, FiniteSetsExt, WellFoundedInduction, TLAPS

CONSTANT Step(_, _)

(* Every nonempty set of natural numbers has a least element.              *)
LEMMA NatMin ==
  ASSUME NEW T, T \subseteq Nat, T # {}
  PROVE  \E x \in T : \A y \in T : x <= y
<1> DEFINE R == OpToRel(<, Nat)
<1>1. IsWellFoundedOn(R, Nat)
  BY NatLessThanWellFounded
<1>3. \A a, b \in Nat : a < b => <<a, b>> \in R
  BY DEF R, OpToRel
<1> HIDE DEF R
<1>2. \E x \in T : \A y \in T : ~(<<y, x>> \in R)
  BY <1>1, WFMin
<1>4. PICK x \in T : \A y \in T : ~(<<y, x>> \in R)
  BY <1>2
<1>5. \A y \in T : ~(y < x)
  BY <1>3, <1>4
<1>6. \A y \in T : x <= y
  BY <1>5
<1> QED BY <1>6

(* A set of natural numbers closed under successor is all of them.         *)
LEMMA NatInd ==
  ASSUME NEW T, T \subseteq Nat, 0 \in T, \A n \in T : n + 1 \in T
  PROVE  T = Nat
<1> SUFFICES ASSUME Nat \ T # {} PROVE FALSE
  OBVIOUS
<1>1. PICK x \in Nat \ T : \A y \in Nat \ T : x <= y
  BY NatMin
<1>2. x # 0 /\ x - 1 \in Nat
  BY <1>1
<1>3. x - 1 \in T
  BY <1>1, <1>2
<1>4. (x - 1) + 1 \in T
  BY <1>3
<1> QED BY <1>1, <1>4

(* Max of a set with a greatest element is that element.                   *)
LEMMA MaxIs ==
  ASSUME NEW t, t \subseteq Int, NEW m \in t, \A i \in t : i <= m
  PROVE  Max(t) = m
<1>1. \E x \in t : \A y \in t : x >= y
  OBVIOUS
<1>2. Max(t) \in t /\ \A y \in t : Max(t) >= y
  BY <1>1 DEF Max
<1>3. Max(t) >= m /\ m >= Max(t) /\ Max(t) \in Int /\ m \in Int
  BY <1>2
<1> QED BY <1>3

(* The fold under study: Step over s from b.                               *)
Run(b, s) == FoldLeft(Step, b, s)

(* One level of the recursion that MapThenFoldSet makes: the largest index *)
(* of t is folded last.                                                    *)
Rec(b, s, t, iter) == IF t = {} THEN b ELSE Step(iter[t \ {Max(t)}], s[Max(t)])

(* iter solves the recursion over the subsets of 1..n.                     *)
IsIter(b, s, n, iter) == iter = [t \in SUBSET (1..n) |-> Rec(b, s, t, iter)]

(* The recursion has a solution, whatever the length.                      *)
LEMMA IterExists ==
  ASSUME NEW b, NEW s, NEW N \in Nat
  PROVE  \E iter : IsIter(b, s, N, iter)
<1> DEFINE T == {n \in Nat : \E iter : IsIter(b, s, n, iter)}
<1>1. 0 \in T
  <2> DEFINE it == [t \in SUBSET (1..0) |-> b]
  <2>1. IsIter(b, s, 0, it)
    BY DEF Rec, IsIter
  <2> QED BY <2>1
<1>2. ASSUME NEW n \in T PROVE n + 1 \in T
  <2>1. PICK g : g = [t \in SUBSET (1..n) |-> Rec(b, s, t, g)]
    BY DEF IsIter
  <2> DEFINE h == [t \in SUBSET (1..(n+1)) |-> IF t \in SUBSET (1..n) THEN g[t]
                     ELSE Step(g[t \ {n+1}], s[n+1])]
  <2>2. ASSUME NEW t \in SUBSET (1..(n+1)) PROVE h[t] = Rec(b, s, t, h)
    <3>1. CASE t \in SUBSET (1..n)
      <4>1. CASE t = {}
         BY <2>1, <3>1, <4>1 DEF Rec
      <4>2. CASE t # {}
         <5>1. t \ {Max(t)} \in SUBSET (1..n)
           BY <3>1
         <5> QED BY <2>1, <3>1, <4>2, <5>1 DEF Rec
      <4> QED BY <4>1, <4>2
    <3>2. CASE t \notin SUBSET (1..n)
      <4>1. n + 1 \in t /\ t \ {n+1} \in SUBSET (1..n)
        BY <3>2
      <4>2. Max(t) = n + 1
        <5>1. t \subseteq Int /\ n + 1 \in t /\ \A i \in t : i <= n + 1
          BY <4>1
        <5> QED BY <5>1, MaxIs
      <4>3. h[t] = Step(g[t \ {n+1}], s[n+1]) /\ h[t \ {n+1}] = g[t \ {n+1}]
        BY <3>2, <4>1
      <4> QED BY <4>1, <4>2, <4>3 DEF Rec
    <3> QED BY <3>1, <3>2
  <2>3. h = [t \in SUBSET (1..(n+1)) |-> h[t]]
    OBVIOUS
  <2> HIDE DEF h
  <2>4. h = [t \in SUBSET (1..(n+1)) |-> Rec(b, s, t, h)]
    BY <2>2, <2>3, Zenon
  <2> QED BY <2>4 DEF IsIter
<1> HIDE DEF T
<1>3. T = Nat
  <2>1. T \subseteq Nat BY DEF T
  <2> QED BY <1>1, <1>2, <2>1, NatInd
<1> QED BY <1>3 DEF T

(* Two sequences that agree on the first n1 elements have the same value   *)
(* there.                                                                  *)
LEMMA IterUnique ==
  ASSUME NEW b, NEW s1, NEW s2, NEW n1 \in Nat, NEW n2 \in Nat, NEW i1, NEW i2,
         IsIter(b, s1, n1, i1), IsIter(b, s2, n2, i2),
         n1 <= n2, \A k \in 1..n1 : s1[k] = s2[k]
  PROVE  i1[1..n1] = i2[1..n1]
<1> DEFINE T == {n \in Nat : n <= n1 => i1[1..n] = i2[1..n]}
<1>1. 0 \in T
  <2>1. 1..0 = {} /\ {} \in SUBSET (1..n1) /\ {} \in SUBSET (1..n2)
    OBVIOUS
  <2>2. i1[{}] = b /\ i2[{}] = b
    <3>1. i1[{}] = Rec(b, s1, {}, i1) /\ i2[{}] = Rec(b, s2, {}, i2)
      BY <2>1 DEF IsIter
    <3> QED BY <3>1 DEF Rec
  <2> QED BY <2>1, <2>2
<1>2. ASSUME NEW n \in T PROVE n + 1 \in T
  <2>0. n \in Nat /\ n + 1 \in Nat
    OBVIOUS
  <2> SUFFICES ASSUME n + 1 <= n1 PROVE i1[1..(n+1)] = i2[1..(n+1)]
    BY <2>0
  <2> DEFINE t == 1..(n+1)
  <2>1. t # {} /\ t \in SUBSET (1..n1) /\ t \in SUBSET (1..n2) /\ n + 1 \in t
    <3> HIDE DEF T
    <3>1. n + 1 <= n1 /\ n + 1 <= n2
      BY <2>0
    <3>2. n + 1 \in t
      BY <2>0
    <3>3. \A i \in t : i \in 1..n1 /\ i \in 1..n2
      BY <2>0, <3>1
    <3> QED BY <3>2, <3>3, Zenon
  <2>2. Max(t) = n + 1
    <3>1. t \subseteq Int /\ \A i \in t : i <= n + 1
      BY <2>0
    <3> QED BY <2>1, <3>1, MaxIs
  <2>3. t \ {n+1} = 1..n
    BY <2>0
  <2> HIDE DEF t
  <2>4. i1[t] = Step(i1[1..n], s1[n+1]) /\ i2[t] = Step(i2[1..n], s2[n+1])
    BY <2>1, <2>2, <2>3 DEF Rec, IsIter
  <2>5. i1[1..n] = i2[1..n] /\ s1[n+1] = s2[n+1]
    BY <2>0
  <2> QED BY <2>4, <2>5 DEF t
<1> HIDE DEF T
<1>3. T = Nat
  <2>1. T \subseteq Nat BY DEF T
  <2> QED BY <1>1, <1>2, <2>1, NatInd
<1>4. n1 \in T /\ n1 <= n1
  BY <1>3
<1> QED BY <1>4 DEF T

(* The solution that MapThenFoldSet chooses.                               *)
It(b, s) == CHOOSE iter : iter = [t \in SUBSET DOMAIN s |-> Rec(b, s, t, iter)]

(* FoldLeft reads the chosen solution at the whole domain.                 *)
LEMMA RunIsIt ==
  ASSUME NEW b, NEW s
  PROVE  Run(b, s) = It(b, s)[DOMAIN s]
BY DEF Run, FoldLeft, MapThenFoldSet, It, Rec

(* The chosen solution is one.                                             *)
LEMMA ItIsIter ==
  ASSUME NEW b, NEW S, NEW s \in Seq(S)
  PROVE  IsIter(b, s, Len(s), It(b, s))
<1>1. DOMAIN s = 1..Len(s) /\ Len(s) \in Nat
  OBVIOUS
<1>2. \E iter : IsIter(b, s, Len(s), iter)
  BY <1>1, IterExists
<1>3. \E iter : iter = [t \in SUBSET DOMAIN s |-> Rec(b, s, t, iter)]
  BY <1>1, <1>2 DEF IsIter
<1>4. It(b, s) = [t \in SUBSET DOMAIN s |-> Rec(b, s, t, It(b, s))]
  BY <1>3 DEF It
<1> QED BY <1>1, <1>4 DEF IsIter

(* A fold over nothing is its base.                                        *)
THEOREM RunEmpty ==
  ASSUME NEW b
  PROVE  Run(b, <<>>) = b
<1>1. <<>> \in Seq({}) /\ Len(<<>>) = 0 /\ 1..0 = {} /\ DOMAIN <<>> = {}
  OBVIOUS
<1>2. IsIter(b, <<>>, 0, It(b, <<>>))
  BY <1>1, ItIsIter
<1>3. It(b, <<>>)[{}] = b
  BY <1>1, <1>2 DEF Rec, IsIter
<1> QED BY <1>1, <1>3, RunIsIt

(* A fold over a sequence with one element more is one step more.          *)
THEOREM RunAppend ==
  ASSUME NEW b, NEW S, NEW s \in Seq(S), NEW e \in S
  PROVE  Run(b, Append(s, e)) = Step(Run(b, s), e)
<1> DEFINE n == Len(s)
           a == Append(s, e)
           t == 1..(n+1)
<1>1. n \in Nat /\ n + 1 \in Nat /\ a \in Seq(S) /\ Len(a) = n + 1 /\ a[n+1] = e
      /\ (\A k \in 1..n : s[k] = a[k]) /\ DOMAIN s = 1..n /\ DOMAIN a = t
      /\ Len(s) = n
  OBVIOUS
<1>2. t # {} /\ t \in SUBSET t /\ n + 1 \in t /\ t \ {n+1} = 1..n
  BY <1>1
<1>3. Max(t) = n + 1
  <2>1. t \subseteq Int /\ \A i \in t : i <= n + 1
    BY <1>1
  <2> QED BY <1>2, <2>1, MaxIs
<1> HIDE DEF n, a
<1>4. IsIter(b, a, n + 1, It(b, a)) /\ IsIter(b, s, n, It(b, s))
  BY <1>1, ItIsIter
<1>5. It(b, s)[1..n] = It(b, a)[1..n]
  <2>1. n <= n + 1
    BY <1>1
  <2> QED BY <1>1, <1>4, <2>1, IterUnique
<1>6. It(b, a)[t] = Step(It(b, a)[1..n], e)
  <2> HIDE DEF t
  <2>1. IsIter(b, a, n + 1, It(b, a)) => It(b, a)[t] = Rec(b, a, t, It(b, a))
    BY DEF IsIter, t
  <2>2. Rec(b, a, t, It(b, a)) = Step(It(b, a)[1..n], a[n+1])
    BY <1>2, <1>3 DEF Rec
  <2> QED BY <1>1, <1>4, <2>1, <2>2
<1> HIDE DEF t
<1>7. Run(b, a) = It(b, a)[t] /\ Run(b, s) = It(b, s)[1..n]
  BY <1>1, RunIsIt
<1> QED BY <1>5, <1>6, <1>7 DEF a
=============================================================================
