-------------------------------- MODULE ClassifyProofs --------------------------------
(*****************************************************************************)
(* What normalize of judge.go computes, for texts of any length over any     *)
(* alphabet: two texts are normalized to the same text exactly when they look*)
(* the same, which is what the verdict AC stands for.                        *)
(*                                                                           *)
(* A text is laid out as the judge cuts it into lines (Laid): the character  *)
(* at position k is in line Row at column Col.  Trimming keeps exactly the   *)
(* visible cells, these are the Appearance of the text, and neither Cells    *)
(* nor JoinLines loses anything of the lines that trimming leaves.           *)
(*****************************************************************************)
EXTENDS Classify, Integers, FiniteSetTheorems, TLAPS

(* The three folds of Classify.                                           *)
UnixFold  == INSTANCE LeftFold WITH Step <- UnixStep
SplitFold == INSTANCE LeftFold WITH Step <- SplitStep
JoinFold  == INSTANCE LeftFold WITH Step <- JoinStep

(* Max of a set with a greatest element is that element.                   *)
LEMMA MaxIs ==
  ASSUME NEW t, t \subseteq Int, NEW m \in t, \A i \in t : i <= m
  PROVE  Max(t) = m
  BY UnixFold!MaxIs DEF UnixFold!Max, Max

(* Max of a nonempty set of numbers from 1 to n is its greatest element.   *)
LEMMA MaxOfInit ==
  ASSUME NEW n \in Nat, NEW t \in SUBSET (1..n), t # {}
  PROVE  Max(t) \in t /\ \A i \in t : i <= Max(t)
<1> DEFINE D == {n - i : i \in t}
<1>1. D \subseteq Nat /\ D # {}
  OBVIOUS
<1>2. PICK d \in D : \A e \in D : d <= e
  BY <1>1, UnixFold!NatMin
<1>3. PICK m \in t : d = n - m
  BY <1>2
<1>4. \A i \in t : i <= m
  <2> TAKE i \in t
  <2>1. n - i \in D
    OBVIOUS
  <2> QED BY <1>2, <1>3, <2>1
<1>5. \E x \in t : \A y \in t : x >= y
  BY <1>4
<1> QED BY <1>5 DEF Max

(* Max as Classify uses it, over a set of positions and 0: 0 if the set is *)
(* empty, else its greatest element.                                       *)
LEMMA MaxWithZero ==
  ASSUME NEW n \in Nat, NEW t \in SUBSET (1..n)
  PROVE  /\ Max({0} \cup t) \in {0} \cup t
         /\ Max({0} \cup t) \in 0..n
         /\ \A i \in t : i <= Max({0} \cup t)
<1>1. CASE t = {}
  <2>1. {0} \cup t = {0}
    BY <1>1
  <2>2. Max({0}) = 0
    BY DEF Max
  <2> QED BY <1>1, <2>1, <2>2
<1>2. CASE t # {}
  <2>1. PICK m \in t : \A i \in t : i <= m
    BY <1>2, MaxOfInit
  <2>2. {0} \cup t \subseteq Int /\ m \in {0} \cup t /\ \A i \in {0} \cup t : i <= m
    BY <2>1
  <2>3. Max({0} \cup t) = m
    BY <2>2, MaxIs
  <2> QED BY <2>1, <2>3
<1> QED BY <1>1, <1>2

(* Two sequences of the same length with the same elements are equal.      *)
LEMMA SeqEqual ==
  ASSUME NEW S, NEW s \in Seq(S), NEW t \in Seq(S), Len(s) = Len(t),
         \A i \in 1..Len(s) : s[i] = t[i]
  PROVE  s = t
OBVIOUS

(* A set of sequences that holds the empty one and, with each of its       *)
(* members, every extension by one element, is all of them.                *)
LEMMA SeqInd ==
  ASSUME NEW S, NEW P, P \subseteq Seq(S), <<>> \in P,
         \A s \in P : \A e \in S : Append(s, e) \in P
  PROVE  P = Seq(S)
<1> DEFINE T == {n \in Nat : \A s \in Seq(S) : Len(s) = n => s \in P}
<1>1. 0 \in T
  <2> SUFFICES ASSUME NEW s \in Seq(S), Len(s) = 0 PROVE s \in P
    OBVIOUS
  <2>1. s = <<>>
    OBVIOUS
  <2> QED BY <2>1
<1>2. ASSUME NEW n \in T PROVE n + 1 \in T
  <2>0. n \in Nat /\ n + 1 \in Nat
    OBVIOUS
  <2> SUFFICES ASSUME NEW s \in Seq(S), Len(s) = n + 1 PROVE s \in P
    BY <2>0
  <2> DEFINE f == SubSeq(s, 1, n)
  <2>1. f \in Seq(S) /\ Len(f) = n /\ s[n+1] \in S
    BY <2>0
  <2>2. Append(f, s[n+1]) = s
    <3>1. Append(f, s[n+1]) \in Seq(S) /\ Len(Append(f, s[n+1])) = n + 1
      BY <2>0, <2>1
    <3>2. \A i \in 1..(n+1) : Append(f, s[n+1])[i] = s[i]
      BY <2>0, <2>1
    <3> HIDE DEF f
    <3> QED BY <2>0, <3>1, <3>2, SeqEqual
  <2>3. f \in P
    BY <2>1
  <2> HIDE DEF f
  <2> QED BY <2>1, <2>2, <2>3
<1>3. T \subseteq Nat
  OBVIOUS
<1> HIDE DEF T
<1>4. T = Nat
  BY <1>1, <1>2, <1>3, UnixFold!NatInd
<1>5. \A s \in Seq(S) : Len(s) \in T
  BY <1>4
<1> QED BY <1>5 DEF T
(* UnixNewlines, one character at a time.                                  *)
LEMMA UnixNewlinesRec ==
  /\ UnixNewlines(<<>>) = <<>>
  /\ \A C : \A s \in Seq(C), e \in C :
       UnixNewlines(Append(s, e)) = UnixStep(UnixNewlines(s), e)
<1>1. UnixFold!Run(<<>>, <<>>) = <<>>
  BY UnixFold!RunEmpty
<1>2. ASSUME NEW C, NEW s \in Seq(C), NEW e \in C
      PROVE  UnixFold!Run(<<>>, Append(s, e)) = UnixStep(UnixFold!Run(<<>>, s), e)
  BY UnixFold!RunAppend
<1>3. ASSUME NEW x PROVE UnixNewlines(x) = UnixFold!Run(<<>>, x)
  BY DEF UnixNewlines, UnixFold!Run, UnixFold!FoldLeft, UnixFold!MapThenFoldSet, UnixFold!Max,
         FoldLeft, MapThenFoldSet, Max
<1> QED BY <1>1, <1>2, <1>3

(* SplitLines, one character at a time.                                    *)
LEMMA SplitLinesRec ==
  /\ SplitLines(<<>>) = << <<>> >>
  /\ \A C : \A s \in Seq(C), e \in C :
       SplitLines(Append(s, e)) = SplitStep(SplitLines(s), e)
<1>1. SplitFold!Run(<< <<>> >>, <<>>) = << <<>> >>
  BY SplitFold!RunEmpty
<1>2. ASSUME NEW C, NEW s \in Seq(C), NEW e \in C
      PROVE  SplitFold!Run(<< <<>> >>, Append(s, e)) = SplitStep(SplitFold!Run(<< <<>> >>, s), e)
  BY SplitFold!RunAppend
<1>3. ASSUME NEW x PROVE SplitLines(x) = SplitFold!Run(<< <<>> >>, x)
  BY DEF SplitLines, SplitFold!Run, SplitFold!FoldLeft, SplitFold!MapThenFoldSet, SplitFold!Max,
         FoldLeft, MapThenFoldSet, Max
<1> QED BY <1>1, <1>2, <1>3

(* The loop of JoinLines after the first line b.                           *)
JoinRun(b, ls) == FoldLeft(JoinStep, b, ls)

(* JoinRun, with no line left.                                             *)
LEMMA JoinRunEmpty ==
  ASSUME NEW b
  PROVE  JoinRun(b, <<>>) = b
<1>1. JoinFold!Run(b, <<>>) = b
  BY JoinFold!RunEmpty
<1>2. JoinRun(b, <<>>) = JoinFold!Run(b, <<>>)
  BY DEF JoinRun, JoinFold!Run, JoinFold!FoldLeft, JoinFold!MapThenFoldSet, JoinFold!Max,
         FoldLeft, MapThenFoldSet, Max
<1> QED BY <1>1, <1>2

(* JoinRun, one line at a time.                                            *)
LEMMA JoinRunAppend ==
  ASSUME NEW C, NEW b, NEW ls \in Seq(C), NEW l \in C
  PROVE  JoinRun(b, Append(ls, l)) = JoinStep(JoinRun(b, ls), l)
<1>1. JoinFold!Run(b, Append(ls, l)) = JoinStep(JoinFold!Run(b, ls), l)
  BY JoinFold!RunAppend
<1>2. ASSUME NEW x PROVE JoinRun(b, x) = JoinFold!Run(b, x)
  BY DEF JoinRun, JoinFold!Run, JoinFold!FoldLeft, JoinFold!MapThenFoldSet, JoinFold!Max,
         FoldLeft, MapThenFoldSet, Max
<1> QED BY <1>1, <1>2

(* A nonempty sequence is its front and its last element.                  *)
LEMMA FrontLast ==
  ASSUME NEW S, NEW s \in Seq(S), s # <<>>
  PROVE  /\ Front(s) \in Seq(S) /\ Last(s) \in S
         /\ Len(Front(s)) = Len(s) - 1
         /\ \A i \in 1..(Len(s) - 1) : Front(s)[i] = s[i]
         /\ Append(Front(s), Last(s)) = s
         /\ Len(s) \in Nat \ {0}
<1>1. Len(s) \in Nat \ {0}
  OBVIOUS
<1>2. /\ Front(s) \in Seq(S) /\ Last(s) \in S
      /\ Len(Front(s)) = Len(s) - 1
      /\ \A i \in 1..(Len(s) - 1) : Front(s)[i] = s[i]
  BY <1>1 DEF Front, Last
<1>3. Append(Front(s), Last(s)) = s
  <2> DEFINE a == Append(Front(s), Last(s))
  <2>1. a \in Seq(S) /\ Len(a) = Len(s)
    BY <1>1, <1>2
  <2>2. ASSUME NEW i \in 1..Len(s) PROVE a[i] = s[i]
    <3>1. CASE i = Len(s)
      BY <1>1, <1>2, <3>1 DEF Last
    <3>2. CASE i # Len(s)
      BY <1>1, <1>2, <3>2
    <3> QED BY <3>1, <3>2
  <2> HIDE DEF a
  <2>3. a = s
    BY <2>1, <2>2, SeqEqual
  <2> QED BY <2>3 DEF a
<1> QED BY <1>1, <1>2, <1>3

(* Front and Last undo Append.                                             *)
LEMMA FrontLastAppend ==
  ASSUME NEW S, NEW s \in Seq(S), NEW e \in S
  PROVE  /\ Append(s, e) \in Seq(S) /\ Append(s, e) # <<>>
         /\ Front(Append(s, e)) = s /\ Last(Append(s, e)) = e
<1> DEFINE a == Append(s, e)
<1>1. a \in Seq(S) /\ a # <<>> /\ Len(a) = Len(s) + 1 /\ Len(s) \in Nat /\ a[Len(s) + 1] = e
      /\ \A i \in 1..Len(s) : a[i] = s[i]
  OBVIOUS
<1> HIDE DEF a
<1>2. Last(a) = e
  BY <1>1 DEF Last
<1>3. Front(a) \in Seq(S) /\ Len(Front(a)) = Len(s) /\ \A i \in 1..Len(s) : Front(a)[i] = s[i]
  BY <1>1, FrontLast
<1>4. Front(a) = s
  BY <1>3, SeqEqual
<1> QED BY <1>1, <1>2, <1>4 DEF a

(* ReplaceAll of the line ends gives a text that ends in the same          *)
(* character, and is empty only for the empty text.                        *)
LEMMA UnixNewlinesType ==
  ASSUME NEW C
  PROVE  \A s \in Seq(C) : /\ UnixNewlines(s) \in Seq(C)
                           /\ UnixNewlines(s) = <<>> <=> s = <<>>
                           /\ s # <<>> => Last(UnixNewlines(s)) = Last(s)
<1> DEFINE P == {s \in Seq(C) : /\ UnixNewlines(s) \in Seq(C)
                                /\ UnixNewlines(s) = <<>> <=> s = <<>>
                                /\ s # <<>> => Last(UnixNewlines(s)) = Last(s)}
<1>1. <<>> \in P
  <2>1. UnixNewlines(<<>>) = <<>>
    BY UnixNewlinesRec
  <2>2. <<>> \in Seq(C)
    OBVIOUS
  <2> QED BY <2>1, <2>2, Zenon
<1>2. ASSUME NEW s \in P, NEW e \in C PROVE Append(s, e) \in P
  <2>1. s \in Seq(C) /\ UnixNewlines(s) \in Seq(C)
    OBVIOUS
  <2>2. UnixNewlines(Append(s, e)) = UnixStep(UnixNewlines(s), e)
    BY <2>1, UnixNewlinesRec
  <2>3. Append(s, e) \in Seq(C) /\ Append(s, e) # <<>> /\ Last(Append(s, e)) = e
    BY <2>1, FrontLastAppend
  <2> DEFINE u == UnixNewlines(s)
  <2>4. UnixStep(u, e) \in Seq(C) /\ UnixStep(u, e) # <<>> /\ Last(UnixStep(u, e)) = e
    <3>1. CASE e = LF /\ u # <<>> /\ Last(u) = CR
      <4>1. Front(u) \in Seq(C)
        BY <2>1, <3>1, FrontLast
      <4> QED BY <3>1, <4>1, FrontLastAppend DEF UnixStep
    <3>2. CASE ~(e = LF /\ u # <<>> /\ Last(u) = CR)
      <4>1. UnixStep(u, e) = Append(u, e)
        BY <3>2 DEF UnixStep
      <4> QED BY <2>1, <4>1, FrontLastAppend
    <3> QED BY <3>1, <3>2
  <2> QED BY <2>2, <2>3, <2>4
<1> HIDE DEF P
<1>3. P = Seq(C)
  <2>1. P \subseteq Seq(C) BY DEF P
  <2> QED BY <1>1, <1>2, <2>1, SeqInd
<1> QED BY <1>3 DEF P

(* What strings.Split returns: at least one line, and no LF in a line.     *)
TextLines(C) == Seq(Seq(C \ {LF})) \ {<<>>}

(* A step of SplitLines keeps the lines such.                              *)
LEMMA SplitStepType ==
  ASSUME NEW C, NEW ls \in TextLines(C), NEW e \in C
  PROVE  SplitStep(ls, e) \in TextLines(C)
<1>1. CASE e = LF
  <2>1. <<>> \in Seq(C \ {LF})
    OBVIOUS
  <2> QED BY <1>1, <2>1, FrontLastAppend DEF SplitStep, TextLines
<1>2. CASE e # LF
  <2>1. Front(ls) \in Seq(Seq(C \ {LF})) /\ Last(ls) \in Seq(C \ {LF})
    BY FrontLast DEF TextLines
  <2>2. Append(Last(ls), e) \in Seq(C \ {LF})
    BY <1>2, <2>1
  <2> QED BY <1>2, <2>1, <2>2, FrontLastAppend DEF SplitStep, TextLines
<1> QED BY <1>1, <1>2

(* SplitLines returns such lines.                                          *)
LEMMA SplitLinesType ==
  ASSUME NEW C
  PROVE  \A s \in Seq(C) : SplitLines(s) \in TextLines(C)
<1> DEFINE P == {s \in Seq(C) : SplitLines(s) \in TextLines(C)}
<1>1. <<>> \in P
  <2>1. << <<>> >> \in TextLines(C)
    BY DEF TextLines
  <2> QED BY <2>1, SplitLinesRec
<1>2. ASSUME NEW s \in P, NEW e \in C PROVE Append(s, e) \in P
  <2>1. s \in Seq(C) /\ SplitLines(s) \in TextLines(C) /\ Append(s, e) \in Seq(C)
    OBVIOUS
  <2> QED BY <2>1, SplitLinesRec, SplitStepType
<1> HIDE DEF P
<1>3. P = Seq(C)
  <2>1. P \subseteq Seq(C) BY DEF P
  <2> QED BY <1>1, <1>2, <2>1, SeqInd
<1> QED BY <1>3 DEF P

(* The lines normalize works on.                                           *)
Lines(s) == SplitLines(UnixNewlines(s))

(* The next LF would make a Windows line end.                              *)
EndsInCR(s) == s # <<>> /\ Last(s) = CR

(* How the lines change when the text grows by a character: it extends the *)
(* last line, or it ends it, taking a CR at its end away.                  *)
LEMMA LinesRec ==
  ASSUME NEW C, NEW s \in Seq(C), NEW e \in C
  PROVE  /\ Lines(s) \in TextLines(C)
         /\ Lines(Append(s, e)) =
              IF e # LF
                THEN Append(Front(Lines(s)), Append(Last(Lines(s)), e))
                ELSE IF EndsInCR(s)
                  THEN Append(Append(Front(Lines(s)), Front(Last(Lines(s)))), <<>>)
                  ELSE Append(Lines(s), <<>>)
         /\ EndsInCR(s) => Last(Lines(s)) # <<>>
<1> DEFINE u == UnixNewlines(s)
<1>1. u \in Seq(C) /\ (u = <<>> <=> s = <<>>) /\ (s # <<>> => Last(u) = Last(s))
  BY UnixNewlinesType
<1>2. UnixNewlines(Append(s, e)) = UnixStep(u, e)
  BY UnixNewlinesRec
<1>3. Lines(s) \in TextLines(C) /\ Lines(s) = SplitLines(u)
  BY <1>1, SplitLinesType DEF Lines
<1>4. Lines(Append(s, e)) = SplitLines(UnixStep(u, e))
  BY <1>2 DEF Lines
<1> HIDE DEF u
<1>5. CASE ~EndsInCR(s) \/ e # LF
  <2>1. UnixStep(u, e) = Append(u, e)
    BY <1>1, <1>5 DEF UnixStep, EndsInCR
  <2>2. SplitLines(Append(u, e)) = SplitStep(SplitLines(u), e)
    BY <1>1, SplitLinesRec
  <2>3. Lines(Append(s, e)) = SplitStep(Lines(s), e)
    BY <1>3, <1>4, <2>1, <2>2
  <2>4. EndsInCR(s) => Last(Lines(s)) # <<>>
    <3> SUFFICES ASSUME EndsInCR(s) PROVE Last(Lines(s)) # <<>>
      OBVIOUS
    <3>1. u # <<>> /\ Last(u) = CR
      BY <1>1 DEF EndsInCR
    <3>2. Front(u) \in Seq(C) /\ CR \in C /\ u = Append(Front(u), CR)
      BY <1>1, <3>1, FrontLast
    <3> DEFINE l == SplitLines(Front(u))
    <3>3. l \in TextLines(C) /\ SplitLines(u) = SplitStep(l, CR)
      BY <3>2, SplitLinesRec, SplitLinesType
    <3> HIDE DEF l
    <3> DEFINE D == C \ {LF}
    <3>4. Front(l) \in Seq(Seq(D)) /\ Last(l) \in Seq(D) /\ CR \in D
      BY <3>2, <3>3, FrontLast DEF TextLines, LF, CR
    <3>5. SplitLines(u) = Append(Front(l), Append(Last(l), CR))
      BY <3>3 DEF SplitStep, LF, CR
    <3> HIDE DEF D
    <3>6. Append(Last(l), CR) \in Seq(D) /\ Append(Last(l), CR) # <<>>
      BY <3>4, FrontLastAppend
    <3> DEFINE x == Append(Last(l), CR)
               E == Seq(D)
    <3>7. Front(l) \in Seq(E) /\ x \in E /\ x # <<>> /\ Lines(s) = Append(Front(l), x)
      BY <1>3, <3>4, <3>5, <3>6
    <3> HIDE DEF x, E
    <3> QED BY <3>7, FrontLastAppend
  <2> QED BY <1>3, <1>5, <2>3, <2>4 DEF SplitStep
<1>6. CASE EndsInCR(s) /\ e = LF
  <2>1. u # <<>> /\ Last(u) = CR
    BY <1>1, <1>6 DEF EndsInCR
  <2>2. Front(u) \in Seq(C) /\ CR \in C /\ u = Append(Front(u), CR)
    BY <1>1, <2>1, FrontLast
  <2>3. UnixStep(u, e) = Append(Front(u), LF)
    BY <1>6, <2>1 DEF UnixStep
  <2> DEFINE l == SplitLines(Front(u))
  <2>4. /\ l \in TextLines(C)
        /\ SplitLines(u) = SplitStep(l, CR)
        /\ SplitLines(Append(Front(u), LF)) = SplitStep(l, LF)
    BY <1>6, <2>2, SplitLinesRec, SplitLinesType
  <2> HIDE DEF l
  <2> DEFINE D == C \ {LF}
  <2>5. /\ l \in Seq(Seq(D)) /\ Front(l) \in Seq(Seq(D)) /\ Last(l) \in Seq(D)
        /\ Append(Front(l), Last(l)) = l
    BY <2>4, FrontLast DEF TextLines
  <2>6. Lines(s) = Append(Front(l), Append(Last(l), CR))
    BY <1>3, <2>4 DEF SplitStep, LF, CR
  <2>7. CR \in D
    BY <2>2 DEF LF, CR
  <2> HIDE DEF D
  <2>8. Append(Last(l), CR) \in Seq(D) /\ Front(Append(Last(l), CR)) = Last(l)
        /\ Append(Last(l), CR) # <<>>
    BY <2>5, <2>7, FrontLastAppend
  <2>9. Front(Lines(s)) = Front(l) /\ Last(Lines(s)) = Append(Last(l), CR)
    <3> DEFINE x == Append(Last(l), CR)
               E == Seq(D)
    <3>1. Front(l) \in Seq(E) /\ x \in E /\ Lines(s) = Append(Front(l), x)
      BY <2>5, <2>6, <2>8
    <3> HIDE DEF x, E
    <3>2. Front(Lines(s)) = Front(l) /\ Last(Lines(s)) = x
      BY <3>1, FrontLastAppend
    <3> QED BY <3>2 DEF x
  <2>10. Lines(Append(s, e)) = Append(l, <<>>)
    BY <1>4, <2>3, <2>4 DEF SplitStep
  <2> QED BY <1>3, <1>6, <2>5, <2>8, <2>9, <2>10
<1> QED BY <1>5, <1>6

(* The line of position k of s, from 1.                                    *)
Row(s, k) == Cardinality(Breaks(s, k)) + 1

(* Its column, from 1.                                                     *)
Col(s, k) == k - Max({0} \cup Breaks(s, k))

(* Rows and columns are positive numbers.                                  *)
LEMMA BreaksFinite ==
  ASSUME NEW s, NEW k \in Nat \ {0}
  PROVE  /\ IsFiniteSet(Breaks(s, k)) /\ Cardinality(Breaks(s, k)) \in Nat
         /\ Max({0} \cup Breaks(s, k)) \in 0..(k - 1)
         /\ Row(s, k) \in Nat \ {0} /\ Col(s, k) \in Nat \ {0}
<1>1. k - 1 \in Nat /\ Breaks(s, k) \in SUBSET (1..(k - 1))
  BY DEF Breaks
<1>2. IsFiniteSet(1..(k - 1))
  BY <1>1, FS_Interval
<1>3. IsFiniteSet(Breaks(s, k))
  BY <1>1, <1>2, FS_Subset
<1>4. Cardinality(Breaks(s, k)) \in Nat
  BY <1>3, FS_CardinalityType
<1>5. Max({0} \cup Breaks(s, k)) \in 0..(k - 1)
  BY <1>1, MaxWithZero
<1> QED BY <1>3, <1>4, <1>5 DEF Row, Col

(* A text that grows keeps the positions of its characters, and the next   *)
(* position moves on by a column or to a new line.                         *)
LEMMA PositionAppend ==
  ASSUME NEW C, NEW s \in Seq(C), NEW e \in C
  PROVE  /\ \A k \in 1..(Len(s) + 1) :
              /\ Breaks(Append(s, e), k) = Breaks(s, k)
              /\ Row(Append(s, e), k) = Row(s, k)
              /\ Col(Append(s, e), k) = Col(s, k)
         /\ e = LF => /\ Row(Append(s, e), Len(s) + 2) = Row(s, Len(s) + 1) + 1
                      /\ Col(Append(s, e), Len(s) + 2) = 1
         /\ e # LF => /\ Row(Append(s, e), Len(s) + 2) = Row(s, Len(s) + 1)
                      /\ Col(Append(s, e), Len(s) + 2) = Col(s, Len(s) + 1) + 1
<1> DEFINE n == Len(s)
           a == Append(s, e)
<1>1. /\ n \in Nat /\ Len(a) = n + 1 /\ a[n + 1] = e
      /\ \A i \in 1..n : a[i] = s[i]
  OBVIOUS
<1> HIDE DEF a, n
<1>2. ASSUME NEW k \in 1..(n + 1)
      PROVE  Breaks(a, k) = Breaks(s, k) /\ Row(a, k) = Row(s, k) /\ Col(a, k) = Col(s, k)
  <2>1. \A i \in 1..(k - 1) : a[i] = s[i]
    BY <1>1
  <2>2. Breaks(a, k) = Breaks(s, k)
    BY <2>1 DEF Breaks
  <2> QED BY <2>2 DEF Row, Col
<1>3. n + 1 \in Nat \ {0} /\ n + 1 \in 1..(n + 1) /\ n + 2 \in Nat
  BY <1>1
<1>4. 1..((n + 2) - 1) = 1..((n + 1) - 1) \cup {n + 1}
  BY <1>1
<1>5. IsFiniteSet(Breaks(s, n + 1)) /\ Cardinality(Breaks(s, n + 1)) \in Nat
      /\ n + 1 \notin Breaks(s, n + 1) /\ Breaks(s, n + 1) \subseteq 1..n
      /\ Max({0} \cup Breaks(s, n + 1)) \in 0..n
  <2>1. (n + 1) - 1 = n
    BY <1>1
  <2>2. n + 1 \notin Breaks(s, n + 1) /\ Breaks(s, n + 1) \subseteq 1..n
    BY <1>1 DEF Breaks
  <2>3. /\ IsFiniteSet(Breaks(s, n + 1)) /\ Cardinality(Breaks(s, n + 1)) \in Nat
        /\ Max({0} \cup Breaks(s, n + 1)) \in 0..((n + 1) - 1)
    BY <1>3, BreaksFinite
  <2> QED BY <2>1, <2>2, <2>3
<1>6. Breaks(a, n + 2) = Breaks(a, n + 1) \cup {i \in {n + 1} : a[i] = LF}
  <2> DEFINE A == 1..((n + 2) - 1)
             B == 1..((n + 1) - 1)
  <2>1. A = B \cup {n + 1}
    BY <1>4
  <2>2. \A i : i \in Breaks(a, n + 2) <=> i \in A /\ a[i] = LF
    BY DEF Breaks
  <2>3. \A i : i \in Breaks(a, n + 1) <=> i \in B /\ a[i] = LF
    BY DEF Breaks
  <2> HIDE DEF A, B
  <2> QED BY <2>1, <2>2, <2>3
<1>7. CASE e = LF
  <2>1. Breaks(a, n + 2) = Breaks(s, n + 1) \cup {n + 1}
    BY <1>1, <1>2, <1>3, <1>6, <1>7
  <2>2. Cardinality(Breaks(a, n + 2)) = Cardinality(Breaks(s, n + 1)) + 1
    BY <1>5, <2>1, FS_AddElement
  <2>3. Max({0} \cup Breaks(a, n + 2)) = n + 1
    <3> DEFINE t == {0} \cup Breaks(a, n + 2)
    <3>1. t \subseteq Int /\ n + 1 \in t /\ \A i \in t : i <= n + 1
      BY <1>1, <1>5, <2>1
    <3> QED BY <3>1, MaxIs
  <2> QED BY <1>1, <1>2, <1>3, <1>7, <2>2, <2>3 DEF Row, Col, n, a
<1>8. CASE e # LF
  <2>1. Breaks(a, n + 2) = Breaks(s, n + 1)
    BY <1>1, <1>2, <1>3, <1>6, <1>8
  <2>2. Row(a, n + 2) = Row(s, n + 1)
    BY <2>1 DEF Row
  <2>3. Col(a, n + 2) = Col(s, n + 1) + 1
    <3> DEFINE m == Max({0} \cup Breaks(s, n + 1))
    <3>1. Col(a, n + 2) = (n + 2) - m /\ Col(s, n + 1) = (n + 1) - m
      BY <2>1 DEF Col
    <3>2. m \in 0..n
      BY <1>5
    <3> HIDE DEF m
    <3> QED BY <1>1, <3>1, <3>2
  <2> QED BY <1>2, <1>8, <2>2, <2>3 DEF n, a
<1> QED BY <1>7, <1>8

(* A later position is in a later line, or in the same line at a later     *)
(* column.                                                                 *)
LEMMA PositionOrder ==
  ASSUME NEW s, NEW j \in Nat \ {0}, NEW k \in Nat \ {0}, j < k
  PROVE  /\ Row(s, j) <= Row(s, k)
         /\ Row(s, j) = Row(s, k) => Breaks(s, j) = Breaks(s, k) /\ Col(s, j) < Col(s, k)
<1>1. Breaks(s, j) \in SUBSET Breaks(s, k)
  BY DEF Breaks
<1>2. /\ IsFiniteSet(Breaks(s, k)) /\ Cardinality(Breaks(s, k)) \in Nat
      /\ Cardinality(Breaks(s, j)) \in Nat
      /\ Max({0} \cup Breaks(s, j)) \in 0..(j - 1)
  BY BreaksFinite
<1>3. Cardinality(Breaks(s, j)) <= Cardinality(Breaks(s, k))
      /\ (Cardinality(Breaks(s, k)) = Cardinality(Breaks(s, j)) => Breaks(s, k) = Breaks(s, j))
  BY <1>1, <1>2, FS_Subset
<1>4. Row(s, j) = Row(s, k) => Breaks(s, j) = Breaks(s, k)
  BY <1>2, <1>3 DEF Row
<1>5. Breaks(s, j) = Breaks(s, k) => Col(s, j) < Col(s, k)
  BY <1>2 DEF Col
<1> QED BY <1>2, <1>3, <1>4, <1>5 DEF Row

(* The character at k is in some line: no LF, and no CR of a Windows line  *)
(* end.                                                                    *)
Kept(s, k) == s[k] # LF /\ ~(s[k] = CR /\ k < Len(s) /\ s[k + 1] = LF)

(* Line i of ls has a column j.                                            *)
IsCell(ls, i, j) == i \in DOMAIN ls /\ j \in DOMAIN ls[i]

(* The lines ls are the text s laid out: the next character comes after    *)
(* the last line, each character that is kept is in its cell, and each     *)
(* cell has such a character.                                              *)
Laid(s, ls) ==
  /\ Len(ls) = Row(s, Len(s) + 1)
  /\ Len(Last(ls)) + 1 = Col(s, Len(s) + 1)
  /\ \A k \in 1..Len(s) : Kept(s, k) =>
       IsCell(ls, Row(s, k), Col(s, k)) /\ ls[Row(s, k)][Col(s, k)] = s[k]
  /\ \A i, j \in Nat : IsCell(ls, i, j) =>
       \E k \in 1..Len(s) : Kept(s, k) /\ Row(s, k) = i /\ Col(s, k) = j

(* The empty text is one empty line.                                       *)
LEMMA LaidEmpty == Laid(<<>>, << <<>> >>)
<1> DEFINE s == <<>>
<1>1. Breaks(s, 1) = {}
  BY DEF Breaks
<1>2. Cardinality({}) = 0 /\ {0} \cup {} = {0}
  BY FS_EmptySet
<1>3. Max({0}) = 0
  BY MaxIs
<1>4. Row(s, 1) = 1 /\ Col(s, 1) = 1
  <2>1. Row(s, 1) = 0 + 1 /\ Col(s, 1) = 1 - 0
    BY <1>1, <1>2, <1>3, Zenon DEF Row, Col
  <2> QED BY <2>1
<1>5. Len(s) = 0 /\ Len(<< <<>> >>) = 1 /\ Last(<< <<>> >>) = <<>> /\ 1..0 = {}
  BY DEF Last
<1>6. \A i, j \in Nat : ~IsCell(<< <<>> >>, i, j)
  BY DEF IsCell
<1> HIDE DEF s
<1>7. Laid(s, << <<>> >>)
  BY <1>4, <1>5, <1>6 DEF Laid, s
<1> QED BY <1>7 DEF s

(* A character other than LF is laid at the end of the last line.          *)
LEMMA LaidLetter ==
  ASSUME NEW C, NEW s \in Seq(C), NEW e \in C, e # LF,
         NEW ls \in TextLines(C), Laid(s, ls)
  PROVE  Laid(Append(s, e), Append(Front(ls), Append(Last(ls), e)))
<1> DEFINE n == Len(s)
           a == Append(s, e)
           l == Append(Last(ls), e)
           ms == Append(Front(ls), l)
           D == C \ {LF}
           r == Len(ls)
           c == Len(Last(ls)) + 1
<1>1. n \in Nat /\ Len(a) = n + 1 /\ a[n + 1] = e /\ \A i \in 1..n : a[i] = s[i]
  OBVIOUS
<1>2. /\ ls \in Seq(Seq(D)) /\ Front(ls) \in Seq(Seq(D)) /\ Last(ls) \in Seq(D) /\ e \in D
      /\ Len(Front(ls)) = r - 1 /\ r \in Nat \ {0}
      /\ \A i \in 1..(r - 1) : Front(ls)[i] = ls[i]
      /\ ls[r] = Last(ls)
  BY FrontLast DEF TextLines, Last
<1> HIDE DEF D, a, n
<1>3. /\ l \in Seq(D) /\ c \in Nat \ {0} /\ Len(l) = c /\ l[c] = e
      /\ \A j \in 1..(c - 1) : l[j] = Last(ls)[j]
      /\ Len(Last(ls)) = c - 1
  BY <1>2
<1> HIDE DEF l, c
<1>4. /\ ms \in Seq(Seq(D)) /\ Len(ms) = r /\ ms[r] = l
      /\ \A i \in 1..(r - 1) : ms[i] = ls[i]
      /\ Last(ms) = l
  BY <1>2, <1>3 DEF Last
<1> HIDE DEF ms, r
<1>5. Row(s, n + 1) = r /\ Col(s, n + 1) = c
  BY <1>3 DEF Laid, r, n
<1>6. /\ \A k \in 1..(n + 1) : Row(a, k) = Row(s, k) /\ Col(a, k) = Col(s, k)
      /\ Row(a, n + 2) = r /\ Col(a, n + 2) = c + 1
  BY <1>5, PositionAppend DEF a, n
<1>7. \A k \in 1..n : Kept(a, k) <=> Kept(s, k)
  BY <1>1 DEF Kept, n
<1>8. Kept(a, n + 1)
  BY <1>1 DEF Kept
<1>9. ASSUME NEW i \in Nat, NEW j \in Nat
      PROVE  /\ IsCell(ms, i, j) <=> IsCell(ls, i, j) \/ (i = r /\ j = c)
             /\ IsCell(ls, i, j) => ms[i][j] = ls[i][j]
  <2>1. DOMAIN ms = 1..r /\ DOMAIN ls = 1..r
    BY <1>2, <1>4 DEF r
  <2>2. CASE i = r
    <3>1. DOMAIN ms[i] = 1..c /\ DOMAIN ls[i] = 1..(c - 1)
      BY <1>2, <1>3, <1>4, <2>2
    <3> QED BY <1>2, <1>3, <1>4, <2>1, <2>2, <3>1 DEF IsCell
  <2>3. CASE i # r
    <3>1. i \in 1..r => ms[i] = ls[i]
      BY <1>2, <1>4, <2>3
    <3> QED BY <2>1, <2>3, <3>1 DEF IsCell
  <2> QED BY <2>2, <2>3
<1>10. ASSUME NEW k \in 1..(n + 1), Kept(a, k)
       PROVE  IsCell(ms, Row(a, k), Col(a, k)) /\ ms[Row(a, k)][Col(a, k)] = a[k]
  <2>1. CASE k = n + 1
    <3>1. Row(a, k) = r /\ Col(a, k) = c /\ a[k] = e /\ r \in Nat /\ c \in Nat
      BY <1>1, <1>2, <1>3, <1>5, <1>6, <2>1
    <3> QED BY <1>3, <1>4, <1>9, <3>1
  <2>2. CASE k # n + 1
    <3>1. k \in 1..n /\ Kept(s, k) /\ a[k] = s[k]
      BY <1>1, <1>7, <1>10, <2>2
    <3>2. IsCell(ls, Row(s, k), Col(s, k)) /\ ls[Row(s, k)][Col(s, k)] = s[k]
      BY <3>1 DEF Laid, n
    <3>3. Row(s, k) \in Nat /\ Col(s, k) \in Nat
      <4>1. k \in Nat \ {0}
        BY <1>1, <3>1
      <4> QED BY <4>1, BreaksFinite
    <3> QED BY <1>6, <1>9, <3>1, <3>2, <3>3
  <2> QED BY <2>1, <2>2
<1>11. ASSUME NEW i \in Nat, NEW j \in Nat, IsCell(ms, i, j)
       PROVE  \E k \in 1..(n + 1) : Kept(a, k) /\ Row(a, k) = i /\ Col(a, k) = j
  <2>1. CASE i = r /\ j = c
    <3>1. n + 1 \in 1..(n + 1)
      BY <1>1
    <3> QED BY <1>5, <1>6, <1>8, <2>1, <3>1
  <2>2. CASE ~(i = r /\ j = c)
    <3>1. IsCell(ls, i, j)
      BY <1>9, <1>11, <2>2
    <3>2. PICK k \in 1..n : Kept(s, k) /\ Row(s, k) = i /\ Col(s, k) = j
      BY <3>1 DEF Laid, n
    <3>3. k \in 1..(n + 1)
      BY <1>1
    <3> QED BY <1>6, <1>7, <3>2, <3>3
  <2> QED BY <2>1, <2>2
<1>12. Len(a) + 1 = n + 2
  BY <1>1
<1>13. Laid(a, ms)
  <2>1. Len(ms) = Row(a, Len(a) + 1) /\ Len(Last(ms)) + 1 = Col(a, Len(a) + 1)
    BY <1>3, <1>4, <1>6, <1>12
  <2> QED BY <1>1, <1>10, <1>11, <2>1 DEF Laid
<1> QED BY <1>13 DEF a, ms, l

(* An LF without a CR before it begins a line.                             *)
LEMMA LaidLineBreak ==
  ASSUME NEW C, NEW s \in Seq(C), LF \in C, ~EndsInCR(s),
         NEW ls \in TextLines(C), Laid(s, ls)
  PROVE  Laid(Append(s, LF), Append(ls, <<>>))
<1> DEFINE n == Len(s)
           a == Append(s, LF)
           ms == Append(ls, <<>>)
           D == C \ {LF}
           r == Len(ls)
<1>1. n \in Nat /\ Len(a) = n + 1 /\ a[n + 1] = LF /\ \A i \in 1..n : a[i] = s[i]
  OBVIOUS
<1>2. ls \in Seq(Seq(D)) /\ r \in Nat \ {0} /\ <<>> \in Seq(D) /\ DOMAIN ls = 1..r
  BY FrontLast DEF TextLines
<1>3. n # 0 => s[n] # CR
  BY DEF EndsInCR, Last
<1> HIDE DEF D, a, n
<1>4. /\ ms \in Seq(Seq(D)) /\ Len(ms) = r + 1 /\ ms[r + 1] = <<>> /\ DOMAIN ms = 1..(r + 1)
      /\ \A i \in 1..r : ms[i] = ls[i]
      /\ Last(ms) = <<>>
  BY <1>2 DEF Last
<1> HIDE DEF ms
<1>5. Row(s, n + 1) = r
  BY DEF Laid, n
<1> HIDE DEF r
<1>6. /\ \A k \in 1..(n + 1) : Row(a, k) = Row(s, k) /\ Col(a, k) = Col(s, k)
      /\ Row(a, n + 2) = r + 1 /\ Col(a, n + 2) = 1
  BY <1>5, PositionAppend DEF a, n
<1>7. \A k \in 1..n : Kept(a, k) <=> Kept(s, k)
  BY <1>1, <1>3 DEF Kept, n
<1>8. ~Kept(a, n + 1)
  BY <1>1 DEF Kept
<1>9. ASSUME NEW i \in Nat, NEW j \in Nat
      PROVE  /\ IsCell(ms, i, j) <=> IsCell(ls, i, j)
             /\ IsCell(ls, i, j) => ms[i][j] = ls[i][j]
  <2>1. CASE i = r + 1
    BY <1>2, <1>4, <2>1 DEF IsCell
  <2>2. CASE i # r + 1
    BY <1>2, <1>4, <2>2 DEF IsCell
  <2> QED BY <2>1, <2>2
<1>10. ASSUME NEW k \in 1..(n + 1), Kept(a, k)
       PROVE  IsCell(ms, Row(a, k), Col(a, k)) /\ ms[Row(a, k)][Col(a, k)] = a[k]
  <2>1. k \in 1..n /\ Kept(s, k) /\ a[k] = s[k]
    BY <1>1, <1>7, <1>8, <1>10
  <2>2. IsCell(ls, Row(s, k), Col(s, k)) /\ ls[Row(s, k)][Col(s, k)] = s[k]
    BY <2>1 DEF Laid, n
  <2>3. Row(s, k) \in Nat /\ Col(s, k) \in Nat
    <3>1. k \in Nat \ {0}
      BY <1>1, <2>1
    <3> QED BY <3>1, BreaksFinite
  <2> QED BY <1>6, <1>9, <2>1, <2>2, <2>3
<1>11. ASSUME NEW i \in Nat, NEW j \in Nat, IsCell(ms, i, j)
       PROVE  \E k \in 1..(n + 1) : Kept(a, k) /\ Row(a, k) = i /\ Col(a, k) = j
  <2>1. PICK k \in 1..n : Kept(s, k) /\ Row(s, k) = i /\ Col(s, k) = j
    BY <1>9, <1>11 DEF Laid, n
  <2>2. k \in 1..(n + 1)
    BY <1>1
  <2> QED BY <1>6, <1>7, <2>1, <2>2
<1>12. Len(a) + 1 = n + 2 /\ Len(<<>>) = 0
  BY <1>1
<1>13. Laid(a, ms)
  <2>1. Len(ms) = Row(a, Len(a) + 1) /\ Len(Last(ms)) + 1 = Col(a, Len(a) + 1)
    BY <1>4, <1>6, <1>12
  <2> QED BY <1>1, <1>10, <1>11, <2>1 DEF Laid
<1> QED BY <1>13 DEF a, ms

(* An LF after a CR takes the CR away and begins a line.                   *)
LEMMA LaidWindowsBreak ==
  ASSUME NEW C, NEW s \in Seq(C), LF \in C, EndsInCR(s),
         NEW ls \in TextLines(C), Laid(s, ls), Last(ls) # <<>>
  PROVE  Laid(Append(s, LF), Append(Append(Front(ls), Front(Last(ls))), <<>>))
<1> DEFINE n == Len(s)
           a == Append(s, LF)
           l == Front(Last(ls))
           ms == Append(Append(Front(ls), l), <<>>)
           D == C \ {LF}
           r == Len(ls)
           c == Len(Last(ls))
<1>1. n \in Nat \ {0} /\ Len(a) = n + 1 /\ a[n + 1] = LF /\ \A i \in 1..n : a[i] = s[i]
  BY DEF EndsInCR
<1>2. s[n] = CR
  BY DEF EndsInCR, Last
<1>3. /\ ls \in Seq(Seq(D)) /\ Front(ls) \in Seq(Seq(D)) /\ Last(ls) \in Seq(D) /\ <<>> \in Seq(D)
      /\ Len(Front(ls)) = r - 1 /\ r \in Nat \ {0} /\ DOMAIN ls = 1..r
      /\ \A i \in 1..(r - 1) : Front(ls)[i] = ls[i]
      /\ ls[r] = Last(ls)
  BY FrontLast DEF TextLines, Last
<1> HIDE DEF D, a, n
<1>4. /\ l \in Seq(D) /\ c \in Nat \ {0} /\ Len(l) = c - 1
      /\ \A j \in 1..(c - 1) : l[j] = Last(ls)[j]
      /\ DOMAIN l = 1..(c - 1) /\ DOMAIN Last(ls) = 1..c
  <2> DEFINE x == Last(ls)
  <2>1. x \in Seq(D) /\ x # <<>>
    BY <1>3
  <2> HIDE DEF x
  <2>2. /\ Front(x) \in Seq(D) /\ Len(x) \in Nat \ {0} /\ Len(Front(x)) = Len(x) - 1
        /\ \A j \in 1..(Len(x) - 1) : Front(x)[j] = x[j]
    BY <2>1, FrontLast
  <2>3. DOMAIN Front(x) = 1..(Len(x) - 1) /\ DOMAIN x = 1..Len(x)
    BY <2>1, <2>2
  <2> QED BY <2>1, <2>2, <2>3 DEF x
<1> HIDE DEF l
<1>5. /\ ms \in Seq(Seq(D)) /\ Len(ms) = r + 1 /\ ms[r + 1] = <<>> /\ ms[r] = l
      /\ DOMAIN ms = 1..(r + 1)
      /\ \A i \in 1..(r - 1) : ms[i] = ls[i]
      /\ Last(ms) = <<>>
  BY <1>3, <1>4 DEF Last
<1> HIDE DEF ms
<1>6. Row(s, n + 1) = r /\ Col(s, n + 1) = c + 1
  BY DEF Laid, n
<1> HIDE DEF r, c
<1>7. /\ \A k \in 1..(n + 1) : Row(a, k) = Row(s, k) /\ Col(a, k) = Col(s, k)
      /\ Row(a, n + 2) = r + 1 /\ Col(a, n + 2) = 1
  BY <1>6, PositionAppend DEF a, n
<1>8. Row(s, n) = r /\ Col(s, n) = c
  <2>1. s[n] # LF
    BY <1>2 DEF LF, CR
  <2>2. Breaks(s, n + 1) = Breaks(s, n)
    <3> DEFINE A == 1..((n + 1) - 1)
               B == 1..(n - 1)
    <3>1. \A i : i \in A <=> i \in B \cup {n}
      BY <1>1
    <3>2. \A i : i \in Breaks(s, n + 1) <=> i \in A /\ s[i] = LF
      BY DEF Breaks
    <3>3. \A i : i \in Breaks(s, n) <=> i \in B /\ s[i] = LF
      BY DEF Breaks
    <3> HIDE DEF A, B
    <3> QED BY <2>1, <3>1, <3>2, <3>3
  <2> DEFINE m == Max({0} \cup Breaks(s, n))
  <2>3. Row(s, n) = Row(s, n + 1) /\ Col(s, n) = n - m /\ Col(s, n + 1) = (n + 1) - m
    BY <2>2 DEF Row, Col
  <2>4. m \in 0..(n - 1)
    BY <1>1, BreaksFinite
  <2> HIDE DEF m
  <2> QED BY <1>1, <1>3, <1>4, <1>6, <2>3, <2>4
<1>9. \A k \in 1..n : Kept(a, k) <=> Kept(s, k) /\ k # n
  BY <1>1, <1>2 DEF Kept, n
<1>10. ~Kept(a, n + 1)
  BY <1>1 DEF Kept
<1>11. ASSUME NEW i \in Nat, NEW j \in Nat
      PROVE  /\ IsCell(ms, i, j) <=> IsCell(ls, i, j) /\ ~(i = r /\ j = c)
             /\ IsCell(ms, i, j) => ms[i][j] = ls[i][j]
  <2>1. CASE i = r + 1
    BY <1>3, <1>5, <2>1 DEF IsCell
  <2>2. CASE i = r
    <3>1. IsCell(ms, i, j) <=> j \in 1..(c - 1)
      BY <1>3, <1>4, <1>5, <2>2 DEF IsCell
    <3>2. IsCell(ls, i, j) <=> j \in 1..c
      BY <1>3, <1>4, <1>5, <2>2 DEF IsCell
    <3>3. j \in 1..(c - 1) => ms[i][j] = ls[i][j]
      BY <1>3, <1>4, <1>5, <2>2
    <3> QED BY <1>4, <2>2, <3>1, <3>2, <3>3
  <2>3. CASE i # r + 1 /\ i # r
    <3>1. i \in DOMAIN ls => ms[i] = ls[i]
      BY <1>3, <1>5, <2>3
    <3>2. i \in DOMAIN ms <=> i \in DOMAIN ls
      BY <1>3, <1>5, <2>3
    <3> QED BY <2>3, <3>1, <3>2 DEF IsCell
  <2> QED BY <2>1, <2>2, <2>3
<1>12. ASSUME NEW k \in 1..(n + 1), Kept(a, k)
       PROVE  IsCell(ms, Row(a, k), Col(a, k)) /\ ms[Row(a, k)][Col(a, k)] = a[k]
  <2>1. k \in 1..n /\ Kept(s, k) /\ a[k] = s[k] /\ k < n /\ k \in Nat \ {0}
    BY <1>1, <1>9, <1>10, <1>12
  <2>2. IsCell(ls, Row(s, k), Col(s, k)) /\ ls[Row(s, k)][Col(s, k)] = s[k]
    BY <2>1 DEF Laid, n
  <2>3. Row(s, k) \in Nat /\ Col(s, k) \in Nat
    BY <2>1, BreaksFinite
  <2>4. ~(Row(s, k) = r /\ Col(s, k) = c)
    <3>1. Row(s, k) = Row(s, n) => Col(s, k) < Col(s, n)
      BY <1>1, <2>1, PositionOrder
    <3> QED BY <1>4, <1>8, <2>3, <3>1
  <2> QED BY <1>7, <1>11, <2>1, <2>2, <2>3, <2>4
<1>13. ASSUME NEW i \in Nat, NEW j \in Nat, IsCell(ms, i, j)
       PROVE  \E k \in 1..(n + 1) : Kept(a, k) /\ Row(a, k) = i /\ Col(a, k) = j
  <2>1. IsCell(ls, i, j) /\ ~(i = r /\ j = c)
    BY <1>11, <1>13
  <2>2. PICK k \in 1..n : Kept(s, k) /\ Row(s, k) = i /\ Col(s, k) = j
    BY <2>1 DEF Laid, n
  <2>3. k \in 1..(n + 1) /\ k # n
    BY <1>1, <1>8, <2>1, <2>2
  <2> QED BY <1>7, <1>9, <2>2, <2>3
<1>14. Len(a) + 1 = n + 2 /\ Len(<<>>) = 0
  BY <1>1
<1>15. Laid(a, ms)
  <2>1. Len(ms) = Row(a, Len(a) + 1) /\ Len(Last(ms)) + 1 = Col(a, Len(a) + 1)
    BY <1>5, <1>7, <1>14
  <2> QED BY <1>1, <1>12, <1>13, <2>1 DEF Laid
<1> QED BY <1>15 DEF a, ms, l

(* The lines that normalize cuts a text into are the text laid out: every  *)
(* character but the line ends is in the line and the column where a       *)
(* reader sees it.                                                         *)
THEOREM LinesAreLaid ==
  ASSUME NEW C
  PROVE  \A s \in Seq(C) : Laid(s, Lines(s))
<1> DEFINE P == {s \in Seq(C) : Laid(s, Lines(s))}
<1>1. <<>> \in P
  <2>1. Lines(<<>>) = << <<>> >>
    BY UnixNewlinesRec, SplitLinesRec DEF Lines
  <2>2. <<>> \in Seq(C)
    OBVIOUS
  <2> QED BY <2>1, <2>2, LaidEmpty, Zenon
<1>2. ASSUME NEW s \in P, NEW e \in C PROVE Append(s, e) \in P
  <2>1. s \in Seq(C) /\ Laid(s, Lines(s)) /\ Append(s, e) \in Seq(C)
    OBVIOUS
  <2>2. Lines(s) \in TextLines(C) /\ (EndsInCR(s) => Last(Lines(s)) # <<>>)
    BY <2>1, LinesRec
  <2>3. Laid(Append(s, e), Lines(Append(s, e)))
    <3>1. CASE e # LF
      BY <2>1, <2>2, <3>1, LinesRec, LaidLetter
    <3>2. CASE e = LF /\ EndsInCR(s)
      BY <2>1, <2>2, <3>2, LinesRec, LaidWindowsBreak
    <3>3. CASE e = LF /\ ~EndsInCR(s)
      BY <2>1, <2>2, <3>3, LinesRec, LaidLineBreak
    <3> QED BY <3>1, <3>2, <3>3
  <2> QED BY <2>1, <2>3
<1> HIDE DEF P
<1>3. P = Seq(C)
  <2>1. P \subseteq Seq(C) BY DEF P
  <2> QED BY <1>1, <1>2, <2>1, SeqInd
<1> QED BY <1>3 DEF P

(* TrimTail keeps what has a member not to be cut at or after it.          *)
LEMMA TrimTailSpec ==
  ASSUME NEW S, NEW s \in Seq(S), NEW cut
  PROVE  /\ TrimTail(s, cut) \in Seq(S)
         /\ \A j \in Nat : j \in DOMAIN TrimTail(s, cut)
              <=> j \in DOMAIN s /\ \E m \in DOMAIN s : j <= m /\ s[m] \notin cut
         /\ \A j \in DOMAIN TrimTail(s, cut) : TrimTail(s, cut)[j] = s[j]
         /\ TrimTail(s, cut) # <<>> => Last(TrimTail(s, cut)) \notin cut
<1> DEFINE n == Len(s)
           t == {i \in DOMAIN s : s[i] \notin cut}
           m == Max({0} \cup t)
           u == SubSeq(s, 1, m)
<1>1. n \in Nat /\ DOMAIN s = 1..n
  OBVIOUS
<1>2. t \in SUBSET (1..n)
  BY <1>1
<1> HIDE DEF t
<1>3. m \in {0} \cup t /\ m \in 0..n /\ \A i \in t : i <= m
  BY <1>1, <1>2, MaxWithZero
<1> HIDE DEF m
<1>4. u \in Seq(S) /\ Len(u) = m /\ DOMAIN u = 1..m /\ \A j \in 1..m : u[j] = s[j]
  BY <1>1, <1>3
<1> HIDE DEF u
<1>5. ASSUME NEW j \in Nat
      PROVE  j \in 1..m <=> j \in DOMAIN s /\ \E i \in DOMAIN s : j <= i /\ s[i] \notin cut
  <2>1. ASSUME j \in 1..m PROVE j \in DOMAIN s /\ \E i \in DOMAIN s : j <= i /\ s[i] \notin cut
    <3>1. m \in t
      BY <1>3, <2>1
    <3> QED BY <1>1, <1>3, <2>1, <3>1 DEF t
  <2>2. ASSUME j \in DOMAIN s, NEW i \in DOMAIN s, j <= i, s[i] \notin cut PROVE j \in 1..m
    <3>1. i \in t
      BY <2>2 DEF t
    <3> QED BY <1>1, <1>3, <2>2, <3>1
  <2> QED BY <2>1, <2>2
<1>6. u # <<>> => Last(u) \notin cut
  <2> SUFFICES ASSUME u # <<>> PROVE Last(u) \notin cut
    OBVIOUS
  <2>1. m # 0
    BY <1>4
  <2>2. m \in t /\ Last(u) = s[m]
    BY <1>3, <1>4, <2>1 DEF Last
  <2> QED BY <2>2 DEF t
<1>7. TrimTail(s, cut) = u
  BY DEF TrimTail, u, m, t
<1> QED BY <1>4, <1>5, <1>6, <1>7

(* Something other than a blank is at column j of line i or after it.      *)
Visible(ls, i, j) == \E m \in DOMAIN ls[i] : j <= m /\ ls[i][m] \notin Blanks

(* The lines after TrimRight of each.                                      *)
Trimmed(ls) == [i \in DOMAIN ls |-> TrimTail(ls[i], Blanks)]

(* The lines that normalize joins.                                         *)
NormalLines(s) == TrimTail(Trimmed(Lines(s)), {<<>>})

(* The characters of lines, with their line from 0 and their column.       *)
Cells(ls) == UNION {{<<i - 1, j, ls[i][j]>> : j \in DOMAIN ls[i]} : i \in DOMAIN ls}

(* Trimming the lines keeps the visible cells.                             *)
LEMMA TrimmedSpec ==
  ASSUME NEW C, NEW ls \in TextLines(C)
  PROVE  /\ Trimmed(ls) \in Seq(Seq(C \ {LF}))
         /\ \A i, j \in Nat : IsCell(Trimmed(ls), i, j)
              <=> IsCell(ls, i, j) /\ \E m \in DOMAIN ls[i] : j <= m /\ ls[i][m] \notin Blanks
         /\ \A i, j \in Nat : IsCell(Trimmed(ls), i, j) => Trimmed(ls)[i][j] = ls[i][j]
<1> DEFINE D == C \ {LF}
<1>1. ls \in Seq(Seq(D))
  BY DEF TextLines
<1> HIDE DEF D
<1>2. /\ DOMAIN Trimmed(ls) = DOMAIN ls
      /\ \A i \in DOMAIN ls : Trimmed(ls)[i] = TrimTail(ls[i], Blanks)
  BY DEF Trimmed
<1>3. \A i \in DOMAIN ls : ls[i] \in Seq(D)
  BY <1>1
<1>4. Trimmed(ls) \in Seq(Seq(D))
  <2>1. \A i \in DOMAIN ls : TrimTail(ls[i], Blanks) \in Seq(D)
    BY <1>3, TrimTailSpec
  <2>2. DOMAIN ls = 1..Len(ls) /\ Len(ls) \in Nat
    BY <1>1
  <2> QED BY <2>1, <2>2 DEF Trimmed
<1>5. ASSUME NEW i \in Nat, NEW j \in Nat
      PROVE  /\ IsCell(Trimmed(ls), i, j)
              <=> IsCell(ls, i, j) /\ \E m \in DOMAIN ls[i] : j <= m /\ ls[i][m] \notin Blanks
             /\ IsCell(Trimmed(ls), i, j) => Trimmed(ls)[i][j] = ls[i][j]
  <2>1. CASE i \in DOMAIN ls
    <3> DEFINE l == ls[i]
    <3>1. l \in Seq(D) /\ Trimmed(ls)[i] = TrimTail(l, Blanks)
      BY <1>2, <1>3, <2>1
    <3>2. /\ IsCell(Trimmed(ls), i, j) <=> j \in DOMAIN TrimTail(l, Blanks)
          /\ IsCell(ls, i, j) <=> j \in DOMAIN l
      BY <1>2, <2>1, <3>1 DEF IsCell
    <3> HIDE DEF l
    <3>3. /\ j \in DOMAIN TrimTail(l, Blanks)
              <=> j \in DOMAIN l /\ \E m \in DOMAIN l : j <= m /\ l[m] \notin Blanks
          /\ j \in DOMAIN TrimTail(l, Blanks) => TrimTail(l, Blanks)[j] = l[j]
      BY <3>1, TrimTailSpec
    <3> QED BY <3>1, <3>2, <3>3 DEF l
  <2>2. CASE i \notin DOMAIN ls
    BY <1>2, <2>2 DEF IsCell
  <2> QED BY <2>1, <2>2
<1> QED BY <1>4, <1>5 DEF D

(* The lines that normalize joins have exactly the visible cells, and the  *)
(* last of them is not empty.                                              *)
LEMMA NormalLinesSpec ==
  ASSUME NEW C, NEW s \in Seq(C)
  PROVE  /\ NormalLines(s) \in Seq(Seq(C \ {LF}))
         /\ NormalLines(s) # <<>> => Last(NormalLines(s)) # <<>>
         /\ \A i, j \in Nat : IsCell(NormalLines(s), i, j)
              <=> IsCell(Lines(s), i, j)
                  /\ \E m \in DOMAIN Lines(s)[i] : j <= m /\ Lines(s)[i][m] \notin Blanks
         /\ \A i, j \in Nat : IsCell(NormalLines(s), i, j)
              => NormalLines(s)[i][j] = Lines(s)[i][j]
<1> DEFINE D == C \ {LF}
           ls == Lines(s)
           ts == Trimmed(ls)
           ns == NormalLines(s)
           E == Seq(D)
<1>1. ls \in TextLines(C)
  BY UnixNewlinesType, SplitLinesType DEF Lines
<1> HIDE DEF ls
<1>2. /\ ts \in Seq(E)
      /\ \A i, j \in Nat : IsCell(ts, i, j)
              <=> IsCell(ls, i, j) /\ \E m \in DOMAIN ls[i] : j <= m /\ ls[i][m] \notin Blanks
      /\ \A i, j \in Nat : IsCell(ts, i, j) => ts[i][j] = ls[i][j]
  BY <1>1, TrimmedSpec
<1>3. ns = TrimTail(ts, {<<>>})
  BY DEF NormalLines, ls
<1> HIDE DEF ts, ns, E
<1>4. /\ ns \in Seq(E)
      /\ \A i \in Nat : i \in DOMAIN ns
              <=> i \in DOMAIN ts /\ \E m \in DOMAIN ts : i <= m /\ ts[m] \notin {<<>>}
      /\ \A i \in DOMAIN ns : ns[i] = ts[i]
      /\ ns # <<>> => Last(ns) \notin {<<>>}
  BY <1>2, <1>3, TrimTailSpec
<1>5. ASSUME NEW i \in Nat, NEW j \in Nat
      PROVE  /\ IsCell(ns, i, j) <=> IsCell(ts, i, j)
             /\ IsCell(ns, i, j) => ns[i][j] = ts[i][j]
  <2>1. IsCell(ts, i, j) => IsCell(ns, i, j)
    <3> SUFFICES ASSUME IsCell(ts, i, j) PROVE IsCell(ns, i, j)
      OBVIOUS
    <3>1. i \in DOMAIN ts /\ j \in DOMAIN ts[i]
      BY DEF IsCell
    <3>2. ts[i] # <<>>
      BY <3>1
    <3>3. i \in DOMAIN ns
      BY <1>4, <3>1, <3>2
    <3> QED BY <1>4, <3>1, <3>3 DEF IsCell
  <2>2. IsCell(ns, i, j) => IsCell(ts, i, j) /\ ns[i][j] = ts[i][j]
    BY <1>4 DEF IsCell
  <2> QED BY <2>1, <2>2
<1>6. /\ \A i, j \in Nat : IsCell(ns, i, j)
              <=> IsCell(ls, i, j) /\ \E m \in DOMAIN ls[i] : j <= m /\ ls[i][m] \notin Blanks
      /\ \A i, j \in Nat : IsCell(ns, i, j) => ns[i][j] = ls[i][j]
  BY <1>2, <1>5
<1> QED BY <1>4, <1>6 DEF ns, ls, E

(* A character is Seen in the text exactly when its cell is visible.       *)
LEMMA SeenIsVisible ==
  ASSUME NEW C, NEW s \in Seq(C), NEW k \in 1..Len(s), s[k] # LF
  PROVE  Seen(s, k) <=> /\ Kept(s, k)
                        /\ \E m \in DOMAIN Lines(s)[Row(s, k)] :
                              Col(s, k) <= m /\ Lines(s)[Row(s, k)][m] \notin Blanks
<1> DEFINE n == Len(s)
           ls == Lines(s)
<1>1. n \in Nat /\ k \in Nat \ {0} /\ k <= n
  OBVIOUS
<1>2. Laid(s, ls)
  BY LinesAreLaid
<1>3. ls \in TextLines(C)
  BY UnixNewlinesType, SplitLinesType DEF Lines
<1> HIDE DEF ls
<1>4. ASSUME NEW j \in 1..n
      PROVE  ~IsWhite(s, j) <=> Kept(s, j) /\ s[j] \notin Blanks
  BY DEF IsWhite, Kept
<1>5. ASSUME Seen(s, k)
      PROVE  Kept(s, k) /\ \E m \in DOMAIN ls[Row(s, k)] :
                              Col(s, k) <= m /\ ls[Row(s, k)][m] \notin Blanks
  <2>1. PICK j \in k..n : ~IsWhite(s, j) /\ Breaks(s, j) = Breaks(s, k)
    BY <1>5 DEF Seen
  <2>2. j \in 1..n /\ j \in Nat \ {0} /\ k <= j
    BY <1>1
  <2>3. Kept(s, j) /\ s[j] \notin Blanks
    BY <1>4, <2>1, <2>2
  <2>4. Row(s, j) = Row(s, k)
    BY <2>1 DEF Row
  <2>5. IsCell(ls, Row(s, j), Col(s, j)) /\ ls[Row(s, j)][Col(s, j)] = s[j]
    BY <1>2, <2>2, <2>3 DEF Laid
  <2>6. Col(s, k) <= Col(s, j)
    <3>1. CASE j = k
      <4>1. Col(s, k) \in Nat
        BY <1>1, BreaksFinite
      <4> QED BY <3>1, <4>1
    <3>2. CASE j # k
      <4>1. k < j
        BY <1>1, <2>2, <3>2
      <4>2. Col(s, k) < Col(s, j) /\ Col(s, k) \in Nat /\ Col(s, j) \in Nat
        BY <1>1, <2>2, <2>4, <4>1, PositionOrder, BreaksFinite
      <4> QED BY <4>2
    <3> QED BY <3>1, <3>2
  <2>7. Kept(s, k)
    <3> SUFFICES ASSUME s[k] = CR, k < n, s[k + 1] = LF PROVE FALSE
      BY DEF Kept
    <3>1. j # k
      BY <2>3 DEF Kept
    <3>2. j # k + 1
      BY <2>3 DEF Kept
    <3>3. k + 1 \in 1..(j - 1) /\ k + 1 \notin 1..(k - 1)
      BY <1>1, <2>2, <3>1, <3>2
    <3>4. k + 1 \in Breaks(s, j) /\ k + 1 \notin Breaks(s, k)
      BY <3>3 DEF Breaks
    <3> QED BY <2>1, <3>4
  <2>8. Col(s, j) \in DOMAIN ls[Row(s, k)] /\ ls[Row(s, k)][Col(s, j)] \notin Blanks
    BY <2>3, <2>4, <2>5 DEF IsCell
  <2> QED BY <2>6, <2>7, <2>8
<1>6. ASSUME Kept(s, k), NEW m \in DOMAIN ls[Row(s, k)],
             Col(s, k) <= m, ls[Row(s, k)][m] \notin Blanks
      PROVE  Seen(s, k)
  <2>1. Row(s, k) \in Nat /\ Col(s, k) \in Nat
    BY <1>1, BreaksFinite
  <2>2. Row(s, k) \in DOMAIN ls
    BY <1>2, <1>6 DEF Laid, IsCell
  <2>3. m \in Nat
    BY <1>3, <2>2 DEF TextLines
  <2>4. PICK j \in 1..n : Kept(s, j) /\ Row(s, j) = Row(s, k) /\ Col(s, j) = m
    BY <1>2, <2>1, <2>2, <2>3 DEF Laid, IsCell
  <2>5. j \in Nat \ {0}
    OBVIOUS
  <2>6. k <= j
    <3> SUFFICES ASSUME j < k PROVE FALSE
      BY <1>1, <2>5
    <3>1. Col(s, j) < Col(s, k)
      BY <1>1, <2>4, <2>5, PositionOrder
    <3> QED BY <1>6, <2>1, <2>3, <2>4, <3>1
  <2>7. Breaks(s, j) = Breaks(s, k)
    <3>1. CASE j = k
      BY <3>1
    <3>2. CASE j # k
      <4>1. k < j
        BY <1>1, <2>5, <2>6, <3>2
      <4> QED BY <1>1, <2>4, <2>5, <4>1, PositionOrder
    <3> QED BY <3>1, <3>2
  <2>8. ls[Row(s, j)][Col(s, j)] = s[j]
    BY <1>2, <2>4 DEF Laid
  <2>9. ~IsWhite(s, j)
    BY <1>4, <1>6, <2>4, <2>8
  <2>10. j \in k..n
    BY <1>1, <2>5, <2>6
  <2> QED BY <2>7, <2>9, <2>10 DEF Seen
<1> QED BY <1>5, <1>6 DEF ls

(* The appearance of a text is the cells of the lines normalize joins.     *)
LEMMA AppearanceIsCells ==
  ASSUME NEW C, NEW s \in Seq(C)
  PROVE  Appearance(s) = Cells(NormalLines(s))
<1> DEFINE n == Len(s)
           ls == Lines(s)
           ns == NormalLines(s)
<1>1. n \in Nat /\ DOMAIN s = 1..n
  OBVIOUS
<1>2. Laid(s, ls)
  BY LinesAreLaid
<1>3. /\ ns \in Seq(Seq(C \ {LF}))
      /\ \A i, j \in Nat : IsCell(ns, i, j) <=> IsCell(ls, i, j) /\ Visible(ls, i, j)
      /\ \A i, j \in Nat : IsCell(ns, i, j) => ns[i][j] = ls[i][j]
  BY NormalLinesSpec DEF Visible
<1>4. \A k \in 1..n : s[k] # LF => (Seen(s, k) <=> Kept(s, k) /\ Visible(ls, Row(s, k), Col(s, k)))
  BY SeenIsVisible DEF Visible
<1> HIDE DEF n, ls, ns
<1>5. ASSUME NEW k \in 1..n
      PROVE  /\ Row(s, k) \in Nat /\ Col(s, k) \in Nat
             /\ <<Cardinality(Breaks(s, k)), k - Max({0} \cup Breaks(s, k)), s[k]>>
                  = <<Row(s, k) - 1, Col(s, k), s[k]>>
  <2>1. k \in Nat \ {0}
    BY <1>1
  <2>2. Row(s, k) \in Nat /\ Col(s, k) \in Nat /\ Cardinality(Breaks(s, k)) \in Nat
    BY <2>1, BreaksFinite
  <2>3. Cardinality(Breaks(s, k)) = Row(s, k) - 1
    BY <2>2 DEF Row
  <2> QED BY <2>2, <2>3 DEF Col
<1>6. ASSUME NEW x \in Appearance(s) PROVE x \in Cells(ns)
  <2>1. PICK k \in 1..n : s[k] # LF /\ Seen(s, k) /\ x = <<Row(s, k) - 1, Col(s, k), s[k]>>
    BY <1>1, <1>5 DEF Appearance
  <2>2. Kept(s, k) /\ Visible(ls, Row(s, k), Col(s, k))
    BY <1>4, <2>1
  <2>3. IsCell(ls, Row(s, k), Col(s, k)) /\ ls[Row(s, k)][Col(s, k)] = s[k]
    BY <1>2, <2>2 DEF Laid, n
  <2>4. IsCell(ns, Row(s, k), Col(s, k)) /\ ns[Row(s, k)][Col(s, k)] = s[k]
    BY <1>3, <1>5, <2>2, <2>3
  <2> QED BY <2>1, <2>4 DEF Cells, IsCell
<1>7. ASSUME NEW x \in Cells(ns) PROVE x \in Appearance(s)
  <2>0. PICK i \in DOMAIN ns : \E j \in DOMAIN ns[i] : x = <<i - 1, j, ns[i][j]>>
    BY DEF Cells
  <2>1. PICK j \in DOMAIN ns[i] : x = <<i - 1, j, ns[i][j]>>
    BY <2>0
  <2>2. i \in Nat /\ j \in Nat
    BY <1>3
  <2>3. IsCell(ls, i, j) /\ Visible(ls, i, j) /\ ns[i][j] = ls[i][j]
    BY <1>3, <2>2 DEF IsCell
  <2>4. PICK k \in 1..n : Kept(s, k) /\ Row(s, k) = i /\ Col(s, k) = j
    BY <1>2, <2>2, <2>3 DEF Laid, n
  <2>5. ls[i][j] = s[k]
    BY <1>2, <2>4 DEF Laid, n
  <2>6. s[k] # LF /\ Seen(s, k)
    BY <1>4, <2>3, <2>4 DEF Kept
  <2>7. x = <<Cardinality(Breaks(s, k)), k - Max({0} \cup Breaks(s, k)), s[k]>>
    BY <1>5, <2>1, <2>3, <2>4, <2>5
  <2> QED BY <1>1, <2>6, <2>7 DEF Appearance
<1> QED BY <1>6, <1>7 DEF ns

(* The characters of the lines are cells.                                  *)
LEMMA InCells ==
  ASSUME NEW ls, NEW i \in DOMAIN ls, NEW j \in DOMAIN ls[i]
  PROVE  <<i - 1, j, ls[i][j]>> \in Cells(ls)
<1> DEFINE R == {<<i - 1, q, ls[i][q]>> : q \in DOMAIN ls[i]}
<1>1. <<i - 1, j, ls[i][j]>> \in R
  OBVIOUS
<1>2. R \in {{<<p - 1, q, ls[p][q]>> : q \in DOMAIN ls[p]} : p \in DOMAIN ls}
  OBVIOUS
<1> QED BY <1>1, <1>2 DEF Cells

(* A character of ns is in ms too when the cells of ns are among those of  *)
(* ms.                                                                     *)
LEMMA CellShared ==
  ASSUME NEW E, NEW ns \in Seq(Seq(E)), NEW ms \in Seq(Seq(E)),
         NEW i \in DOMAIN ns, NEW j \in DOMAIN ns[i], Cells(ns) \subseteq Cells(ms)
  PROVE  i \in DOMAIN ms /\ j \in DOMAIN ms[i] /\ ns[i][j] = ms[i][j]
<1>1. <<i - 1, j, ns[i][j]>> \in Cells(ms)
  BY InCells
<1>2. PICK p \in DOMAIN ms : \E q \in DOMAIN ms[p] :
        <<i - 1, j, ns[i][j]>> = <<p - 1, q, ms[p][q]>>
  BY <1>1 DEF Cells
<1>3. PICK q \in DOMAIN ms[p] : <<i - 1, j, ns[i][j]>> = <<p - 1, q, ms[p][q]>>
  BY <1>2
<1>4. i - 1 = p - 1 /\ j = q /\ ns[i][j] = ms[p][q] /\ i \in Nat /\ p \in Nat
  BY <1>3
<1>5. i = p
  BY <1>4
<1> QED BY <1>4, <1>5

(* Then ns is no longer than ms, and no line of it is.                     *)
LEMMA CellsBelow ==
  ASSUME NEW E, NEW ns \in Seq(Seq(E)), NEW ms \in Seq(Seq(E)),
         ns # <<>> => Last(ns) # <<>>, Cells(ns) \subseteq Cells(ms)
  PROVE  /\ Len(ns) <= Len(ms)
         /\ \A i \in DOMAIN ns : Len(ns[i]) <= Len(ms[i])
<1>1. /\ Len(ns) \in Nat /\ DOMAIN ns = 1..Len(ns) /\ Len(ms) \in Nat /\ DOMAIN ms = 1..Len(ms)
      /\ \A i \in DOMAIN ns : ns[i] \in Seq(E) /\ Len(ns[i]) \in Nat /\ DOMAIN ns[i] = 1..Len(ns[i])
      /\ \A i \in DOMAIN ms : ms[i] \in Seq(E) /\ Len(ms[i]) \in Nat /\ DOMAIN ms[i] = 1..Len(ms[i])
  OBVIOUS
<1>2. Len(ns) <= Len(ms)
  <2>1. CASE ns = <<>>
    BY <1>1, <2>1
  <2>2. CASE ns # <<>>
    <3>1. Len(ns) \in DOMAIN ns /\ ns[Len(ns)] # <<>>
      BY <1>1, <2>2 DEF Last
    <3>2. 1 \in DOMAIN ns[Len(ns)]
      BY <1>1, <3>1
    <3>3. Len(ns) \in DOMAIN ms
      BY CellShared, <3>1, <3>2
    <3> QED BY <1>1, <3>3
  <2> QED BY <2>1, <2>2
<1>3. ASSUME NEW i \in DOMAIN ns PROVE Len(ns[i]) <= Len(ms[i])
  <2>1. i \in DOMAIN ms
    BY <1>1, <1>2
  <2>2. CASE Len(ns[i]) = 0
    BY <1>1, <2>1, <2>2
  <2>3. CASE Len(ns[i]) # 0
    <3>1. Len(ns[i]) \in DOMAIN ns[i]
      BY <1>1, <2>3
    <3>2. Len(ns[i]) \in DOMAIN ms[i]
      BY <3>1, CellShared
    <3> QED BY <1>1, <2>1, <3>2
  <2> QED BY <2>2, <2>3
<1> QED BY <1>2, <1>3

(* Lines without an empty one at the end are determined by their cells.    *)
LEMMA CellsDetermine ==
  ASSUME NEW E, NEW ns \in Seq(Seq(E)), NEW ms \in Seq(Seq(E)),
         ns # <<>> => Last(ns) # <<>>, ms # <<>> => Last(ms) # <<>>, Cells(ns) = Cells(ms)
  PROVE  ns = ms
<1>0. Cells(ns) \subseteq Cells(ms) /\ Cells(ms) \subseteq Cells(ns)
  OBVIOUS
<1>1. Len(ns) <= Len(ms) /\ Len(ms) <= Len(ns) /\ Len(ns) \in Nat /\ Len(ms) \in Nat
  BY <1>0, CellsBelow
<1>2. Len(ns) = Len(ms) /\ DOMAIN ns = 1..Len(ns) /\ DOMAIN ms = 1..Len(ns)
  BY <1>1
<1>3. ASSUME NEW i \in 1..Len(ns) PROVE ns[i] = ms[i]
  <2>1. ns[i] \in Seq(E) /\ ms[i] \in Seq(E)
    BY <1>2
  <2>2. /\ Len(ns[i]) <= Len(ms[i]) /\ Len(ms[i]) <= Len(ns[i])
        /\ \A j \in DOMAIN ns[i] : ns[i][j] = ms[i][j]
    <3>1. Len(ns[i]) <= Len(ms[i])
      BY <1>0, <1>2, CellsBelow
    <3>2. Len(ms[i]) <= Len(ns[i])
      BY <1>0, <1>2, CellsBelow
    <3>3. ASSUME NEW j \in DOMAIN ns[i] PROVE ns[i][j] = ms[i][j]
      BY <1>0, <1>2, CellShared
    <3> QED BY <3>1, <3>2, <3>3
  <2>3. Len(ns[i]) = Len(ms[i]) /\ DOMAIN ns[i] = 1..Len(ns[i])
    BY <2>1, <2>2
  <2> DEFINE x == ns[i]
             y == ms[i]
  <2>4. x \in Seq(E) /\ y \in Seq(E) /\ Len(x) = Len(y) /\ \A j \in 1..Len(x) : x[j] = y[j]
    BY <2>1, <2>2, <2>3
  <2> HIDE DEF x, y
  <2>5. x = y
    BY <2>4, SeqEqual
  <2> QED BY <2>5 DEF x, y
<1> DEFINE F == Seq(E)
<1>4. ns \in Seq(F) /\ ms \in Seq(F)
  OBVIOUS
<1> HIDE DEF F
<1> QED BY <1>2, <1>3, <1>4, SeqEqual

(* Splitting a text that a piece without LF is added to.                   *)
LEMMA SplitCat ==
  ASSUME NEW C, NEW s \in Seq(C)
  PROVE  \A l \in Seq(C \ {LF}) :
           SplitLines(s \o l) = Append(Front(SplitLines(s)), Last(SplitLines(s)) \o l)
<1> DEFINE D == C \ {LF}
           ls == SplitLines(s)
           P == {l \in Seq(D) : SplitLines(s \o l) = Append(Front(ls), Last(ls) \o l)}
<1>1. /\ ls \in Seq(Seq(D)) /\ ls # <<>> /\ Front(ls) \in Seq(Seq(D)) /\ Last(ls) \in Seq(D)
      /\ Append(Front(ls), Last(ls)) = ls
  BY SplitLinesType, FrontLast DEF TextLines
<1>2. <<>> \in P
  <2>1. s \o <<>> = s /\ Last(ls) \o <<>> = Last(ls) /\ <<>> \in Seq(D)
    BY <1>1
  <2> QED BY <1>1, <2>1
<1>3. ASSUME NEW l \in P, NEW e \in D PROVE Append(l, e) \in P
  <2>1. /\ l \in Seq(D) /\ SplitLines(s \o l) = Append(Front(ls), Last(ls) \o l)
        /\ Append(l, e) \in Seq(D) /\ e \in C /\ e # LF /\ l \in Seq(C)
    OBVIOUS
  <2>2. s \o Append(l, e) = Append(s \o l, e) /\ s \o l \in Seq(C)
    BY <2>1
  <2>3. SplitLines(s \o Append(l, e)) = SplitStep(SplitLines(s \o l), e)
    BY <2>1, <2>2, SplitLinesRec
  <2> DEFINE F == Seq(D)
             x == Last(ls) \o l
  <2>4. Front(ls) \in Seq(F) /\ x \in F
    BY <1>1, <2>1
  <2>5. Last(ls) \o Append(l, e) = Append(x, e)
    BY <1>1, <2>1
  <2> HIDE DEF F, x, ls
  <2>6. Front(Append(Front(ls), x)) = Front(ls) /\ Last(Append(Front(ls), x)) = x
    BY <2>4, FrontLastAppend
  <2>7. SplitStep(Append(Front(ls), x), e) = Append(Front(ls), Append(x, e))
    BY <2>1, <2>6 DEF SplitStep
  <2>8. SplitLines(s \o Append(l, e)) = Append(Front(ls), Last(ls) \o Append(l, e))
    BY <2>1, <2>3, <2>5, <2>7 DEF x
  <2> QED BY <2>1, <2>8
<1> HIDE DEF P
<1>4. P = Seq(D)
  <2>1. P \subseteq Seq(D) BY DEF P
  <2> QED BY <1>2, <1>3, <2>1, SeqInd
<1> QED BY <1>4 DEF P

(* Splitting what the loop of JoinLines joined gives the lines back.       *)
LEMMA SplitJoinRun ==
  ASSUME NEW D, LF \notin D, NEW b \in Seq(D)
  PROVE  \A ls \in Seq(Seq(D)) : SplitLines(JoinRun(b, ls)) = <<b>> \o ls
<1> DEFINE C == D \cup {LF}
           F == Seq(D)
           P == {ls \in Seq(F) : JoinRun(b, ls) \in Seq(C)
                                 /\ SplitLines(JoinRun(b, ls)) = <<b>> \o ls}
<1>0. LF \in C /\ D = C \ {LF} /\ Seq(D) \subseteq Seq(C)
  OBVIOUS
<1> HIDE DEF C
<1>1. <<>> \in P
  <2>1. JoinRun(b, <<>>) = b /\ b \in Seq(C) /\ <<b>> \o <<>> = <<b>> /\ <<>> \in Seq(F)
    BY <1>0, JoinRunEmpty
  <2>2. <<>> \in Seq(C) /\ <<>> \o b = b /\ SplitLines(<<>>) = << <<>> >>
    BY SplitLinesRec
  <2>3. SplitLines(b) = Append(Front(<< <<>> >>), Last(<< <<>> >>) \o b)
    BY <1>0, <2>2, SplitCat
  <2>4. Front(<< <<>> >>) = <<>> /\ Last(<< <<>> >>) = <<>>
    BY DEF Front, Last
  <2>5. SplitLines(b) = <<b>>
    BY <2>2, <2>3, <2>4
  <2> QED BY <2>1, <2>5
<1>2. ASSUME NEW ls \in P, NEW l \in F PROVE Append(ls, l) \in P
  <2> DEFINE r == JoinRun(b, ls)
             x == <<b>> \o ls
  <2>1. ls \in Seq(F) /\ r \in Seq(C) /\ SplitLines(r) = x /\ Append(ls, l) \in Seq(F)
        /\ x \in Seq(F) /\ l \in Seq(C) /\ <<>> \in F
    BY <1>0
  <2>2. JoinRun(b, Append(ls, l)) = Append(r, LF) \o l
    <3> HIDE DEF F, P, r, x
    <3>1. ls \in Seq(F) /\ l \in F
      BY <2>1
    <3>2. JoinRun(b, Append(ls, l)) = JoinStep(JoinRun(b, ls), l)
      BY <3>1, JoinRunAppend
    <3> QED BY <3>2 DEF JoinStep, r
  <2>3. <<b>> \o Append(ls, l) = Append(x, l)
    BY <2>1
  <2> HIDE DEF r, x, P
  <2>4. Append(r, LF) \in Seq(C) /\ Append(r, LF) \o l \in Seq(C)
    BY <1>0, <2>1
  <2>5. SplitLines(Append(r, LF)) = Append(x, <<>>)
    BY <1>0, <2>1, SplitLinesRec DEF SplitStep
  <2>6. Front(Append(x, <<>>)) = x /\ Last(Append(x, <<>>)) = <<>>
    <3> HIDE DEF F
    <3> QED BY <2>1, FrontLastAppend
  <2>7. SplitLines(Append(r, LF) \o l) = Append(x, <<>> \o l)
    BY <1>0, <2>4, <2>5, <2>6, SplitCat
  <2>8. <<>> \o l = l
    OBVIOUS
  <2>9. SplitLines(JoinRun(b, Append(ls, l))) = <<b>> \o Append(ls, l)
    BY <2>2, <2>3, <2>7, <2>8
  <2> QED BY <2>1, <2>2, <2>4, <2>9 DEF P
<1> HIDE DEF P
<1>3. P = Seq(F)
  <2> HIDE DEF F
  <2>1. P \subseteq Seq(F) BY DEF P
  <2> QED BY <1>1, <1>2, <2>1, SeqInd
<1> QED BY <1>3 DEF P

(* strings.Split undoes strings.Join, unless there is no line at all.      *)
LEMMA SplitJoinLines ==
  ASSUME NEW D, LF \notin D, NEW ls \in Seq(Seq(D))
  PROVE  /\ JoinLines(<<>>) = <<>>
         /\ ls # <<>> => SplitLines(JoinLines(ls)) = ls
<1>2. ASSUME ls # <<>> PROVE SplitLines(JoinLines(ls)) = ls
  <2>1. Head(ls) \in Seq(D) /\ Tail(ls) \in Seq(Seq(D)) /\ <<Head(ls)>> \o Tail(ls) = ls
    BY <1>2
  <2>2. JoinLines(ls) = JoinRun(Head(ls), Tail(ls))
    BY <1>2 DEF JoinLines, JoinRun
  <2> DEFINE h == Head(ls)
             t == Tail(ls)
  <2>3. h \in Seq(D) /\ t \in Seq(Seq(D))
    BY <2>1
  <2> HIDE DEF h, t
  <2>4. SplitLines(JoinRun(h, t)) = <<h>> \o t
    BY <2>3, SplitJoinRun
  <2> QED BY <2>1, <2>2, <2>4 DEF h, t
<1>3. JoinLines(<<>>) = <<>>
  BY DEF JoinLines
<1> QED BY <1>2, <1>3

(* Joining loses nothing of lines without an empty one at the end.         *)
LEMMA JoinLinesInjective ==
  ASSUME NEW D, LF \notin D, NEW ns \in Seq(Seq(D)), NEW ms \in Seq(Seq(D)),
         ns # <<>> => Last(ns) # <<>>, ms # <<>> => Last(ms) # <<>>,
         JoinLines(ns) = JoinLines(ms)
  PROVE  ns = ms
<1>1. ASSUME NEW ls \in Seq(Seq(D)), ls # <<>>, Last(ls) # <<>>
      PROVE  JoinLines(ls) # <<>> /\ SplitLines(JoinLines(ls)) = ls
  <2>1. SplitLines(JoinLines(ls)) = ls
    BY <1>1, SplitJoinLines
  <2>2. SplitLines(<<>>) = << <<>> >>
    BY SplitLinesRec
  <2>3. Last(<< <<>> >>) = <<>>
    BY DEF Last
  <2> QED BY <1>1, <2>1, <2>2, <2>3
<1>2. JoinLines(<<>>) = <<>>
  BY DEF JoinLines
<1>3. CASE ns = <<>> \/ ms = <<>>
  BY <1>1, <1>2, <1>3
<1>4. CASE ns # <<>> /\ ms # <<>>
  BY <1>1, <1>4
<1> QED BY <1>3, <1>4

(* The comparison of the judge is the one it means: two texts have the     *)
(* same normal form exactly when they look the same, up to white space at  *)
(* line ends, Windows line ends and trailing blank lines.                  *)
THEOREM NormalizeKeepsAppearance ==
  ASSUME NEW C, NEW s \in Seq(C), NEW t \in Seq(C)
  PROVE  normalize(s) = normalize(t) <=> SameOutput(s, t)
<1> DEFINE D == C \ {LF}
           ns == NormalLines(s)
           ms == NormalLines(t)
<1>1. normalize(s) = JoinLines(ns) /\ normalize(t) = JoinLines(ms)
  BY DEF normalize, NormalLines, Trimmed, Lines
<1>2. /\ ns \in Seq(Seq(D)) /\ (ns # <<>> => Last(ns) # <<>>)
      /\ ms \in Seq(Seq(D)) /\ (ms # <<>> => Last(ms) # <<>>)
  BY NormalLinesSpec
<1>3. Appearance(s) = Cells(ns) /\ Appearance(t) = Cells(ms) /\ LF \notin D
  BY AppearanceIsCells
<1> HIDE DEF ns, ms, D
<1>4. ASSUME normalize(s) = normalize(t) PROVE SameOutput(s, t)
  <2>1. ns = ms
    BY <1>1, <1>2, <1>3, <1>4, JoinLinesInjective
  <2> QED BY <1>3, <2>1 DEF SameOutput
<1>5. ASSUME SameOutput(s, t) PROVE normalize(s) = normalize(t)
  <2>1. ns = ms
    BY <1>2, <1>3, <1>5, CellsDetermine DEF SameOutput
  <2> QED BY <1>1, <2>1
<1> QED BY <1>4, <1>5
=============================================================================
