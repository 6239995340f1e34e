--------------------------------- MODULE Classify ---------------------------------
(***************************************************************************)
(* How the judge turns one execution into a verdict: classify and          *)
(* normalize of judge.go.  A text is a sequence of characters, where LF,   *)
(* CR, SP and TAB are the ones the comparison treats specially.            *)
(***************************************************************************)
EXTENDS Naturals, Sequences, SequencesExt, FiniteSetsExt

LF == "LF"
CR == "CR"
Blanks == {"SP", "TAB"}

(* strings.ReplaceAll(s, "\r\n", "\n")                                     *)
UnixStep(t, ch) ==
  IF ch = LF /\ t # <<>> /\ Last(t) = CR THEN Append(Front(t), LF) ELSE Append(t, ch)

UnixNewlines(s) == FoldLeft(UnixStep, <<>>, s)

(* strings.Split(s, "\n") and strings.Join(lines, "\n")                    *)
SplitStep(ls, ch) ==
  IF ch = LF THEN Append(ls, <<>>) ELSE Append(Front(ls), Append(Last(ls), ch))

SplitLines(s) == FoldLeft(SplitStep, << <<>> >>, s)

JoinStep(s, l) == Append(s, LF) \o l

JoinLines(ls) ==
  IF ls = <<>> THEN <<>> ELSE FoldLeft(JoinStep, Head(ls), Tail(ls))

(* s without its longest tail made of members of cut.                      *)
TrimTail(s, cut) ==
  SubSeq(s, 1, Max({0} \cup {i \in DOMAIN s : s[i] \notin cut}))

NormalizeKeepsCRLF(s) ==        \* mutant: forgets the Windows line ends
  LET lines == SplitLines(s)
      trimmed == [i \in DOMAIN lines |-> TrimTail(lines[i], Blanks)]
  IN JoinLines(TrimTail(trimmed, {<<>>}))

normalize(s) ==
  LET lines == SplitLines(UnixNewlines(s))
      trimmed == [i \in DOMAIN lines |-> TrimTail(lines[i], Blanks)]
  IN JoinLines(TrimTail(trimmed, {<<>>}))

(* out.Verdict is the runner's: OK, TLE, MLE or RE, or whatever else       *)
(* result.json says.                                                       *)
classify(out, expected) ==
  CASE out.verdict = "OK" ->
         IF ~out.truncated /\ normalize(out.stdout) = normalize(expected)
           THEN "AC" ELSE "WA"
    [] out.verdict = "TLE" -> "TLE"
    [] out.verdict = "MLE" -> "MLE"
    [] OTHER -> "RE"

-----------------------------------------------------------------------------
(* The reference: what a reader sees of a text, as a set of characters     *)
(* with their line and column.  White space at the end of a line is not    *)
(* seen; a CR counts as white space directly before an LF.                 *)
Breaks(s, i) == {j \in 1..(i - 1) : s[j] = LF}

IsWhite(s, i) ==
  \/ s[i] \in Blanks \cup {LF}
  \/ s[i] = CR /\ i < Len(s) /\ s[i + 1] = LF

Seen(s, i) == \E j \in i..Len(s) : ~IsWhite(s, j) /\ Breaks(s, j) = Breaks(s, i)

Appearance(s) ==
  {<<Cardinality(Breaks(s, i)), i - Max({0} \cup Breaks(s, i)), s[i]>> :
     i \in {k \in DOMAIN s : s[k] # LF /\ Seen(s, k)}}

SameOutput(s, t) == Appearance(s) = Appearance(t)
=============================================================================
