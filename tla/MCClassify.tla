-------------------------------- MODULE MCClassify --------------------------------
(* Two texts, what a program printed and what the test case expects, grow  *)
(* character by character through every pair of texts of at most MaxLen.   *)
EXTENDS Classify

CONSTANTS Alphabet, MaxLen

VARIABLES printed, expected

Init == printed = <<>> /\ expected = <<>>

Emit(ch)   == Len(printed) < MaxLen /\ printed' = Append(printed, ch) /\ UNCHANGED expected
Expect(ch) == Len(expected) < MaxLen /\ expected' = Append(expected, ch) /\ UNCHANGED printed

Next == \E ch \in Alphabet : Emit(ch) \/ Expect(ch)

Spec == Init /\ [][Next]_<<printed, expected>>

(* A solution is accepted exactly when it ran to its end, nothing of its   *)
(* output was cut off and the output looks the same as the expected one up *)
(* to white space at line ends and trailing blank lines (classify and      *)
(* normalize in judge.go, against the reference SameOutput).               *)
AcceptedIffSame ==
  \A v \in {"OK", "TLE", "MLE", "RE", ""} : \A cut \in BOOLEAN :
    LET out == [verdict |-> v, stdout |-> printed, truncated |-> cut]
    IN classify(out, expected) = "AC"
         <=> v = "OK" /\ ~cut /\ SameOutput(printed, expected)
=============================================================================
