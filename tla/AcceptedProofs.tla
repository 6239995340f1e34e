------------------------------- MODULE AcceptedProofs -------------------------------
(***************************************************************************)
(* The invariant that MCClassify checks for short texts, for texts of any  *)
(* length over any alphabet.                                               *)
(***************************************************************************)
EXTENDS MCClassify, ClassifyProofs

(* Both texts are over the alphabet.                                       *)
TypeInv == printed \in Seq(Alphabet) /\ expected \in Seq(Alphabet)

(* Both texts stay over the alphabet, however long they grow.              *)
THEOREM Typing == Spec => []TypeInv
<1>1. Init => TypeInv
  BY DEF Init, TypeInv
<1>2. TypeInv /\ [Next]_<<printed, expected>> => TypeInv'
  <2> SUFFICES ASSUME TypeInv, [Next]_<<printed, expected>> PROVE TypeInv'
    OBVIOUS
  <2>1. CASE UNCHANGED <<printed, expected>>
    BY <2>1 DEF TypeInv
  <2>2. ASSUME NEW ch \in Alphabet, Emit(ch) PROVE TypeInv'
    BY <2>2 DEF TypeInv, Emit
  <2>3. ASSUME NEW ch \in Alphabet, Expect(ch) PROVE TypeInv'
    BY <2>3 DEF TypeInv, Expect
  <2> QED BY <2>1, <2>2, <2>3 DEF Next
<1> QED BY <1>1, <1>2, PTL DEF Spec

(* A solution is accepted exactly when it ran to its end, uncut, and its   *)
(* output looks like the expected one: for every alphabet and every two    *)
(* texts, of any length.                                                   *)
THEOREM Accepted == Spec => []AcceptedIffSame
<1>1. TypeInv => AcceptedIffSame
  <2> SUFFICES ASSUME TypeInv, NEW v \in {"OK", "TLE", "MLE", "RE", ""}, NEW cut \in BOOLEAN
               PROVE  classify([verdict |-> v, stdout |-> printed, truncated |-> cut], expected)
                        = "AC" <=> v = "OK" /\ ~cut /\ SameOutput(printed, expected)
    BY DEF AcceptedIffSame
  <2>1. normalize(printed) = normalize(expected) <=> SameOutput(printed, expected)
    BY NormalizeKeepsAppearance DEF TypeInv
  <2> QED BY <2>1 DEF classify
<1> QED BY <1>1, Typing, PTL
=============================================================================
