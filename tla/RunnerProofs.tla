------------------------------- MODULE RunnerProofs -------------------------------
(***************************************************************************)
(* Theorems about Runner, for every limit and every amount of output.      *)
(***************************************************************************)
EXTENDS Runner, TLAPS

USE RunnerAssumption
  DEF Ended, Alive, procVars, outputVars, timerVars, mainVars

(* What cappedWriter.Write keeps of one more chunk is what the file needs  *)
(* to mirror the bytes copied so far.                                      *)
LEMMA WriteMirrors ==
  ASSUME NEW k \in Nat \ {0}, copied \in Nat, truncated \in BOOLEAN,
         FileMirrorsCopy, copier = "on", Write(k), copied' = copied + k
  PROVE  FileMirrorsCopy' /\ written' \in 0..Limit /\ truncated' \in BOOLEAN
<1>0. (truncated' <=> truncated \/ k > Limit - written) /\ truncated' \in BOOLEAN
  BY Zenon DEF Write
<1>1. CASE copied < Limit
  <2>1. written = copied /\ ~truncated
    BY <1>1 DEF FileMirrorsCopy, Smaller
  <2>2. written' = IF k < Limit - copied THEN copied + k ELSE Limit
    BY <1>1, <2>1 DEF Write, Smaller
  <2>3. truncated' <=> copied' > Limit
    BY <1>0, <1>1, <2>1
  <2> QED BY <1>0, <1>1, <2>2, <2>3 DEF FileMirrorsCopy, Smaller
<1>2. CASE ~(copied < Limit)
  <2>1. written = Limit /\ (truncated <=> copied > Limit)
    BY <1>2 DEF FileMirrorsCopy, Smaller
  <2>2. written' = Limit
    BY <2>1 DEF Write, Smaller
  <2>3. truncated' /\ copied' > Limit
    BY <1>0, <1>2, <2>1
  <2> QED BY <1>0, <1>2, <2>2, <2>3 DEF FileMirrorsCopy, Smaller
<1> QED BY <1>1, <1>2

(* What a failing Write leaves is a beginning of what has been copied.     *)
LEMMA PartlyIsPrefix ==
  ASSUME NEW k \in Nat \ {0}, copied \in Nat, truncated \in BOOLEAN,
         FileMirrorsCopy, copier = "on", WritePartly(k), copied' = copied + k,
         copier' = "off"
  PROVE  FileMirrorsCopy' /\ written' \in 0..Limit /\ truncated' \in BOOLEAN
<1>0. (truncated' <=> truncated \/ k > Limit - written) /\ truncated' \in BOOLEAN
  BY Zenon DEF WritePartly
<1>1. PICK j \in 0..(Smaller(k, Limit - written) - 1) : written' = written + j
  BY DEF WritePartly
<1>2. written = Smaller(copied, Limit) /\ (truncated => copied > Limit)
  BY DEF FileMirrorsCopy
<1>3. written' \in 0..Limit /\ written' <= Smaller(copied', Limit)
  BY <1>1, <1>2 DEF Smaller
<1>4. truncated' => copied' > Limit
  BY <1>0, <1>2 DEF Smaller
<1> QED BY <1>0, <1>3, <1>4 DEF FileMirrorsCopy

(* The initial state satisfies the invariant.                              *)
LEMMA InitInv == Init => IndInv
<1> SUFFICES ASSUME Init PROVE IndInv
  OBVIOUS
<1>1. TypeOK
  <2>1. produced \in 0..MaxOutput /\ copied \in 0..produced /\ written \in 0..Limit
    BY DEF Init
  <2> QED BY <2>1, Zenon DEF Init, TypeOK
<1>2. FlagBeforeKill
  BY Zenon DEF Init, FlagBeforeKill
<1>4. NobodyLeft
  BY Zenon DEF Init, NobodyLeft
<1>3. FileMirrorsCopy
  BY DEF Init, FileMirrorsCopy, Smaller
<1> QED BY <1>1, <1>2, <1>3, <1>4 DEF IndInv

(* Every step keeps it.                                                    *)
LEMMA NextInv == IndInv /\ [Next]_vars => IndInv'
<1> SUFFICES ASSUME IndInv, [Next]_vars PROVE IndInv'
  OBVIOUS
<1> USE DEF IndInv, TypeOK, FlagBeforeKill, NobodyLeft
<1>1. CASE Produce
  BY <1>1 DEF Produce, FileMirrorsCopy
<1>2. CASE Spawn
  BY <1>2 DEF Spawn, FileMirrorsCopy
<1>3. CASE HelperEnds
  BY <1>3 DEF HelperEnds, FileMirrorsCopy
<1>4. CASE ProgEnds
  BY <1>4 DEF ProgEnds, FileMirrorsCopy
<1>5. CASE Copy
  <2>1. PICK k \in 1..(produced - copied) : copied' = copied + k /\ Write(k)
    BY <1>5 DEF Copy
  <2>2. FileMirrorsCopy' /\ written' \in 0..Limit /\ truncated' \in BOOLEAN
    BY <1>5, <2>1, WriteMirrors DEF Copy
  <2>3. copied' \in 0..produced /\ copied # produced
    BY <2>1
  <2> QED BY <1>5, <2>2, <2>3 DEF Copy
<1>6. CASE CopyErr
  <2>1. PICK k \in 1..(produced - copied) : copied' = copied + k /\ WritePartly(k)
    BY <1>6 DEF CopyErr
  <2>2. FileMirrorsCopy' /\ written' \in 0..Limit /\ truncated' \in BOOLEAN
    BY <1>6, <2>1, PartlyIsPrefix DEF CopyErr
  <2>3. copied' \in 0..produced
    BY <2>1
  <2> QED BY <1>6, <2>2, <2>3 DEF CopyErr
<1>7. CASE Fire
  BY <1>7 DEF Fire, FileMirrorsCopy
<1>8. CASE SetFlag
  BY <1>8 DEF SetFlag, FileMirrorsCopy
<1>9. CASE Kill
  BY <1>9 DEF Kill, GroupDies, FileMirrorsCopy
<1>10. CASE Start
  BY <1>10 DEF Start, FileMirrorsCopy
<1>11. CASE StartErr
  BY <1>11 DEF StartErr, FileMirrorsCopy
<1>12. CASE Wait
  BY <1>12 DEF Wait, Copied, FileMirrorsCopy
<1>13. CASE Stop
  BY <1>13 DEF Stop, FileMirrorsCopy
<1>14. CASE Decide
  BY <1>14 DEF Decide, FileMirrorsCopy
<1>15. CASE UNCHANGED vars
  BY <1>15 DEF vars, FileMirrorsCopy
<1> QED
  BY <1>1, <1>2, <1>3, <1>4, <1>5, <1>6, <1>7, <1>8, <1>9, <1>10, <1>11, <1>12,
     <1>13, <1>14, <1>15
     DEF Next, Run, Callback, Command

(* The invariant holds in every reachable state.                           *)
THEOREM Invariance == Spec => []IndInv
  BY InitInv, NextInv, PTL DEF Spec

(* The state keeps its shape.                                              *)
THEOREM TypesAreOK == Spec => []TypeOK
  BY Invariance, PTL DEF IndInv

(* Whatever the race between the timer and run, a command that was killed  *)
(* is reported as TLE, and TLE is never reported too early.                *)
THEOREM KillsAreTLE == Spec => []KilledIsTLE
<1>1. IndInv => KilledIsTLE
  BY DEF IndInv, TypeOK, FlagBeforeKill, KilledIsTLE
<1> QED BY <1>1, Invariance, PTL

(* For every limit, the captured output is whole or truncated says not.    *)
THEOREM NothingIsCutSilently == Spec => []OutputIsWhole
<1>1. IndInv => OutputIsWhole
  BY DEF IndInv, TypeOK, FileMirrorsCopy, NobodyLeft, OutputIsWhole, Smaller
<1> QED BY <1>1, Invariance, PTL
(* Once run has returned, nothing of its result changes any more: neither  *)
(* the verdict, whatever the timer's callback still does, nor the file and *)
(* truncated, whatever the command left behind.  What main reports is what *)
(* judge finds in the directory.                                           *)
THEOREM ResultIsFinal ==
  Spec => [][main = "done" => UNCHANGED <<main, verdict, written, truncated, copied>>]_vars
<1>1. ASSUME IndInv, Next, main = "done"
      PROVE  UNCHANGED <<main, verdict, written, truncated, copied>>
  <2>1. CASE Run
    BY <1>1, <2>1 DEF Run, Start, StartErr, Wait, Stop, Decide
  <2>2. CASE Fire \/ Callback \/ Command
    BY <2>2 DEF Fire, Callback, SetFlag, Kill, Command, Produce, Spawn, HelperEnds, ProgEnds
  <2>3. CASE Copy \/ CopyErr
    <3>1. copier = "on" /\ 1..(produced - copied) # {}
      BY <2>3 DEF Copy, CopyErr
    <3>2. copied = produced
      BY <1>1, <3>1 DEF IndInv, NobodyLeft
    <3> QED BY <1>1, <3>1, <3>2 DEF IndInv, TypeOK
  <2> QED BY <1>1, <2>1, <2>2, <2>3 DEF Next
<1> QED BY <1>1, Invariance, PTL DEF Spec

=============================================================================
